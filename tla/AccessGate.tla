---------------------------- MODULE AccessGate ----------------------------
(***************************************************************************)
(* Who may do what: API keys, the REST handlers and the MCP server over    *)
(* the context bindings of one tenant.                                     *)
(*                                                                         *)
(* A call is authenticated (the key's row is read), checked against the    *)
(* key, resolved to a memory context in two statements (the binding, then  *)
(* its policies) and handed to the service.  Between any two of these      *)
(* steps keys are minted, revoked or edited, contexts are registered again *)
(* with other policies, and the subject is erased and registered anew.  An *)
(* MCP process reads its key once at startup and again on every tool call. *)
(***************************************************************************)
EXTENDS ContextBindings

CONSTANTS
    Clients,
    Identities, PolicySets,             \* registrations the stores are asked about
    Registrations,                      \* identity and policies of those clients do make
    ServiceKey, BoundKeys,              \* key ids; the service key exists from the start
    Calls,                              \* call slots
    VerbsOf,                            \* the REST verbs and MCP tools a slot is used for
    MaxBinds, MaxEdits                  \* bounds: registrations, operator edits of keys

ASSUME AccessAssumption ==
    /\ Registrations \subseteq Identities \X PolicySets
    /\ ServiceKey \notin BoundKeys
    /\ None \notin BoundKeys \cup {ServiceKey}
    /\ MaxBinds \in Nat /\ MaxEdits \in Nat

VARIABLES
    pg, mem,    \* the two stores
    binds,      \* how many registrations were accepted
    issued,     \* tuples clients were told
    erased,     \* subject_tombstone
    key,        \* api_key rows
    edits,
    session,    \* what the stdio MCP process read at startup
    call

vars == <<pg, mem, binds, issued, erased, key, edits, session, call>>
stores == <<pg, mem, binds, issued, erased>>

AgentOutput == 1
TrustedUser == 6

\* A row of memphant.api_key.  An unbound row is a tenant service key.
Row(context, trust) ==
    [context |-> context, trust |-> trust, forget |-> FALSE, audit |-> FALSE, revoked |-> FALSE]

Idle == [pc |-> "idle"]

Init ==
    /\ pg = PgEmpty /\ mem = MemEmpty
    /\ binds = 0 /\ issued = {} /\ erased = {}
    /\ key = [k \in {ServiceKey} |-> [Row(None, TrustedUser) EXCEPT !.forget = TRUE]]
    /\ edits = 0
    /\ session = None
    /\ call = [c \in Calls |-> Idle]

---------------------------------------------------------------------------
\* Keys and registrations

Live(k) == k \in DOMAIN key /\ ~key[k].revoked

Tuple(b) == [subject |-> b.subject, actor |-> b.actor, scope |-> b.scope, node |-> b.node]

\* PUT /v1/context-bindings/{client_ref} with a service key.  Both stores are offered
\* every registration; each applies what it accepts.
context_binding_handler(client, q, policies) ==
    /\ Live(ServiceKey)
    /\ Distinct(policies)
    /\ binds < MaxBinds
    /\ PgAccepts(pg, client, q, policies, binds)
    /\ pg' = PgBind(pg, client, q, policies, binds)
    /\ pg' # pg
    /\ mem' = IF MemAccepts(mem, client, q, policies)
              THEN MemBind(mem, client, q, policies, binds) ELSE mem
    /\ binds' = binds + 1
    /\ issued' = issued \cup {Tuple(b) : b \in PgBound(pg', client)}
    /\ UNCHANGED <<erased, key, edits, session, call>>

revoke_api_key_handler(k) ==
    /\ Live(ServiceKey) /\ Live(k)
    /\ key' = [key EXCEPT ![k].revoked = TRUE]
    /\ UNCHANGED <<stores, edits, session, call>>

\* Capabilities and ceilings of a row are only ever changed by an operator's SQL.
OperatorEditsKey(k) ==
    /\ Live(k) /\ edits < MaxEdits
    /\ edits' = edits + 1
    /\ \E t \in {AgentOutput, TrustedUser} :
        key' = [key EXCEPT ![k] = [@ EXCEPT !.trust = t, !.forget = (t = TrustedUser)]]
    /\ UNCHANGED <<stores, session, call>>

---------------------------------------------------------------------------
\* The checks of the REST handlers: a is the key's row, q the request

Unbound(a) == a.context = None

check_principal(a, q) ==
    Unbound(a) \/ (a.context.actor = q.actor /\ a.context.scope = q.scope)

check_scope(a, q) == Unbound(a) \/ a.context.scope = q.scope

Owner(a, q) == a.forget /\ check_principal(a, q)

retain_handler(a, q) == check_principal(a, q)
reflect_handler(a, q) == check_principal(a, q)
recall_handler(a, q) == check_principal(a, q)
recall_as_of(a, q) == a.audit /\ check_principal(a, q)
correct_handler(a, q) == check_principal(a, q)
forget_handler(a, q) == Owner(a, q)
erase_subject_handler(a, q) == Owner(a, q)
file_sync_handler(a, q, forgets) == (forgets => a.forget) /\ check_principal(a, q)
mark_handler(a, q) == check_principal(a, q)
task_outcome_handler(a, q) == check_principal(a, q)
task_memory_events_handler(a, q) == check_principal(a, q)
trace_handler(a, q) == check_principal(a, q)
scope_memory_handler(a, q) == check_scope(a, q) /\ check_principal(a, q)
canonical_projection_handler(a, q) == check_scope(a, q) /\ check_principal(a, q)
scope_core_handler(a, q) == Unbound(a)
mint_api_key_handler(a, q) == Unbound(a)

HandlerAdmits(verb, a, q) ==
    CASE verb = "retain" -> retain_handler(a, q)
      [] verb = "reflect" -> reflect_handler(a, q)
      [] verb = "recall" -> recall_handler(a, q)
      [] verb = "recall_as_of" -> recall_as_of(a, q)
      [] verb = "correct" -> correct_handler(a, q)
      [] verb = "forget" -> forget_handler(a, q)
      [] verb = "erase" -> erase_subject_handler(a, q)
      [] verb = "file_sync" -> file_sync_handler(a, q, FALSE)
      [] verb = "file_sync_forget" -> file_sync_handler(a, q, TRUE)
      [] verb = "mark" -> mark_handler(a, q)
      [] verb = "task_outcome" -> task_outcome_handler(a, q)
      [] verb = "task_memory_events" -> task_memory_events_handler(a, q)
      [] verb = "trace" -> trace_handler(a, q)
      [] verb = "scope_memory" -> scope_memory_handler(a, q)
      [] verb = "canonical_projection" -> canonical_projection_handler(a, q)
      [] verb = "scope_core" -> scope_core_handler(a, q)
      [] verb = "mint" -> mint_api_key_handler(a, q)

Tools == {"tool_recall", "remember", "correct_memory", "invalidate_memory",
          "report_memory_use"}
Resources == {"read_resource"}
Handlers == {"retain", "reflect", "recall", "recall_as_of", "correct", "forget", "erase",
             "file_sync", "file_sync_forget", "mark", "task_outcome", "task_memory_events",
             "trace", "scope_memory", "canonical_projection", "scope_core", "mint"}

ASSUME VerbsAssumption ==
    \A c \in Calls : VerbsOf[c] \subseteq Handlers \cup Tools \cup Resources

\* The one tool that needs a capability.
invalidate_memory(a) == a.forget

Reads == {"recall", "recall_as_of", "trace", "scope_memory", "canonical_projection",
          "scope_core", "tool_recall"} \cup Resources

---------------------------------------------------------------------------
\* One call

Goto(c, rec) ==
    /\ call' = [call EXCEPT ![c] = rec]
    /\ UNCHANGED <<stores, key, edits, session>>

Refuse(c) == Goto(c, Idle)

\* The client has its answer; the slot is free.
Finish(c) == call[c].pc = "served" /\ Goto(c, Idle)

\* REST: the key is read, then the handler's checks run.
Request(c, verb, k, q) ==
    /\ call[c].pc = "idle" /\ verb \notin Tools \cup Resources
    /\ IF Live(k) /\ HandlerAdmits(verb, key[k], q)
       THEN Goto(c, [pc |-> "row", verb |-> verb, k |-> k, ask |-> q, bound |-> key[k],
                     row |-> key[k], late |-> FALSE])
       ELSE Refuse(c)

\* The stdio MCP process starts.
resolve_tenant(k) ==
    /\ session = None /\ Live(k)
    /\ session' = [k |-> k, row |-> key[k]]
    /\ UNCHANGED <<stores, key, edits, call>>

\* A tool call arrives at the stdio process; late records that its key was revoked,
\* or had been deleted with its subject, by then.
ToolCall(c, verb) ==
    /\ call[c].pc = "idle" /\ verb \in Tools /\ session # None
    /\ Goto(c, [pc |-> "live", verb |-> verb, k |-> session.k, bound |-> session.row,
                late |-> ~Live(session.k)])

\* Streamable HTTP: the principal is read on the request itself, and only recall is
\* enabled.
resolve_http_principal(c, verb, k) ==
    /\ call[c].pc = "idle" /\ verb = "tool_recall" /\ Live(k)
    /\ Goto(c, [pc |-> "live", verb |-> verb, k |-> k, bound |-> key[k], late |-> FALSE])

StartupRowIsEnough(b, k) == b.context # None

LivePrincipalHolds(b, k) ==
    /\ Live(k)
    /\ b.context = key[k].context
    /\ key[k].trust <= b.trust
    /\ key[k].context # None

live_principal(c) ==
    LET r == call[c]
    IN /\ r.pc = "live"
       /\ IF LivePrincipalHolds(r.bound, r.k)
          THEN Goto(c, [pc |-> "row", verb |-> r.verb, k |-> r.k, ask |-> r.bound.context,
                        bound |-> r.bound, late |-> r.late,
                        row |-> IF r.k \in DOMAIN key THEN key[r.k] ELSE r.bound])
          ELSE Refuse(c)

\* Resource reads resolve the context the process was bound to at startup.
memory_projection(c, verb) ==
    /\ call[c].pc = "idle" /\ verb \in Resources /\ session # None
    /\ IF session.row.context # None
       THEN Goto(c, [pc |-> "row", verb |-> verb, k |-> session.k, bound |-> session.row,
                     row |-> session.row, ask |-> session.row.context,
                     late |-> ~Live(session.k)])
       ELSE Refuse(c)

\* resolve_memory_context, first statement.
ResolveRow(c) ==
    LET r == call[c]
        hit == PgContext(pg, r.ask)
    IN /\ r.pc = "row"
       /\ IF hit = {} THEN Refuse(c)
          ELSE Goto(c, [pc |-> "sources", verb |-> r.verb, k |-> r.k, ask |-> r.ask,
                        bound |-> r.bound, row |-> r.row, late |-> r.late,
                        ctx |-> PgResolveRow(pg, The(hit))])

clamp_trust(declared, ceiling) == IF declared > ceiling THEN ceiling ELSE declared

\* Second statement; the caller is then trusted no more than its key.
ResolveSources(c) ==
    LET r == call[c]
    IN /\ r.pc = "sources"
       /\ Goto(c, [pc |-> "ready", verb |-> r.verb, k |-> r.k, ask |-> r.ask,
                   bound |-> r.bound, row |-> r.row, late |-> r.late,
                   ctx |-> [r.ctx EXCEPT !.trust = clamp_trust(@, r.row.trust)],
                   sources |-> PgResolveSources(pg, r.ctx)])

SubjectIsLive(s) == \E x \in pg.subject : x.id = s

\* erase_subject: the subject's rows go, its keys among them.
EraseSubject(c) ==
    LET s == call[c].ctx.subject
        left == {k \in DOMAIN key : key[k].context = None \/ key[k].context.subject # s}
    IN /\ pg' = PgErase(pg, s)
       /\ mem' = MemErase(mem, s)
       /\ erased' = erased \cup {s}
       /\ key' = [k \in left |-> key[k]]
       /\ call' = [call EXCEPT ![c].pc = "served"]
       /\ UNCHANGED <<binds, issued, edits, session>>

\* create_api_key inserts a row whose foreign keys must still resolve.
ForeignKeysIgnored(t) == TRUE
ForeignKeysHold(t) == PgContext(pg, t) # {}

create_api_key(c) ==
    LET t == Tuple(call[c].ctx)
    IN \E k \in BoundKeys \ DOMAIN key :
        /\ key' = [x \in DOMAIN key \cup {k} |->
                     IF x = k THEN Row(t, AgentOutput) ELSE key[x]]
        /\ call' = [call EXCEPT ![c].pc = "served"]
        /\ UNCHANGED <<stores, edits, session>>

\* The service.  A mutation locks the subject row first and fails when it is gone.
Serve(c) ==
    LET r == call[c]
    IN /\ r.pc = "ready"
       /\ \/ r.verb \in Reads /\ Goto(c, [r EXCEPT !.pc = "served"])
          \/ r.verb = "invalidate_memory" /\ ~invalidate_memory(r.row) /\ Refuse(c)
          \/ /\ r.verb \notin Reads \cup {"mint"}
             /\ r.verb = "invalidate_memory" => invalidate_memory(r.row)
             /\ \/ ~SubjectIsLive(r.ctx.subject) /\ Refuse(c)
                \/ /\ SubjectIsLive(r.ctx.subject)
                   /\ IF r.verb = "erase" THEN EraseSubject(c)
                      ELSE Goto(c, [r EXCEPT !.pc = "served"])
          \/ /\ r.verb = "mint"
             /\ IF ForeignKeysHold(r.ctx) THEN create_api_key(c) ELSE Refuse(c)

Next ==
    \/ \E client \in Clients, r \in Registrations :
        context_binding_handler(client, r[1], r[2])
    \/ \E k \in BoundKeys : revoke_api_key_handler(k) \/ OperatorEditsKey(k) \/ resolve_tenant(k)
    \/ \E c \in Calls, verb \in UNION {VerbsOf[x] : x \in Calls} :
        /\ verb \in VerbsOf[c]
        /\ \/ \E k \in BoundKeys \cup {ServiceKey} :
                \/ \E q, t \in issued : Request(c, verb, k, [q EXCEPT !.node = t.node])
                \/ resolve_http_principal(c, verb, k)
           \/ ToolCall(c, verb) \/ memory_projection(c, verb)
    \/ \E c \in Calls :
        live_principal(c) \/ ResolveRow(c) \/ ResolveSources(c) \/ Serve(c) \/ Finish(c)

Spec == Init /\ [][Next]_vars

---------------------------------------------------------------------------
\* Properties

\* The in-memory store, which the tests and the dev server run on, and the Postgres
\* store accept the same registrations in every state either can reach, and resolve
\* every tuple a client was ever told to the same context with the same sources.
\* (They are compared whenever no call is under way: a call changes nothing they hold
\* before it is served.)
StoresAgree ==
    (\A c \in Calls : call[c] = Idle) =>
    /\ \A client \in Clients, q \in Identities, policies \in PolicySets :
        PgAccepts(pg, client, q, policies, binds) <=> MemAccepts(mem, client, q, policies)
    /\ \A t \in issued :
        {<<PgResolveRow(pg, b), PgResolveSources(pg, PgResolveRow(pg, b))>> :
            b \in PgContext(pg, t)}
        = {<<MemResolve(mem, b), MemResolveSources(mem, b)>> : b \in MemContext(mem, t)}

\* What a served call was entitled to, whatever changed while it was under way.
\*   - A tool call that reached the MCP process after its key was revoked, or deleted
\*     with its subject, is refused, however long ago the process read the key.
\*   - check_principal compares actor and scope only.  A bound key nevertheless never
\*     serves, or reads a source of, a subject other than its own, because actors and
\*     nodes are registered per subject.
\*   - An operator may raise or lower a key meanwhile.  The call is trusted no more than
\*     its actor, than its key when it was last read, and, over MCP, than its key when
\*     the process started.
ServedCallIsEntitled ==
    \A c \in Calls : LET r == call[c] IN r.pc = "served" =>
        /\ r.verb \in Tools => ~r.late
        /\ r.row.context # None =>
            /\ r.ctx.subject = r.row.context.subject
            /\ \A src \in r.sources : \A a \in pg.node :
                    a.id = src[3] => a.subject = r.row.context.subject
        /\ r.ctx.trust <= r.row.trust
        /\ r.ctx.trust <= r.bound.trust
        /\ \A a \in pg.actor : a.id = r.ctx.actor => r.ctx.trust <= a.trust

\* Erasure is final for every identity derived from the subject: registering the same
\* references again, or minting a key for a context resolved before the erasure,
\* never brings an erased subject's tuples, nodes or keys back.
ErasedNeverReturns ==
    \A s \in erased :
        /\ ~SubjectIsLive(s)
        /\ \A t \in issued : t.subject = s => PgContext(pg, t) = {}
        /\ \A a \in pg.node : a.subject # s
        /\ \A k \in DOMAIN key : key[k].context # None => key[k].context.subject # s
==========================================================================
