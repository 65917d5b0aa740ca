------------------------- MODULE ContextBindings -------------------------
(***************************************************************************)
(* How a tenant's clients register memory contexts, in both stores.        *)
(*                                                                         *)
(* A request names its subject, actor, scope and agent node by external    *)
(* references and lists the access policies that let it read other nodes   *)
(* of the same subject.  The Postgres store keeps one row per subject,     *)
(* actor, scope, node, binding and policy and answers in one transaction   *)
(* under a tenant-wide lock; the in-memory store keeps only the requests   *)
(* and their responses and decides every question by searching them.  Each *)
(* store is an immutable value here, and an operation a function of it.    *)
(* Which of several errors a refused request gets is abstracted.           *)
(***************************************************************************)
EXTENDS Naturals, FiniteSets, Sequences

CONSTANT None       \* an absent parent reference

MemoryKinds == {"episodic", "semantic", "procedural"}   \* of MemoryKind::ALL

Inheritable == {"episodic", "semantic", "belief"}

agent_level_allows_memory_kind(level, kind) ==
    level = 0 \/ kind \in {"episodic", "procedural", "resource"}

\* The rank of the trust an actor of this kind is given (trust_rank of it).
actor_kind_trust(kind) ==
    CASE kind = "user" -> 6 [] kind = "system" -> 7 [] kind = "tool" -> 4
      [] kind = "web" -> 3 [] OTHER -> 1

The(S) == CHOOSE x \in S : TRUE

\* No two policies of a request name the same source and kind.
Distinct(policies) ==
    \A p, q \in policies :
        (p.scope = q.scope /\ p.node = q.node /\ p.kind = q.kind) => p = q

---------------------------------------------------------------------------
\* The Postgres store

PgEmpty == [subject |-> {}, actor |-> {}, scope |-> {}, node |-> {},
            binding |-> {}, policy |-> {}]

\* Rows of table t of subject s with external reference r.
PgRows(t, s, r) == {x \in t : x.subject = s /\ x.ref = r}

\* SELECT, then INSERT when there is no row.
PgUse(rows, new) == IF rows = {} THEN new ELSE The(rows)

PgSubject(pg, q, n) ==
    PgUse({s \in pg.subject : s.ref = q.subject},
          [ref |-> q.subject, kind |-> q.subjectKind, id |-> <<"subject", n>>])

PgActor(pg, s, q, n) ==
    PgUse(PgRows(pg.actor, s.id, q.actor),
          [subject |-> s.id, ref |-> q.actor, kind |-> q.actorKind,
           trust |-> actor_kind_trust(q.actorKind), id |-> <<"actor", n>>])

PgParentScope(pg, s, q) == PgRows(pg.scope, s.id, q.parentScope)

PgScope(pg, s, q, n) ==
    LET id == <<"scope", n>>
        up == IF q.parentScope = None THEN <<>> ELSE The(PgParentScope(pg, s, q)).path
    IN PgUse(PgRows(pg.scope, s.id, q.scope),
             [subject |-> s.id, ref |-> q.scope, kind |-> q.scopeKind,
              parent |-> IF up = <<>> THEN None ELSE up[Len(up)],
              path |-> Append(up, id), id |-> id])

PgParentNode(pg, s, q) == PgRows(pg.node, s.id, q.parentNode)

PgNode(pg, s, scope, q, n) ==
    LET up == PgParentNode(pg, s, q)
    IN PgUse(PgRows(pg.node, s.id, q.node),
             [subject |-> s.id, scope |-> scope.id, ref |-> q.node,
              parent |-> IF q.parentNode = None THEN None ELSE The(up).id,
              level |-> IF q.parentNode = None THEN 0 ELSE The(up).level + 1,
              id |-> <<"node", n>>])

\* Rows that exist already are as the request says they are.
PgConsistent(pg, s, q) ==
    /\ s.kind = q.subjectKind
    /\ \A a \in PgRows(pg.actor, s.id, q.actor) : a.kind = q.actorKind
    /\ q.parentScope = None \/ PgParentScope(pg, s, q) # {}
    /\ \A c \in PgRows(pg.scope, s.id, q.scope) :
        /\ c.kind = q.scopeKind
        /\ c.parent = IF q.parentScope = None THEN None
                      ELSE The(PgParentScope(pg, s, q)).id
    /\ q.parentNode = None \/ PgParentNode(pg, s, q) # {}
    /\ PgRows(pg.node, s.id, q.node) = {}   \* else it differs, or is bound already

\* The source rows a policy names, once the grantee's own rows are in.
PgSources(pg, grantee, p) ==
    {a \in PgRows(pg.node, grantee.subject, p.node) :
        \E c \in PgRows(pg.scope, grantee.subject, p.scope) : a.scope = c.id}

PgStrictAncestor(pg, above, below) ==
    LET path == (The({c \in pg.scope : c.id = below})).path
    IN above # below /\ \E i \in 1 .. Len(path) : path[i] = above

PgPolicyAllowed(pg, grantee, p) ==
    /\ agent_level_allows_memory_kind(grantee.level, p.kind)
    /\ \E a \in PgSources(pg, grantee, p) :
        IF p.mode = "inherit"
        THEN /\ grantee.level = 0
             /\ p.kind \in Inheritable
             /\ PgStrictAncestor(pg, a.scope, grantee.scope)
        ELSE a.id # grantee.id

PgPoliciesAllowed(pg, grantee, policies) ==
    Distinct(policies) /\ \A p \in policies : PgPolicyAllowed(pg, grantee, p)

replace_context_policies(pg, grantee, policies) ==
    [pg EXCEPT !.policy =
        {x \in @ : x.grantee # grantee.id} \cup
        {[grantee |-> grantee.id, kind |-> p.kind, mode |-> p.mode,
          scope |-> The(PgSources(pg, grantee, p)).scope,
          source |-> The(PgSources(pg, grantee, p)).id] : p \in policies}]

PgBound(pg, client) == {b \in pg.binding : b.client = client}

\* The rows a first registration inserts or finds.
PgInserted(pg, q, n) ==
    LET s == PgSubject(pg, q, n)
        c == PgScope(pg, s, q, n)
    IN [pg EXCEPT !.subject = @ \cup {s}, !.actor = @ \cup {PgActor(pg, s, q, n)},
                  !.scope = @ \cup {c}, !.node = @ \cup {PgNode(pg, s, c, q, n)}]

PgNewNode(pg, q, n) ==
    LET s == PgSubject(pg, q, n) IN PgNode(pg, s, PgScope(pg, s, q, n), q, n)

PgNodeOf(pg, b) == The({a \in pg.node : a.id = b.node})

PgAccepts(pg, client, q, policies, n) ==
    IF PgBound(pg, client) # {}
    THEN LET b == The(PgBound(pg, client))
         IN b.identity = q
            /\ (b.revision # policies => PgPoliciesAllowed(pg, PgNodeOf(pg, b), policies))
    ELSE /\ PgConsistent(pg, PgSubject(pg, q, n), q)
         /\ PgPoliciesAllowed(PgInserted(pg, q, n), PgNewNode(pg, q, n), policies)

PgRebind(pg, client, policies) ==
    LET b == The(PgBound(pg, client))
    IN IF b.revision = policies THEN pg
       ELSE [replace_context_policies(pg, PgNodeOf(pg, b), policies)
               EXCEPT !.binding = (@ \ {b}) \cup {[b EXCEPT !.revision = policies]}]

PgRegister(pg, client, q, policies, n) ==
    LET s == PgSubject(pg, q, n)
        node == PgNewNode(pg, q, n)
    IN [replace_context_policies(PgInserted(pg, q, n), node, policies)
          EXCEPT !.binding = @ \cup
            {[client |-> client, identity |-> q, revision |-> policies, subject |-> s.id,
              actor |-> PgActor(pg, s, q, n).id, scope |-> node.scope, node |-> node.id]}]

PgBind(pg, client, q, policies, n) ==
    IF PgBound(pg, client) # {} THEN PgRebind(pg, client, policies)
    ELSE PgRegister(pg, client, q, policies, n)

\* Deleting the subject row cascades to every row that references it.
PgErase(pg, s) ==
    [subject |-> {x \in pg.subject : x.id # s},
     actor   |-> {x \in pg.actor : x.subject # s},
     scope   |-> {x \in pg.scope : x.subject # s},
     node    |-> {x \in pg.node : x.subject # s},
     binding |-> {x \in pg.binding : x.subject # s},
     policy  |-> {x \in pg.policy :
                    \E a \in pg.node : a.id = x.grantee /\ a.subject # s}]

\* The binding row of an exact (subject, actor, scope, node) tuple.
PgContext(pg, t) ==
    {b \in pg.binding : /\ b.subject = t.subject /\ b.actor = t.actor
                        /\ b.scope = t.scope /\ b.node = t.node}

\* A context reads its own memories of every kind its level allows.
Own(level, scope, node) ==
    {<<k, scope, node>> : k \in {x \in MemoryKinds : agent_level_allows_memory_kind(level, x)}}

\* First statement of resolve_memory_context: everything but the policies.
PgResolveRow(pg, b) ==
    [subject |-> b.subject, actor |-> b.actor, scope |-> b.scope, node |-> b.node,
     level |-> PgNodeOf(pg, b).level, revision |-> b.revision,
     trust |-> (The({a \in pg.actor : a.id = b.actor})).trust]

\* Second statement: the sources of every kind.
PgResolveSources(pg, x) ==
    Own(x.level, x.scope, x.node) \cup
    {<<p.kind, p.scope, p.source>> : p \in {y \in pg.policy : y.grantee = x.node}}

---------------------------------------------------------------------------
\* The in-memory store: a function from client references to requests and responses

MemEmpty == <<>>

MemRows(mem) == {mem[c] : c \in DOMAIN mem}

MemOf(mem, s) == {x \in MemRows(mem) : x.identity.subject = s}

in_memory_binding_by_external_pair(mem, s, scope, node) ==
    {x \in MemOf(mem, s) : x.identity.scope = scope /\ x.identity.node = node}

OnlyParentIsAncestor(mem, s, above, parent) == above = parent

in_memory_scope_is_strict_ancestor(mem, s, above, parent) ==
    LET refs == {x.identity.scope : x \in MemOf(mem, s)} \cup {parent, None}
        next(r) == {x.identity.parentScope : x \in {y \in MemOf(mem, s) : y.identity.scope = r}}
        meets[r \in refs] == r # None /\ (r = above \/ \E p \in next(r) : meets[p])
    IN meets[parent]

MemPolicyAllowed(mem, q, level, p) ==
    /\ agent_level_allows_memory_kind(level, p.kind)
    /\ in_memory_binding_by_external_pair(mem, q.subject, p.scope, p.node) # {}
    /\ IF p.mode = "inherit"
       THEN /\ level = 0
            /\ p.kind \in Inheritable
            /\ in_memory_scope_is_strict_ancestor(mem, q.subject, p.scope, q.parentScope)
       ELSE ~(p.scope = q.scope /\ p.node = q.node)

validate_in_memory_access_policies(mem, q, level, policies) ==
    Distinct(policies) /\ \A p \in policies : MemPolicyAllowed(mem, q, level, p)

\* No registered context contradicts the request.
MemConsistent(mem, q) ==
    /\ \A x \in MemOf(mem, q.subject) :
        /\ x.identity.node # q.node
        /\ x.identity.subjectKind = q.subjectKind
        /\ x.identity.actor = q.actor => x.identity.actorKind = q.actorKind
        /\ x.identity.scope = q.scope =>
            x.identity.scopeKind = q.scopeKind /\ x.identity.parentScope = q.parentScope
    /\ q.parentNode = None
        \/ \E x \in MemOf(mem, q.subject) : x.identity.node = q.parentNode
    /\ q.parentScope = None
        \/ \E x \in MemOf(mem, q.subject) : x.identity.scope = q.parentScope

MemLevel(mem, q) ==
    IF q.parentNode = None THEN 0
    ELSE (The({x \in MemOf(mem, q.subject) : x.identity.node = q.parentNode})).level + 1

MemAccepts(mem, client, q, policies) ==
    IF client \in DOMAIN mem
    THEN /\ mem[client].identity = q
         /\ mem[client].revision = policies
            \/ validate_in_memory_access_policies(mem, q, mem[client].level, policies)
    ELSE /\ MemConsistent(mem, q)
         /\ validate_in_memory_access_policies(mem, q, MemLevel(mem, q), policies)

\* The id the other contexts of the subject gave this reference, or a new one.
MemId(rows, field, new) == IF rows = {} THEN new ELSE (The(rows))[field]

MemBind(mem, client, q, policies, n) ==
    LET same == MemOf(mem, q.subject)
        row == IF client \in DOMAIN mem THEN [mem[client] EXCEPT !.revision = policies]
               ELSE [identity |-> q, revision |-> policies, level |-> MemLevel(mem, q),
                     subject |-> MemId(same, "subject", <<"subject", n>>),
                     actor |-> MemId({x \in same : x.identity.actor = q.actor},
                                     "actor", <<"actor", n>>),
                     scope |-> MemId({x \in same : x.identity.scope = q.scope},
                                     "scope", <<"scope", n>>),
                     node |-> <<"node", n>>]
    IN [c \in DOMAIN mem \cup {client} |-> IF c = client THEN row ELSE mem[c]]

MemErase(mem, s) ==
    LET left == {c \in DOMAIN mem : mem[c].subject # s} IN [c \in left |-> mem[c]]

MemContext(mem, t) ==
    {b \in MemRows(mem) : /\ b.subject = t.subject /\ b.actor = t.actor
                          /\ b.scope = t.scope /\ b.node = t.node}

MemResolve(mem, b) ==
    [subject |-> b.subject, actor |-> b.actor, scope |-> b.scope, node |-> b.node,
     level |-> b.level, revision |-> b.revision,
     trust |-> actor_kind_trust(b.identity.actorKind)]

MemResolveSources(mem, b) ==
    Own(b.level, b.scope, b.node) \cup
    {LET x == The({y \in MemRows(mem) : /\ y.subject = b.subject
                                        /\ y.identity.scope = p.scope
                                        /\ y.identity.node = p.node})
     IN <<p.kind, x.scope, x.node>> : p \in b.revision}
==========================================================================
