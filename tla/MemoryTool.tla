----------------------------- MODULE MemoryTool -----------------------------
(***************************************************************************)
(* The MCP memory tool: a file system of memory topics on top of           *)
(* file_sync.  A command reads the canonical projection, plans file        *)
(* operations from it and sends them with the fingerprint of what it read; *)
(* the key of the mutation ledger is made of that fingerprint and of the   *)
(* plan.  Calls run concurrently, FileSync serves them.  A second reader   *)
(* pages through the list of resources meanwhile.                          *)
(*                                                                         *)
(* A topic is a unit whose key is its path; a unit without such a key is   *)
(* shown under its id.  The observation time is part of the request hash   *)
(* and differs between calls, so a key found in the ledger never replays.  *)
(***************************************************************************)
EXTENDS FileSync, MemoryText

CONSTANTS Commands,    \* the commands a call may carry
          PageLimit,   \* resources per page
          MaxOpen,     \* bound on the calls in progress at once
          Open, NoCommand

VARIABLES calls,       \* request -> command and reply of the tool
          sent,        \* request -> the plan and the unit table it was made from
          lister       \* a client paging through list_resources

toolVars == <<calls, sent, lister>>
vars == <<serverVars, toolVars>>

NoLister == [cursor |-> <<>>, of |-> {}, got |-> {}, done |-> FALSE]

topic_path(us, i) == IF us[i].key = NoKey THEN <<ToString(i)>> ELSE us[i].key

Topics(us) == {topic_path(us, i) : i \in Projection(us)}

topic_map(us) ==
  [p \in Topics(us) |-> CHOOSE i \in Projection(us) : topic_path(us, i) = p]

Files(us) == [p \in Topics(us) |-> us[topic_map(us)[p]].body]

\* snapshot: refused when two paths collide or one is reserved.
ValidSnapshot(us) ==
  /\ Cardinality(Topics(us)) = Cardinality(Projection(us))
  /\ ~CollidingSnapshot(Topics(us))

(***************************************************************************)
(* The plan of a command, or the reason why it is refused.                 *)
(***************************************************************************)
No(code) == [code |-> code, ops |-> <<>>]
Do(ops)  == [code |-> "ok", ops |-> ops]

correct(us, i, b) == [op |-> "correct", unit |-> i, key |-> NoKey, body |-> b, edit |-> 0]
forget(us, i) == [op |-> "forget", unit |-> i, key |-> NoKey, body |-> us[i].body, edit |-> 0]
retain(p, b)  == [op |-> "retain", unit |-> 0, key |-> p, body |-> b, edit |-> 0]

CreatePlan(us, c) ==
  CASE writable_memory_path(c.path) # "ok" -> No(writable_memory_path(c.path))
    [] ensure_topic_body(<<c.text>>) # "ok" -> No(ensure_topic_body(<<c.text>>))
    [] path_conflicts(Topics(us), c.path) -> No("already_exists")
    [] OTHER -> Do(<<retain(c.path, <<c.text>>)>>)

EditPlan(us, p, edit) ==
  CASE p \notin Topics(us) -> No("not_found")
    [] edit.code # "ok"    -> No(edit.code)
    [] ensure_topic_body(edit.body) # "ok" -> No(ensure_topic_body(edit.body))
    [] OTHER -> Do(<<correct(us, topic_map(us)[p], edit.body)>>)

BodyAt(us, p) == IF p \in Topics(us) THEN Files(us)[p] ELSE Empty

StrReplacePlan(us, c) == EditPlan(us, c.path, replace_once(BodyAt(us, c.path), c.old, c.text))
InsertPlan(us, c) == EditPlan(us, c.path, insert_after_line(BodyAt(us, c.path), c.at, c.text))

Sources(us, p) == InByteOrder(Selected(Topics(us), p)) \o
                  SetToSeq(Selected(Topics(us), p) \ {PathOrder[i] : i \in DOMAIN PathOrder})

DeletePlan(us, c) ==
  LET from == Sources(us, c.path)
  IN  CASE c.path = Root -> No("root_protected")
        [] from = <<>>   -> No("not_found")
        [] OTHER -> Do([n \in DOMAIN from |-> forget(us, topic_map(us)[from[n]])])

\* Mutant: the topics are written to their new paths and stay at the old ones.
CopyPlan(us, c) ==
  LET from == Sources(us, c.path)
  IN  CASE c.path = Root -> No("root_protected")
        [] writable_memory_path(c.to) # "ok" -> No(writable_memory_path(c.to))
        [] Below(c.path, c.to) -> No("invalid_path")
        [] path_conflicts(Topics(us), c.to) -> No("already_exists")
        [] from = <<>> -> No("not_found")
        [] OTHER -> Do([n \in DOMAIN from |-> retain(Moved(from[n], c.path, c.to), Files(us)[from[n]])])

RenamePlan(us, c) ==
  LET from == Sources(us, c.path)
      to(n) == Moved(from[n], c.path, c.to)
  IN  CASE c.path = Root -> No("root_protected")
        [] writable_memory_path(c.to) # "ok" -> No(writable_memory_path(c.to))
        [] Below(c.path, c.to) -> No("invalid_path")
        [] path_conflicts(Topics(us), c.to) -> No("already_exists")
        [] from = <<>> -> No("not_found")
        [] \E n \in DOMAIN from : writable_memory_path(to(n)) # "ok" -> No("invalid_path")
        [] OTHER -> Do(FlattenSeq([n \in DOMAIN from |->
              <<forget(us, topic_map(us)[from[n]]), retain(to(n), Files(us)[from[n]])>>]))

Plan(us, c) ==
  CASE c.verb = "create"      -> CreatePlan(us, c)
    [] c.verb = "str_replace" -> StrReplacePlan(us, c)
    [] c.verb = "insert"      -> InsertPlan(us, c)
    [] c.verb = "delete"      -> DeletePlan(us, c)
    [] c.verb = "rename"      -> RenamePlan(us, c)

-----------------------------------------------------------------------------
Init ==
  /\ ServerInit
  /\ calls = [r \in Requests |-> [cmd |-> NoCommand, reply |-> Open]]
  /\ sent = [r \in Requests |-> [plan |-> <<>>, seen |-> <<>>]]
  /\ lister = NoLister

\* handle: one read of the projection, then the plan and its request.
handle(r, c) ==
  LET plan == Plan(units, c)
      code == IF ValidSnapshot(units) THEN plan.code ELSE "invalid_projection"
  IN  /\ calls[r].cmd = NoCommand
      /\ \A q \in Requests : q < r => calls[q].cmd # NoCommand
      /\ Cardinality({q \in Requests : requests[q].phase \notin {"none", "answered"}}) < MaxOpen
      /\ calls' = [calls EXCEPT ![r] = [cmd |-> c, reply |-> IF code = "ok" THEN Open ELSE code]]
      /\ IF code = "ok"
         THEN /\ requests' = [requests EXCEPT ![r].phase = "sent", ![r].base = Projection(units),
                                              ![r].ops = plan.ops]
              /\ sent' = [sent EXCEPT ![r] = [plan |-> plan.ops, seen |-> units]]
         ELSE UNCHANGED <<requests, sent>>
      /\ UNCHANGED <<units, commits, foreign, lister>>

\* Mutant: the key leaves out the fingerprint of the projection.
KeyOfPlan(r) == <<sent[r].plan>>
\* The ledger key of a call, next to its context.
Key(r) == <<requests[r].base, sent[r].plan>>

KeyIsUsed(r) == \E c \in commits : Key(c.req) = Key(r)

ToolReply(reply) ==
  CASE reply = "ok"       -> "ok"
    [] reply = "conflict" -> "sync_conflict"
    [] OTHER              -> "mutation_failed"

Answered(r) ==
  calls' = IF requests'[r].phase = "answered"
           THEN [calls EXCEPT ![r].reply = ToolReply(requests'[r].reply)] ELSE calls

\* lookup_mutation_replay and, again, stage_mutation_claim: the key is known
\* with another request hash.
RefuseUsedKey(r) ==
  /\ requests[r].phase \in {"sent", "prepared"}
  /\ KeyIsUsed(r)
  /\ Answer(r, "conflict")
  /\ UNCHANGED <<units, commits, foreign>>

\* apply: the steps of file_sync, and its answer in the tool's words.
apply(r) ==
  /\ \/ RefuseUsedKey(r)
     \/ requests[r].phase = "sent" /\ ~KeyIsUsed(r) /\ Admit(r)
     \/ PrepareRequest(r)
     \/ requests[r].phase = "prepared" /\ ~KeyIsUsed(r) /\ BeginRequest(r)
     \/ CommitRequest(r)
     \/ RollbackRequest(r)
  /\ Answered(r)
  /\ sent' = IF requests'[r].phase = "answered" THEN [sent EXCEPT ![r].seen = <<>>] ELSE sent
  /\ UNCHANGED lister

\* list_resources: a page of the current snapshot; a stale cursor starts anew.
ItemsInOrder == SetToSortSeq(Projection(units), <)

list_resources ==
  LET p == resource_page(ItemsInOrder, Projection(units), lister.cursor, PageLimit)
  IN  /\ ~lister.done
      /\ ValidSnapshot(units)
      /\ lister' = IF p.code # "ok" THEN NoLister
                   ELSE [cursor |-> p.next, done |-> p.next = <<>>,
                         of |-> IF lister.cursor = <<>> THEN Projection(units) ELSE lister.of,
                         got |-> lister.got \cup {p.page[i] : i \in DOMAIN p.page}]
      /\ UNCHANGED <<serverVars, calls, sent>>

OthersWrite ==
  /\ \/ \E k \in Keys, b \in Bodies : ForeignRetain(k, b)
     \/ \E i \in DOMAIN units : ForeignForget(i)
     \/ \E i, j \in DOMAIN units, b \in Bodies : ForeignCompose(i, j, b)
  /\ UNCHANGED toolVars

Next ==
  \/ \E r \in Requests, c \in Commands : handle(r, c)
  \/ \E r \in Requests : apply(r)
  \/ list_resources
  \/ OthersWrite

Spec == Init /\ [][Next]_vars

-----------------------------------------------------------------------------
(***************************************************************************)
(* Every call of the tool takes effect at one instant on the tree of that  *)
(* instant or not at all, whatever happened between the snapshot it was    *)
(* planned from and the transaction that applies it; what it may overlook  *)
(* is only a topic that another writer stored meanwhile, which it keeps.   *)
(***************************************************************************)
ByTool == DOMAIN SeedUnits \cup UNION {c.created : c \in commits}

StoredSince(r) ==
  IF calls[r].cmd = NoCommand \/ calls[r].reply # Open THEN {}
  ELSE {topic_path(units, i) : i \in {j \in Projection(units) \ ByTool : j > Len(sent[r].seen)}}

FileTree == INSTANCE MemoryFiles WITH
              files <- Files(units), others <- foreign, Calls <- Requests,
              late <- [r \in Requests |-> StoredSince(r)]

ImplementsFiles == FileTree!Tree

(***************************************************************************)
(* "memory changed; retry the operation" has a cause: the unit table is no *)
(* longer the one the call was planned from, Postgres refused the          *)
(* transaction, or an earlier call committed the same plan on the same     *)
(* projection.                                                             *)
(***************************************************************************)
ConflictHasCause ==
  [][\A r \in Requests :
       calls'[r].reply = "sync_conflict" /\ calls[r].reply # "sync_conflict" =>
         \/ units # sent[r].seen
         \/ requests[r].phase = "begun"
         \/ \E c \in commits : /\ requests[c.req].base = requests[r].base
                               /\ sent[c.req].plan = sent[r].plan]_vars

(***************************************************************************)
(* What a client lists is coherent.  Two topics share a path, or one lies  *)
(* inside the other, only if another writer of the context stored one of   *)
(* them: two calls of the tool never produce such a pair, however their    *)
(* steps interleave.  And who has paged to the end has seen exactly the    *)
(* topics of one projection: a page of a changed one is refused, and the   *)
(* client starts again.                                                    *)
(***************************************************************************)
ListingsAreCoherent ==
  /\ \A i, j \in Projection(units) :
       i < j /\ Clashes(topic_path(units, i), topic_path(units, j)) => ~({i, j} \subseteq ByTool)
  /\ lister.done => lister.got = lister.of
=============================================================================
