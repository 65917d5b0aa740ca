------------------------------ MODULE FileSync ------------------------------
(***************************************************************************)
(* The server half of the file plane: MemoryService::file_sync and the     *)
(* canonical projection it guards.  One memory context (subject, scope,    *)
(* actor) is modelled.  A plan of file operations is prepared against a    *)
(* snapshot read outside any transaction, so that embedding calls never    *)
(* run inside one, and is then applied in one serializable transaction     *)
(* that reads the projection and the whole snapshot again.  The other      *)
(* writers of the context run at read committed.                           *)
(*                                                                         *)
(* Bodies of a unit never change, so the SHA-256 fingerprint of a          *)
(* projection is represented by the set of unit ids in it, and the         *)
(* admission digest by the unit table itself.  The past remainder that a   *)
(* correction leaves behind is not projected and is left out here.         *)
(***************************************************************************)
EXTENDS Integers, Sequences, FiniteSets, SequencesExt

CONSTANTS Keys,        \* fact keys
          Bodies,      \* unit bodies
          NoKey,       \* the key of a unit that has none of Keys
          MaxUnits,    \* bound on rows of memory_unit
          MaxForeign,  \* bound on the writes of others
          Requests,    \* file-sync requests a behaviour may send, numbered
          SeedUnits    \* the rows present initially

VARIABLES units,       \* memory_unit: a sequence, the id of a row is its index
          requests,    \* request -> the state of its handler
          commits,     \* history: committed requests with the edits they carry
          foreign      \* number of writes of others so far

serverVars == <<units, requests, commits, foreign>>

Ids == 1..MaxUnits

(***************************************************************************)
(* A row.  prev is the row it supersedes (0: none), from the rows a        *)
(* composed belief was derived from ({}: not a composition).               *)
(***************************************************************************)
UnitStates == {"active", "candidate", "superseded", "expired", "deleted"}
Unit == [key : Keys \cup {NoKey}, body : Bodies, state : UnitStates,
         prev : 0..MaxUnits, from : SUBSET Ids]

ASSUME SeedsAreUnits ==
  /\ MaxUnits \in Nat /\ NoKey \notin Keys /\ IsFiniteSet(Keys)
  /\ SeedUnits \in Seq(Unit) /\ Len(SeedUnits) <= MaxUnits
  /\ \A i \in DOMAIN SeedUnits :
        SeedUnits[i].state = "active" /\ SeedUnits[i].prev = 0 /\ SeedUnits[i].from = {}
  /\ \A i, j \in DOMAIN SeedUnits :
        SeedUnits[i].key = SeedUnits[j].key => i = j \/ SeedUnits[i].key = NoKey

ASSUME RequestsAreNumbered == Requests \subseteq Nat \ {0}

Semantic(k, b, old) ==
  [key |-> k, body |-> b, state |-> "active", prev |-> old, from |-> {}]
Composed(b, sources) ==
  [key |-> NoKey, body |-> b, state |-> "candidate", prev |-> 0, from |-> sources]

\* canonical_projection_units: open, semantic and active; compositions are
\* candidate beliefs and never shown.
Projection(us) == {i \in DOMAIN us : us[i].state = "active"}

(***************************************************************************)
(* The transitions of the unit table, shared by the preview on a working   *)
(* copy and by the native staging in the transaction.                      *)
(***************************************************************************)
SetState(us, S, st) ==
  [i \in DOMAIN us |-> IF i \in S THEN [us[i] EXCEPT !.state = st] ELSE us[i]]

Dependents(us, S) == {i \in DOMAIN us : us[i].from \cap S # {}}

Corrected(us, i, b) ==
  LET stale == {d \in Dependents(us, {i}) : us[d].state = "candidate"}
  IN  Append(SetState(SetState(us, {i}, "superseded"), stale, "expired"),
             Semantic(us[i].key, b, i))

\* Bidirectional closure of the supersedes edges: the rows with the same first one.
Roots(us) ==
  LET root[j \in DOMAIN us] == IF us[j].prev = 0 THEN j ELSE root[us[j].prev]
  IN  root
Lineage(us, i) == LET root == Roots(us) IN {j \in DOMAIN us : root[j] = root[i]}

Forgotten(us, i) ==
  LET erased == {j \in Lineage(us, i) : us[j].state # "deleted"}
  IN  SetState(us, erased \cup Dependents(us, erased), "deleted")

\* The generation that a direct semantic fact on key k closes, 0 if none.
OpenOn(us, k) ==
  LET open == {i \in Projection(us) : us[i].key = k}
  IN  IF open = {} THEN 0 ELSE CHOOSE i \in open : TRUE

Merges(us, k, b) == \E i \in Projection(us) : us[i].key = k /\ us[i].body = b

Retained(us, k, b, old) ==
  Append(IF old = 0 THEN us ELSE SetState(us, {old}, "superseded"),
         Semantic(k, b, old))

(***************************************************************************)
(* A file operation carries the local edit it came from (0 for a forget).  *)
(* Preparing one fixes, for a retain, the generation that it closes.       *)
(***************************************************************************)
Operation == [op : {"correct", "retain", "forget"}, unit : 0..MaxUnits,
              key : Keys \cup {NoKey}, body : Bodies, edit : Nat]

Staged(us, o) ==
  CASE o.op = "correct" -> Corrected(us, o.unit, o.body)
    [] o.op = "retain"  -> Retained(us, o.key, o.body, o.unit)
    [] o.op = "forget"  -> Forgotten(us, o.unit)

Refused(us, o) ==
  \/ o.op = "correct" /\ o.unit \notin Projection(us)
  \/ o.op = "retain"  /\ Merges(us, o.key, o.body)

PrepareStep(acc, o) ==
  LET p == IF o.op = "retain" THEN [o EXCEPT !.unit = OpenOn(acc.us, o.key)] ELSE o
  IN  IF ~acc.ok \/ Refused(acc.us, o) THEN [acc EXCEPT !.ok = FALSE]
      ELSE [ok |-> TRUE, us |-> Staged(acc.us, p), ops |-> Append(acc.ops, p)]

\* The plan, or the table, after the first n operations.
Prepares(us, ops) ==
  LET acc[n \in 0..Len(ops)] ==
        IF n = 0 THEN [ok |-> TRUE, us |-> us, ops |-> <<>>] ELSE PrepareStep(acc[n - 1], ops[n])
  IN  acc
Stages(us, ops) ==
  LET table[n \in 0..Len(ops)] == IF n = 0 THEN us ELSE Staged(table[n - 1], ops[n])
  IN  table

Prepare(us, ops) == Prepares(us, ops)[Len(ops)]
StageAll(us, ops) == Stages(us, ops)[Len(ops)]

(***************************************************************************)
(* The shape a plan must have: it is not empty, and touches no unit and no *)
(* fact key twice.                                                         *)
(***************************************************************************)
OpKey(us, o) == IF o.op = "retain" THEN o.key ELSE us[o.unit].key

WellFormedPlan(us, ops) ==
  /\ ops # <<>>
  /\ \A i, j \in DOMAIN ops : i # j =>
        IF OpKey(us, ops[i]) = NoKey THEN ops[i].unit # ops[j].unit
        ELSE OpKey(us, ops[i]) # OpKey(us, ops[j])

-----------------------------------------------------------------------------
NoRequest == [phase |-> "none", base |-> {}, ops |-> <<>>, seen |-> <<>>, peers |-> {},
              reply |-> "none"]

ServerInit ==
  /\ units = SeedUnits
  /\ requests = [r \in Requests |-> NoRequest]
  /\ commits = {}
  /\ foreign = 0

\* The handler returns and what it held is gone.
Answer(r, reply) ==
  requests' = [requests EXCEPT ![r].phase = "answered", ![r].reply = reply,
                               ![r].ops = <<>>, ![r].seen = <<>>, ![r].peers = {}]

\* The handler is entered: the plan is validated, and the admission snapshot
\* is read in a transaction of its own.
Admit(r) ==
  /\ requests[r].phase = "sent"
  /\ IF WellFormedPlan(units, requests[r].ops)
     THEN requests' = [requests EXCEPT ![r].phase = "admitted", ![r].seen = units]
     ELSE Answer(r, "invalid")
  /\ UNCHANGED <<units, commits, foreign>>

\* The projection is read in a second one and compared with the base; the
\* operations are prepared on a working copy of the admission snapshot.
PrepareRequest(r) ==
  LET q == requests[r]
      plan == Prepare(q.seen, q.ops)
  IN  /\ q.phase = "admitted"
      /\ IF Projection(units) # q.base THEN Answer(r, "conflict")
         ELSE IF ~plan.ok THEN Answer(r, "invalid")
         ELSE requests' = [requests EXCEPT ![r].phase = "prepared", ![r].ops = plan.ops]
      /\ UNCHANGED <<units, commits, foreign>>

\* What the serializable transaction reads again before it stages anything.
BaseStillHolds(q) ==
  /\ Projection(units) = q.base
  /\ units = q.seen

\* Mutant: the transaction trusts the comparison made before it began.
BeginRequestUnchecked(r) ==
  /\ requests[r].phase = "prepared"
  /\ requests' = [requests EXCEPT ![r].phase = "begun", ![r].seen = units, ![r].peers = commits]
  /\ UNCHANGED <<units, commits, foreign>>

\* The transaction starts: its snapshot is the current table, and everything
\* it reads and stages from here on is read and staged in that snapshot.
BeginRequest(r) ==
  LET q == requests[r]
  IN  /\ q.phase = "prepared"
      /\ IF BaseStillHolds(q)
         THEN requests' = [requests EXCEPT ![r].phase = "begun", ![r].peers = commits]
         ELSE Answer(r, "conflict")
      /\ UNCHANGED <<units, commits, foreign>>

\* What Postgres refuses.  The other writers run at read committed, so only
\* another file sync counts as a serialization conflict; besides that, a row
\* that both transactions wrote, and a second open unit on a key (the exclusion
\* constraint on memory_unit).
Rewritten(q, staged) == {i \in DOMAIN q.seen : staged[i] # q.seen[i]}
Conflicts(q, staged) ==
  \/ q.peers # commits
  \/ \E i \in Rewritten(q, staged) : units[i] # q.seen[i]
  \/ \E i \in DOMAIN staged \ DOMAIN q.seen, j \in Projection(units) \ Rewritten(q, staged) :
        staged[i].key = units[j].key /\ units[j].key # NoKey

\* The claim, the staged rows and the stored response commit together.  A
\* commit whose acknowledgement is lost is answered with a server error
\* although it happened.
CommitRequest(r) ==
  LET q == requests[r]
      staged == StageAll(q.seen, q.ops)
      minted == SubSeq(staged, Len(q.seen) + 1, Len(staged))
      merged == [i \in DOMAIN units |->
                   IF i \in Rewritten(q, staged) THEN staged[i] ELSE units[i]] \o minted
  IN  /\ q.phase = "begun"
      /\ ~Conflicts(q, staged)
      /\ Len(merged) <= MaxUnits
      /\ units' = merged
      /\ commits' = commits \cup
           {[req |-> r, edits |-> {q.ops[i].edit : i \in DOMAIN q.ops} \ {0},
             created |-> DOMAIN merged \ DOMAIN units]}
      /\ \E reply \in {"ok", "server_error"} : Answer(r, reply)
      /\ UNCHANGED foreign

\* The transaction rolls back, on a conflict or on a failure of the backend.
RollbackRequest(r) ==
  /\ requests[r].phase = "begun"
  /\ \E reply \in {"conflict", "server_error"} : Answer(r, reply)
  /\ UNCHANGED <<units, commits, foreign>>

(***************************************************************************)
(* Other writers of the same context, through the ordinary API: a direct   *)
(* fact, a belief that a compile composes from two facts, a forget.        *)
(***************************************************************************)
ForeignWrite ==
  /\ foreign < MaxForeign
  /\ foreign' = foreign + 1
  /\ UNCHANGED <<requests, commits>>

ForeignRetain(k, b) ==
  /\ ForeignWrite
  /\ Len(units) < MaxUnits
  /\ ~Merges(units, k, b)
  /\ units' = Retained(units, k, b, OpenOn(units, k))

ForeignCompose(i, j, b) ==
  /\ ForeignWrite
  /\ Len(units) < MaxUnits
  /\ {i, j} \subseteq Projection(units) /\ i < j
  /\ \A d \in Dependents(units, {i}) : units[d].state # "candidate"
  /\ units' = Append(units, Composed(b, {i, j}))

ForeignForget(i) ==
  /\ ForeignWrite
  /\ i \in Projection(units)
  /\ units' = Forgotten(units, i)
=============================================================================
