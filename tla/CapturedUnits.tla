--------------------------- MODULE CapturedUnits ---------------------------
(***************************************************************************)
(* The memory units of one captured identity: one fact key and kind of one *)
(* scope.  Capture episodes of several channels (mirror, summary) are      *)
(* compiled into units, the cross-check promotes, demotes or quarantines   *)
(* them, and users correct, invalidate, forget and review them.            *)
(*                                                                         *)
(* A compilation reads the open units in one transaction and writes in     *)
(* another one, and so does a cross-check.  Nothing holds a lock between   *)
(* the two, so the users' requests and other cross-checks come between.    *)
(*                                                                         *)
(* Valid time is reduced to what admission looks at: a unit covers the     *)
(* present or is a past remainder left by a correction.                    *)
(***************************************************************************)
EXTENDS Integers, FiniteSets

CONSTANTS
    Episodes,       \* capture episodes, each reflected by one job
    FamilyOf,       \* the capture channel of an episode
    BodyOf,         \* its normalised body
    Marks,          \* mark requests
    Corrections,    \* bodies a user may correct a unit to
    MaxUnits,       \* bound: rows of memory_unit
    MaxHalvings     \* bound: how often a confidence is cut

ASSUME EpisodesAssumption == Episodes \cap Marks = {} /\ "none" \notin Episodes
ASSUME BodiesAssumption   == \A e \in Episodes : BodyOf[e] # "" /\ FamilyOf[e] # "none"
ASSUME BoundAssumption    == MaxUnits \in Nat /\ MaxHalvings \in Nat

VARIABLES
    units,      \* the rows of memory_unit
    edges,      \* supersedes edges, <<successor, predecessor>>
    forgotten,  \* episodes with a forgotten_source tombstone
    events,     \* review events, <<unit, outcome>>
    pc,         \* where a job or a mark request stands
    write,      \* the CompiledWrite of a job
    verdict     \* the CaptureTransitions of a job or mark

vars == <<units, edges, forgotten, events, pc, write, verdict>>

Ids       == 1..MaxUnits
Processes == Episodes \cup Marks
Families  == {FamilyOf[e] : e \in Episodes}
Outcomes  == {"success", "failure", "corrected"}
Zero      == MaxHalvings + 1        \* a confidence of 0.0; others count the cuts

Unit == [state: {"absent", "candidate", "active", "quarantined", "superseded", "invalidated",
                 "deleted"},
         open: BOOLEAN, past: BOOLEAN,
         body: {BodyOf[e] : e \in Episodes} \cup Corrections \cup {""},
         source: Episodes \cup {"none"}, family: Families \cup {"none"},
         witnesses: SUBSET {"agreement", "outcome"}, confidence: 0..Zero]

Write == [kind: {"none", "merge", "reinforce", "supersede", "mint"}, id: {0} \cup Ids,
          state: {"candidate", "active"}]

TypeOK ==
    /\ units \in [Ids -> Unit]
    /\ edges \subseteq Ids \X Ids
    /\ forgotten \subseteq Episodes
    /\ events \subseteq Ids \X Outcomes
    /\ pc \in [Processes -> {"start", "write", "check", "apply", "done"}]
    /\ write \in [Episodes -> Write]
    /\ \A p \in Processes : DOMAIN verdict[p] \subseteq Ids
                            /\ \A i \in DOMAIN verdict[p] : verdict[p][i] \in Unit

Absent == [state |-> "absent", open |-> FALSE, past |-> FALSE, body |-> "", source |-> "none",
           family |-> "none", witnesses |-> {}, confidence |-> 0]

NoWrite == [kind |-> "none", id |-> 0, state |-> "candidate"]

Init ==
    /\ units = [i \in Ids |-> Absent]
    /\ edges = {} /\ forgotten = {} /\ events = {}
    /\ pc = [p \in Processes |-> "start"]
    /\ write = [e \in Episodes |-> NoWrite]
    /\ verdict = [p \in Processes |-> << >>]

-----------------------------------------------------------------------------
Present(i) == units[i].state # "absent"
Fresh(n)   == {i \in Ids : ~Present(i) /\ \E j \in 1..n : i = j + Cardinality({k \in Ids : Present(k)})}
Room(n)    == Cardinality(Fresh(n)) = n
FirstFresh == CHOOSE i \in Fresh(1) : TRUE

\* A unit admission and recall of the present look at.
Live(u) == u.open /\ ~u.past /\ u.state \in {"candidate", "active"}

-----------------------------------------------------------------------------
(***************************************************************************)
(* Compilation of a capture episode: the snapshot, admission of its one    *)
(* candidate against it, and the commit.                                   *)
(***************************************************************************)

\* admit_same_channel_capture: the incumbents of the candidate's own channel.
Incumbents(e) == {i \in Ids : Live(units[i]) /\ units[i].family = FamilyOf[e]}

\* The generic duplicate: whatever is left of the identity with the same body, unless
\* it is a capture of another channel.
Duplicated(e) ==
    \E i \in Ids : LET u == units[i] IN
        /\ u.open /\ ~u.past /\ u.body = BodyOf[e]
        /\ u.family \in {FamilyOf[e], "none"}
        /\ u.state \notin {"absent", "deleted", "invalidated", "superseded"}

Admission(e, i) ==
    [kind  |-> IF units[i].body # BodyOf[e] THEN "supersede"
               ELSE IF units[i].source # e THEN "reinforce" ELSE "merge",
     id    |-> i,
     state |-> units[i].state]

\* The jobs of a lane run one after the other.  A worker that lost its lease cannot
\* commit any more but may still be at its cross-check.
LaneIsFree(e) == \A f \in Episodes \ {e} : pc[f] # "write"

\* compile_job up to the network call that embeds the new units.
Prepare(e) ==
    /\ pc[e] = "start"
    /\ e \notin forgotten
    /\ LaneIsFree(e)
    /\ \/ \E i \in Incumbents(e) : write' = [write EXCEPT ![e] = Admission(e, i)]
       \/ /\ Incumbents(e) = {}
          /\ write' = [write EXCEPT ![e] =
                         [NoWrite EXCEPT !.kind = IF Duplicated(e) THEN "merge" ELSE "mint"]]
    /\ pc' = [pc EXCEPT ![e] = "write"]
    /\ UNCHANGED <<units, edges, forgotten, events, verdict>>

\* The episode was forgotten before the compilation: nothing to do.
NothingToCompile(e) ==
    /\ pc[e] = "start"
    /\ e \in forgotten
    /\ pc' = [pc EXCEPT ![e] = "done"]
    /\ UNCHANGED <<units, edges, forgotten, events, write, verdict>>

Closed(u, s) == [u EXCEPT !.state = s, !.open = FALSE]

\* stage_compiled_units: the updates of the plan, by id alone.
Updated(w) ==
    [i \in Ids |-> IF i # w.id THEN units[i]
                   ELSE CASE w.kind = "supersede" -> Closed(units[i], "superseded")
                          [] w.kind = "reinforce" -> [units[i] EXCEPT !.state = w.state, !.open = TRUE]
                          [] OTHER -> units[i]]

Mints(w) == w.kind \in {"supersede", "mint"}

UnblockedByTombstone(w) == FALSE    \* mutant: the check is missing
\* No-resurrection: an open tombstone of the identity blocks new units.
BlockedByTombstone(w) ==
    Mints(w) /\ \E i \in Ids : units[i].state = "invalidated" /\ units[i].open

\* An edge would point from a unit that was not admitted because its source is forgotten.
DanglingEdge(e, w) == w.kind = "supersede" /\ e \in forgotten

\* memphant_memory_unit_subject_valid_excl, which exempts rows with a capture marker.
Excluded(U) ==
    \E i, j \in Ids : i # j /\ \A k \in {i, j} : U[k].open /\ ~U[k].past /\ U[k].family = "none"

Conflict(e) == \/ BlockedByTombstone(write[e]) \/ DanglingEdge(e, write[e])
               \/ Excluded(Updated(write[e]))

Minted(e) == [state |-> "candidate", open |-> TRUE, past |-> FALSE, body |-> BodyOf[e],
              source |-> e, family |-> FamilyOf[e], witnesses |-> {}, confidence |-> 0]

Commit(e) ==
    /\ pc[e] = "write"
    /\ ~Conflict(e)
    /\ LET w == write[e] IN
       IF Mints(w) /\ e \notin forgotten
         THEN /\ Room(1)
              /\ units' = [Updated(w) EXCEPT ![FirstFresh] = Minted(e)]
              /\ edges' = IF w.kind = "supersede" THEN edges \cup {<<FirstFresh, w.id>>} ELSE edges
         ELSE units' = Updated(w) /\ UNCHANGED edges
    /\ pc' = [pc EXCEPT ![e] = "check"]
    /\ write' = [write EXCEPT ![e] = NoWrite]
    /\ UNCHANGED <<forgotten, events, verdict>>

\* The transaction rolls back, or the worker dies: the job is compiled afresh.
RollBack(e) ==
    /\ pc[e] = "write"
    /\ pc' = [pc EXCEPT ![e] = "start"]
    /\ write' = [write EXCEPT ![e] = NoWrite]
    /\ UNCHANGED <<units, edges, forgotten, events, verdict>>

-----------------------------------------------------------------------------
(***************************************************************************)
(* compute_capture_crosscheck over a snapshot U of the open units.         *)
(***************************************************************************)
Eligible(U) == {i \in Ids : /\ U[i].open /\ U[i].family # "none"
                            /\ U[i].state \in {"candidate", "active"}}

Collision(U) ==
    \E a, b \in Eligible(U) : U[a].family # U[b].family /\ U[a].body # U[b].body

Agrees(U, a) ==
    \E b \in Eligible(U) : U[a].family # U[b].family /\ U[a].body = U[b].body

Told(i, o) == <<i, o>> \in events

Witnessed(U, i) ==
    U[i].witnesses
      \cup (IF ~Collision(U) /\ Agrees(U, i) THEN {"agreement"} ELSE {})
      \cup (IF Told(i, "success") THEN {"outcome"} ELSE {})

Condemned(U, i) == Collision(U) \/ Told(i, "corrected")

PromotesAlways(U, i) == U[i].state = "candidate"     \* mutant: promotion without a witness
Promotes(U, i)       == U[i].state = "candidate" /\ Witnessed(U, i) # {}

Cut(c) == IF c = Zero THEN Zero ELSE c + 1

Judged(U, i) ==
    [U[i] EXCEPT !.state      = IF Condemned(U, i) THEN "quarantined"
                                ELSE IF Promotes(U, i) THEN "active" ELSE @,
                 !.confidence = IF Condemned(U, i) THEN Zero
                                ELSE IF Told(i, "failure") THEN Cut(@) ELSE @,
                 !.witnesses  = Witnessed(U, i)]

Transitions(U) == {i \in Eligible(U) : Judged(U, i) # U[i]}

\* Bound: no cut past MaxHalvings.
Representable == \A i \in Eligible(units) : units[i].confidence # MaxHalvings

\* run_capture_crosscheck: the reads and the computation ...
CheckRead(p) ==
    /\ pc[p] = "check"
    /\ Representable
    /\ IF Transitions(units) = {}
         THEN pc' = [pc EXCEPT ![p] = "done"] /\ UNCHANGED verdict
         ELSE /\ pc' = [pc EXCEPT ![p] = "apply"]
              /\ verdict' = [verdict EXCEPT ![p] =
                               [i \in Transitions(units) |-> Judged(units, i)]]
    /\ UNCHANGED <<units, edges, forgotten, events, write>>

\* ... and apply_capture_transitions: all of them, or none if a unit was closed meanwhile.
Applied(p) ==
    [i \in Ids |-> IF i \notin DOMAIN verdict[p] THEN units[i]
                   ELSE [units[i] EXCEPT !.state      = verdict[p][i].state,
                                         !.confidence = verdict[p][i].confidence,
                                         !.witnesses  = verdict[p][i].witnesses,
                                         !.family     = verdict[p][i].family]]

CheckApply(p) ==
    /\ pc[p] = "apply"
    /\ units' = IF \A i \in DOMAIN verdict[p] : units[i].open THEN Applied(p) ELSE units
    /\ pc' = [pc EXCEPT ![p] = "done"]
    /\ verdict' = [verdict EXCEPT ![p] = << >>]
    /\ UNCHANGED <<edges, forgotten, events, write>>

\* The process dies after its first commit, or a statement of the cross-check fails: the
\* job is already done and the mark recorded, so nobody repeats the cross-check.
CheckLost(p) ==
    /\ pc[p] \in {"check", "apply"}
    /\ pc' = [pc EXCEPT ![p] = "done"]
    /\ verdict' = [verdict EXCEPT ![p] = << >>]
    /\ UNCHANGED <<units, edges, forgotten, events, write>>

-----------------------------------------------------------------------------
(***************************************************************************)
(* The requests of users.                                                  *)
(***************************************************************************)

\* mark: a review of a served unit, followed by a cross-check.
Mark(m, i, o) ==
    /\ pc[m] = "start" /\ Present(i)
    /\ events' = events \cup {<<i, o>>}
    /\ pc' = [pc EXCEPT ![m] = "check"]
    /\ UNCHANGED <<units, edges, forgotten, write, verdict>>

\* correction_rectangles of a current correction: the replacement covers the present,
\* the remainder keeps the former body for the past.
Replacement(u, b) == [u EXCEPT !.state = "active", !.body = b, !.source = "none"]
Remainder(u)      == [u EXCEPT !.state = "active", !.past = TRUE]

\* The open row that covers the present.
Correctable(u) == u.open /\ ~u.past /\ u.state # "deleted"

\* stage_correction
Correct(i, b) ==
    /\ Correctable(units[i])
    /\ Room(2)
    /\ LET new == FirstFresh IN
       /\ units' = [units EXCEPT ![i] = Closed(@, "superseded"),
                                 ![new] = Replacement(units[i], b),
                                 ![new + 1] = Remainder(units[i])]
       /\ edges' = edges \cup {<<new, i>>, <<new + 1, i>>}
    /\ UNCHANGED <<forgotten, events, pc, write, verdict>>

Tombstone(u) == [u EXCEPT !.state = "invalidated", !.body = ""]

\* stage_invalidation
Invalidate(i) ==
    /\ units[i].open /\ units[i].state # "deleted"
    /\ Room(1)
    /\ units' = [units EXCEPT ![i] = Closed(@, "superseded"), ![FirstFresh] = Tombstone(units[i])]
    /\ edges' = edges \cup {<<FirstFresh, i>>}
    /\ UNCHANGED <<forgotten, events, pc, write, verdict>>

\* The smallest set that contains S and is closed under the steps of R.
Reach(S, R) ==
    {i \in Ids : \A T \in SUBSET Ids :
        S \subseteq T /\ (\A r \in R : r[1] \in T => r[2] \in T) => i \in T}

Successors == {<<r[2], r[1]>> : r \in edges}

DerivedDirectly(e) == {i \in Ids : units[i].source = e}      \* mutant: no lineage walk
Derived(e) == Reach({i \in Ids : units[i].source = e}, Successors)

Erased(u) == [Closed(u, "deleted") EXCEPT !.body = "", !.family = "none", !.witnesses = {}]
Erase(S)  == [i \in Ids |-> IF i \in S /\ Present(i) /\ units[i].state # "deleted"
                              THEN Erased(units[i]) ELSE units[i]]

\* stage_forget of an episode: its units and what superseded them.
ForgetEpisode(e) ==
    /\ forgotten' = forgotten \cup {e}
    /\ units' = Erase(Derived(e))
    /\ UNCHANGED <<edges, events, pc, write, verdict>>

\* stage_forget of a unit: its whole lineage.
ForgetUnit(i) ==
    /\ Present(i)
    /\ units' = Erase(Reach({i}, Successors \cup edges))
    /\ UNCHANGED <<edges, forgotten, events, pc, write, verdict>>

-----------------------------------------------------------------------------
Next ==
    \/ \E e \in Episodes : \/ Prepare(e) \/ NothingToCompile(e) \/ Commit(e) \/ RollBack(e)
                           \/ ForgetEpisode(e)
    \/ \E p \in Processes : CheckRead(p) \/ CheckApply(p) \/ CheckLost(p)
    \/ \E m \in Marks, i \in Ids, o \in Outcomes : Mark(m, i, o)
    \/ \E i \in Ids : \/ Invalidate(i) \/ ForgetUnit(i)
                      \/ \E b \in Corrections : Correct(i, b)

Spec == Init /\ [][Next]_vars

-----------------------------------------------------------------------------
TombstoneOpen == \E i \in Ids : units[i].state = "invalidated" /\ units[i].open

\* A re-capture or a cross-check that was computed before the step is about to write i.
Planned(i) ==
    \/ \E e \in Episodes : pc[e] = "write" /\ write[e].kind = "reinforce" /\ write[e].id = i
    \/ \E p \in Processes : pc[p] = "apply" /\ i \in DOMAIN verdict[p]

\* It is live again, or gets back the capture marker that an erasure took.
Revived(i) ==
    /\ Present(i) /\ Live(units'[i])
    /\ ~Live(units[i]) \/ units'[i].family # units[i].family

Fragmented ==
    \E i, j \in Ids :
        /\ i # j /\ Live(units[i]) /\ Live(units[j]) /\ units[i].family = units[j].family
        /\ units[i].source # "none" /\ units[j].source # "none"

\* No unit that was closed, quarantined or erased comes to life again except by a
\* re-capture or cross-check that was computed while it was live and is written by id.
\* While an invalidation tombstone of the identity is open no new unit does except by a
\* correction (stage_compiled_units: "Only correct_memory may close a tombstone").  And
\* a channel gets a second live capture ("a same-channel re-capture never fragments into a
\* second open unit") only in one of these ways or because the plan that mints it was made
\* when an incumbent it does not close was not there.
OnlyStalePlansResurrect ==
    [][/\ \A i \in Ids :
            /\ Revived(i) => Planned(i)
            /\ ~Present(i) /\ Live(units'[i]) /\ TombstoneOpen => units'[i].source = "none"
       /\ ~Fragmented /\ Fragmented' =>
            \/ \E i \in Ids : Revived(i)
            \/ \E e \in Episodes :
                  pc[e] = "write" /\ Mints(write[e]) /\ Incumbents(e) \ {write[e].id} # {}]_vars

\* Units derived from a forgotten episode that have content or are open.
Lineage == Reach({j \in Ids : \E e \in forgotten : units[j].source = e}, Successors)
Unerased == {i \in Lineage : units[i].body # "" \/ units[i].open}

\* The unit that e is about to mint in place of a unit it found live when it was planned.
Supersedes(e, i) ==
    pc[e] = "write" /\ write[e].kind = "supersede" /\ <<i, write[e].id>> \in edges' \ edges

\* The unit that e is about to reopen because it found it live when it was planned.
Reinforces(e, i) ==
    pc[e] = "write" /\ write[e].kind = "reinforce" /\ write[e].id = i

\* A forget empties and closes everything derived from the episode, directly or through
\* corrections and re-captures that superseded it (stage_forget's lineage walk).  Content
\* or an open unit comes back into the lineage only by a re-capture that was planned
\* before the forget and is committed, by id, after it; or by a correction or an
\* invalidation of such a unit.
ForgottenIsErased ==
    [][\A i \in Unerased' \ Unerased :
         \/ \E e \in Episodes : Supersedes(e, i) \/ Reinforces(e, i)
         \/ \E j \in Unerased : <<i, j>> \in edges']_vars

\* A capture is active only if another channel said the same or a review of it succeeded:
\* no capture promotes itself (compute_capture_crosscheck).
PromotionIsEarned ==
    \A i \in Ids :
        units[i].state = "active" /\ units[i].source # "none" /\ ~units[i].past
          /\ units[i].body # "" =>
            \/ Told(i, "success")
            \/ \E j \in Ids \ {i} : /\ Present(j) /\ units[j].family # units[i].family
                                    /\ units[j].body \in {units[i].body, ""}
=============================================================================
