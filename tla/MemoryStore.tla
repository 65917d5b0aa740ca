----------------------------- MODULE MemoryStore -----------------------------
(***************************************************************************)
(* The tables of the in-memory store, one copy per memory context, and     *)
(* what each staging call makes of them.  A call that works on a snapshot  *)
(* is a function from tables to tables; a refused call yields Refused.     *)
(* Rows are named after the request that makes them; the unit that a job   *)
(* compiles has the name of the job.                                       *)
(***************************************************************************)
EXTENDS Integers, Sequences, FiniteSets

CONSTANTS Names,      \* requests, and the rows there are at the start
          NoSource,   \* the source of a unit that was stated directly
          Refused,    \* what a staging call that fails yields
          Compiler,   \* the compiler identity of this build
          MaxAttempts \* JOB_DEAD_LETTER_ATTEMPTS

ASSUME NamesAssumption == NoSource \notin Names /\ MaxAttempts \in Nat \ {0}

\* stem is history: the sources whose statement the row restates.
Unit == [state : {"candidate", "active", "superseded", "invalidated", "deleted"}, open : BOOLEAN,
         source : Names \cup {NoSource}, stem : SUBSET Names, reinforced : Nat]

Meta == [attempts : 0..MaxAttempts, generation : Nat, claimed : BOOLEAN,
         completed : BOOLEAN, terminal : BOOLEAN]
NewMeta == [attempts |-> 0, generation |-> 0, claimed |-> FALSE,
            completed |-> FALSE, terminal |-> FALSE]

EmptyTables ==
  [episodes |-> <<>>,   \* name -> observation_count
   resources |-> {}, units |-> <<>>, supersedes |-> {}, vectors |-> {},
   jobs |-> <<>>,       \* in queue order
   meta |-> <<>>, compiled |-> {}, traces |-> <<>>, reviews |-> {}, forgotten |-> {}]

Extend(f, x, v) == [y \in DOMAIN f \cup {x} |-> IF y = x THEN v ELSE f[y]]

-----------------------------------------------------------------------------
(***************************************************************************)
(* Reads.                                                                  *)
(***************************************************************************)
OpenUnits(t) == {u \in DOMAIN t.units : t.units[u].open}

Tombstones(t) == {u \in OpenUnits(t) : t.units[u].state = "invalidated"}

\* fetch_recall_candidates, and by vector: rows a recall may serve now.
Recallable(t) == {u \in OpenUnits(t) : t.units[u].state = "active"}
VectorCandidates(t) == Recallable(t) \cap t.vectors

\* is_forgotten_source, of a row and of what it was compiled from.
IsForgotten(t, u, source) == source \in t.forgotten \/ u \in t.forgotten

JobIds(t) == {t.jobs[i].id : i \in DOMAIN t.jobs}
MetaOf(t, j) == IF j \in DOMAIN t.meta THEN t.meta[j] ELSE NewMeta

-----------------------------------------------------------------------------
(***************************************************************************)
(* Corrections, invalidations, forgetting.                                 *)
(***************************************************************************)
Closed(unit) == [unit EXCEPT !.state = "superseded", !.open = FALSE]

\* The row that takes the place of u, and the edge to u.
Replace(t, u, new, unit) ==
  [t EXCEPT !.units = Extend([t.units EXCEPT ![u] = Closed(t.units[u])], new, unit),
            !.supersedes = @ \cup {<<new, u>>}]

Correctable(t, u) ==
  u \in OpenUnits(t) /\ t.units[u].state # "deleted"

Correct(t, u, new) ==
  IF ~Correctable(t, u) THEN Refused
  ELSE [Replace(t, u, new, [state |-> "active", open |-> TRUE, source |-> NoSource,
                            stem |-> t.units[u].stem, reinforced |-> 0])
          EXCEPT !.vectors = @ \cup {new}]

Invalidate(t, u, new) ==
  IF ~Correctable(t, u) THEN Refused
  ELSE Replace(t, u, new, [t.units[u] EXCEPT !.state = "invalidated"])

\* Rows reached from some over supersedes edges, upwards and (for a unit) downwards:
\* the least set that has them and whatever supersedes one of its members.
ClosedUnder(edges, S) == \A e \in edges : e[2] \in S => e[1] \in S
Reach(edges, some) ==
  {u \in Names : \A S \in SUBSET Names : some \subseteq S /\ ClosedUnder(edges, S) => u \in S}

Lineage(t, u) == Reach(t.supersedes \cup {<<e[2], e[1]>> : e \in t.supersedes}, {u})
Descendants(t, s) ==
  Reach(t.supersedes, {u \in DOMAIN t.units : t.units[u].source = s})

\* Rows are closed, emptied, and lose their vectors.
Deleted(t, gone) ==
  [t EXCEPT
     !.units = [u \in DOMAIN t.units |->
                  IF u \in gone THEN [t.units[u] EXCEPT !.state = "deleted", !.open = FALSE]
                  ELSE t.units[u]],
     !.vectors = @ \ gone]

\* stage_forget.  An episode's row goes; a resource's stays, and only the tombstone
\* keeps it from being compiled again.
ForgetUnit(t, u) ==
  IF u \notin DOMAIN t.units THEN Refused
  ELSE [Deleted(t, Lineage(t, u)) EXCEPT !.forgotten = @ \cup {u}]

ForgetSource(t, s) ==
  IF s \notin DOMAIN t.episodes \cup t.resources THEN Refused
  ELSE [Deleted(t, Descendants(t, s))
          EXCEPT !.forgotten = @ \cup {s},
                 !.episodes = [e \in DOMAIN t.episodes \ {s} |-> t.episodes[e]]]

Review(t, trace, caller) ==
  IF trace \notin DOMAIN t.traces THEN Refused
  ELSE [t EXCEPT !.reviews = @ \cup {<<trace, caller>>}]

-----------------------------------------------------------------------------
(***************************************************************************)
(* Compilation.                                                            *)
(***************************************************************************)
\* claim_is_current: the row of the job as claimed.
ClaimIsCurrent(t, claim) ==
  /\ \E i \in DOMAIN t.jobs : t.jobs[i] = claim.job
  /\ LET m == MetaOf(t, claim.job.id) IN
     /\ m.claimed /\ ~m.completed /\ ~m.terminal
     /\ m.attempts = claim.attempts /\ m.generation = claim.generation

\* Mutant of Admits: the tombstone of the source is not consulted.
AdmitsAll(t, new, source) == TRUE
Admits(t, new, source) == ~IsForgotten(t, new, source)

\* stage_compiled_units: the planned rows are closed by their id alone, and the new row
\* is kept unless its source is forgotten.  All statements of a context have the same
\* stable identity, so an open tombstone blocks any of them.  A job for the whole scope
\* has no new row.
Compile(t, job, plan, new, source, state) ==
  IF job \in t.compiled THEN t
  ELSE IF ~(plan \subseteq DOMAIN t.units) \/ (state # "none" /\ Tombstones(t) # {}) THEN Refused
  ELSE LET closed == [t EXCEPT
             !.units = [u \in DOMAIN t.units |-> IF u \in plan THEN Closed(t.units[u]) ELSE t.units[u]],
             !.compiled = @ \cup {job}]
       IN  IF state = "none" \/ ~Admits(t, new, source) THEN closed
           ELSE [closed EXCEPT
                   !.units = Extend(@, new,
                      [state |-> state, open |-> TRUE, source |-> source,
                       stem |-> {source} \ {NoSource}, reinforced |-> 0]),
                   !.supersedes = @ \cup {<<new, u>> : u \in plan},
                   !.vectors = @ \cup {new}]

\* reinforce_captured_episode_units: a compilation that only touches the open rows a
\* capture has made.
Captured(t, episode) ==
  {u \in OpenUnits(t) : t.units[u].source = episode
                           /\ t.units[u].state \in {"candidate", "active"}}

Reinforce(t, episode, job) ==
  IF Captured(t, episode) = {} THEN t
  ELSE [t EXCEPT !.units = [u \in DOMAIN t.units |->
                              IF u \in Captured(t, episode)
                              THEN [t.units[u] EXCEPT !.reinforced = t.units[u].reinforced + 1]
                              ELSE t.units[u]],
                 !.compiled = @ \cup {job}]

\* With a claim the compilation also completes the job.  A captured statement becomes a
\* candidate and closes nothing.
CompileClaimed(t, claim, plan) ==
  LET job == claim.job.id
      state == IF claim.job.source = NoSource THEN "none"
               ELSE IF plan = {} THEN "candidate" ELSE "active"
      done == Compile(t, job, plan, job, claim.job.source, state)
  IN  IF done = Refused \/ job \in t.compiled THEN done
      ELSE [done EXCEPT !.meta = Extend(t.meta, job,
              [MetaOf(t, job) EXCEPT !.completed = TRUE, !.claimed = FALSE])]

\* apply_capture_transitions: every row must still be open.
Promoted(t, promoted) ==
  IF ~(promoted \subseteq OpenUnits(t)) THEN Refused
  ELSE [t EXCEPT !.units = [u \in DOMAIN t.units |->
                              IF u \in promoted THEN [t.units[u] EXCEPT !.state = "active"]
                              ELSE t.units[u]]]

-----------------------------------------------------------------------------
(***************************************************************************)
(* The queue.                                                              *)
(***************************************************************************)
SetMeta(t, j, m) == [t EXCEPT !.meta = Extend(t.meta, j, m)]

SameJob(t, source) ==
  {i \in DOMAIN t.jobs : t.jobs[i].source = source /\ t.jobs[i].compiler = Compiler}

\* The places in the queue of the jobs that may be claimed.
Claimable(t) ==
  {i \in DOMAIN t.jobs :
     /\ LET m == MetaOf(t, t.jobs[i].id) IN
        ~m.completed /\ ~m.terminal /\ ~m.claimed /\ m.attempts < MaxAttempts
     /\ ~\E j \in JobIds(t) : MetaOf(t, j).claimed /\ ~MetaOf(t, j).completed}

Claimed(t, ids) ==
  [t EXCEPT !.meta = [j \in DOMAIN t.meta \cup ids |->
     IF j \in ids THEN [MetaOf(t, j) EXCEPT !.claimed = TRUE, !.attempts = MetaOf(t, j).attempts + 1]
     ELSE t.meta[j]]]

Completed(t, claim) ==
  IF ClaimIsCurrent(t, claim)
    THEN SetMeta(t, claim.job.id,
                 [MetaOf(t, claim.job.id) EXCEPT !.completed = TRUE, !.claimed = FALSE])
    ELSE t

Released(t, claim) ==
  IF ClaimIsCurrent(t, claim)
    THEN SetMeta(t, claim.job.id, [MetaOf(t, claim.job.id) EXCEPT !.claimed = FALSE])
    ELSE t

Failed(t, claim) ==
  IF ClaimIsCurrent(t, claim)
    THEN SetMeta(t, claim.job.id,
                 [MetaOf(t, claim.job.id) EXCEPT !.claimed = FALSE, !.terminal = TRUE])
    ELSE t

\* requeue_reflect_job_with_compiler: the job takes the new identity, or gives way (and
\* its place in the queue) to the job of the same source that has it already.
Requeued(t, claim) ==
  LET j == claim.job.id
      at == CHOOSE i \in DOMAIN t.jobs : t.jobs[i].id = j
      twins == {i \in SameJob(t, claim.job.source) : t.jobs[i].id # j}
      m == MetaOf(t, j)
  IN  IF ~ClaimIsCurrent(t, claim) THEN t
      ELSE IF twins # {}
        THEN LET twin == CHOOSE i \in twins : TRUE IN
             [SetMeta(t, j, [m EXCEPT !.claimed = FALSE, !.terminal = TRUE,
                                      !.generation = m.generation + 1])
                EXCEPT !.jobs = [t.jobs EXCEPT ![at] = t.jobs[twin], ![twin] = t.jobs[at]]]
        ELSE [SetMeta(t, j, [NewMeta EXCEPT !.generation = m.generation + 1])
                EXCEPT !.jobs = [t.jobs EXCEPT ![at].compiler = Compiler]]
=============================================================================
