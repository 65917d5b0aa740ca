---------------------------- MODULE MemoryService ----------------------------
(***************************************************************************)
(* The service over the in-memory store: requests, lane runners and        *)
(* recalls of the contexts of one data subject, on several threads.  A     *)
(* step is what happens under one acquisition of the store's mutex.  A     *)
(* transaction collects rows to add, and, once a call needs a consistent   *)
(* view, a snapshot of its context; commit compares the snapshot with the  *)
(* tables as they are by then.                                             *)
(***************************************************************************)
EXTENDS MemoryStore

CONSTANTS Requests, Contexts, Home, Nobody,
          Asks,           \* what requests may ask for: a verb and a context
          Seed, Prior,    \* an episode with a pending job, and a unit, at the start
          Batch           \* jobs a lane runner claims at most

ASSUME ServiceAssumption ==
  /\ Requests \subseteq Names /\ {Seed, Prior} \subseteq Names \ Requests /\ Seed # Prior
  /\ Home \in Contexts /\ Nobody \notin Names \cup {NoSource} /\ IsFiniteSet(Requests)
  /\ Asks \subseteq [verb : {"retain", "resource", "unit", "remember", "reflect", "correct",
                             "correct_memory", "invalidate", "forget_unit", "forget_source",
                             "erase", "mark", "task", "events", "recall"}, context : Contexts]

VARIABLES
  tables,   \* context -> its rows
  deletion, \* deletion_generation of the subject
  erased,   \* whether the subject has a tombstone
  tasks,    \* requests whose task outcome is stored
  events,   \* task memory events: task, unit and kind
  ledger,   \* key -> the request whose response is stored, or Nobody
  asked,    \* what each request asks: verb, context, key
  tx,       \* the transactions
  holder,   \* key -> the request that holds its mutex, or Nobody
  runner,   \* context -> its lane runner
  told      \* history: request -> the episode named in its answer

vars == <<tables, deletion, erased, tasks, events, ledger, asked, tx, holder, runner, told>>
store == <<tables, deletion, erased, tasks, events, ledger>>

Idle == [pc |-> "idle", batch |-> <<>>, blocked |-> FALSE, plan |-> {}, snapshot |-> <<>>,
         base |-> <<>>]

TwoPhase == {"unit", "remember", "correct"}

NewTx(verb) ==
  [pc |-> IF verb \in TwoPhase THEN "probe"
          ELSE IF verb = "correct_memory" THEN "prepare"
          ELSE IF verb = "recall" THEN "read" ELSE "claim",
   plan |-> {},            \* rows to close or to promote, or that a recall has read
   target |-> NoSource, base |-> <<>>, snapshot |-> <<>>,
   events |-> {},          \* task memory events to add
   add |-> FALSE,           \* adds the episode, resource or task of its name
   observe |-> NoSource,    \* the episode it observes again
   job |-> Nobody]          \* the source it enqueues a job for

SeedTables(compiler) ==
  [EmptyTables EXCEPT
     !.episodes = [e \in {Seed} |-> 1],
     !.units = [u \in {Prior} |-> [state |-> "active", open |-> TRUE, source |-> NoSource, stem |-> {},
                                   reinforced |-> 0]],
     !.vectors = {Prior},
     !.jobs = <<[id |-> Seed, source |-> Seed, compiler |-> compiler]>>,
     !.compiled = {Prior},
     !.traces = [u \in {Prior} |-> {Prior}]]

Init ==
  /\ \E compiler \in {Compiler, "older"} :
       tables = [c \in Contexts |-> IF c = Home THEN SeedTables(compiler) ELSE EmptyTables]
  /\ deletion = 0 /\ erased = FALSE /\ tasks = {} /\ events = {}
  /\ asked \in [Requests -> {[verb |-> a.verb, context |-> a.context, key |-> k] :
                                a \in Asks, k \in Requests}]
  /\ \A r \in Requests :
       LET k == asked[r].key IN /\ asked[k].key = k /\ asked[k].verb = asked[r].verb
                                 /\ asked[r].verb = "recall" => k = r
  /\ ledger = [k \in Requests |-> Nobody]
  /\ tx = [r \in Requests |-> NewTx(asked[r].verb)]
  /\ holder = [k \in Requests |-> Nobody]
  /\ runner = [c \in Contexts |-> Idle]
  /\ told = [r \in Requests |-> NoSource]

TypeOK ==
  /\ \A c \in Contexts : LET t == tables[c] IN
       /\ DOMAIN t.units \subseteq Names /\ \A u \in DOMAIN t.units : t.units[u] \in Unit
       /\ DOMAIN t.meta \subseteq Names /\ \A j \in DOMAIN t.meta : t.meta[j] \in Meta
       /\ t.vectors \subseteq DOMAIN t.units
  /\ deletion \in Nat /\ erased \in BOOLEAN
  /\ ledger \in [Requests -> Requests \cup {Nobody}]

-----------------------------------------------------------------------------
(***************************************************************************)
(* Transactions.                                                           *)
(***************************************************************************)
Ctx(r) == asked[r].context
Verb(r) == asked[r].verb
Key(r) == asked[r].key
Live(r) == tables[Ctx(r)]

Goto(r, pc) == tx' = [tx EXCEPT ![r].pc = pc]
Unlocked(r) == [k \in Requests |-> IF holder[k] = r THEN Nobody ELSE holder[k]]

\* The request is answered, or refused: its transaction goes with its mutex.
Finish(r, pc) ==
  /\ tx' = [tx EXCEPT ![r] = [NewTx(Verb(r)) EXCEPT !.pc = pc]]
  /\ holder' = Unlocked(r)
  /\ UNCHANGED <<asked, runner>>

Refuse(r) == Finish(r, "failed") /\ UNCHANGED <<store, told>>

\* A receipt of the same verb and key: of the same request, or of another one.
SameClaim(q, r) == Ctx(q) = Ctx(r)
Replay(r) ==
  /\ ledger[Key(r)] # Nobody
  /\ Finish(r, IF SameClaim(ledger[Key(r)], r) THEN "done" ELSE "failed")
  /\ UNCHANGED <<store, told>>

\* The probe of direct statements and of correct: it holds the mutex only while it looks.
Probe(r) ==
  /\ tx[r].pc = "probe"
  /\ holder[Key(r)] = Nobody
  /\ \/ Replay(r)
     \/ /\ ledger[Key(r)] = Nobody
        /\ IF erased THEN Refuse(r)
           ELSE Goto(r, "prepare") /\ UNCHANGED <<store, asked, holder, runner, told>>

\* The compilation of a direct statement is planned outside the transaction, on the
\* open rows of the moment; a correction computes its embedding here.  Either may fail.
Prepare(r) ==
  /\ tx[r].pc = "prepare"
  /\ IF erased /\ Verb(r) \in {"unit", "remember"} THEN Refuse(r)
     ELSE /\ tx' = [tx EXCEPT ![r].pc = "claim",
                              ![r].plan = IF Verb(r) \in {"unit", "remember"} THEN Recallable(Live(r)) ELSE {}]
          /\ UNCHANGED <<store, asked, holder, runner, told>>

\* stage_mutation_claim: waits for the mutex of the key, and keeps it.
Claim(r) ==
  /\ tx[r].pc = "claim"
  /\ holder[Key(r)] = Nobody
  /\ \/ Replay(r)
     \/ /\ ledger[Key(r)] = Nobody
        /\ IF erased THEN Refuse(r)
           ELSE /\ Goto(r, "stage")
                /\ holder' = [holder EXCEPT ![Key(r)] = r]
                /\ UNCHANGED <<store, asked, runner, told>>

\* staged_state: the first call that needs it takes a snapshot of the context.
Capture(c) == <<tables[c], deletion>>
Base(r) == IF tx[r].base = <<>> THEN Capture(Ctx(r)) ELSE tx[r].base
Snapshot(r) == IF tx[r].base = <<>> THEN Live(r) ELSE tx[r].snapshot

StageOnSnapshot(r, result) ==
  IF result = Refused \/ (tx[r].base = <<>> /\ erased) THEN Refuse(r)
  ELSE /\ tx' = [tx EXCEPT ![r].pc = "commit", ![r].base = Base(r), ![r].snapshot = result]
       /\ UNCHANGED <<store, asked, holder, runner, told>>

StageRemember(r) ==
  /\ tx[r].pc = "stage" /\ Verb(r) = "remember"
  /\ StageOnSnapshot(r, Compile(Snapshot(r), r, tx[r].plan, r, NoSource, "active"))

\* retain with a unit for its payload.
StageUnit(r) ==
  /\ tx[r].pc = "stage" /\ Verb(r) = "unit"
  /\ StageOnSnapshot(r, Compile(Snapshot(r), r, tx[r].plan, r, NoSource, "active"))

\* Some row of the context, or a name that is not there.
StageCorrect(r) ==
  /\ tx[r].pc = "stage" /\ Verb(r) = "correct"
  /\ \E u \in Names : StageOnSnapshot(r, Correct(Snapshot(r), u, r))

StageCorrectMemory(r) ==
  /\ tx[r].pc = "stage" /\ Verb(r) = "correct_memory"
  /\ \E u \in Names : StageOnSnapshot(r, Correct(Snapshot(r), u, r))

StageInvalidate(r) ==
  /\ tx[r].pc = "stage" /\ Verb(r) = "invalidate"
  /\ \E u \in Names : StageOnSnapshot(r, Invalidate(Snapshot(r), u, r))

StageForget(r) ==
  /\ tx[r].pc = "stage" /\ Verb(r) \in {"forget_unit", "forget_source"}
  /\ \E x \in Names :
       StageOnSnapshot(r, IF Verb(r) = "forget_unit" THEN ForgetUnit(Snapshot(r), x)
                          ELSE ForgetSource(Snapshot(r), x))

\* mark: reads the trace, then stages the event.
StageMark(r) ==
  /\ tx[r].pc = "stage" /\ Verb(r) = "mark"
  /\ \E x \in Names : StageOnSnapshot(r, Review(Snapshot(r), x, r))

\* Rows to add at commit: a resource with its job, the job of a scope, or the
\* outcome of a task with the units it was shown, which must be of the context.
StageRows(r, job, added) ==
  /\ tx' = [tx EXCEPT ![r].pc = "commit", ![r].add = job # NoSource, ![r].job = job,
                      ![r].events = added]
  /\ UNCHANGED <<store, asked, holder, runner, told>>

StageResource(r) ==
  /\ tx[r].pc = "stage" /\ Verb(r) = "resource"
  /\ StageRows(r, r, {})

StageReflect(r) ==
  /\ tx[r].pc = "stage" /\ Verb(r) = "reflect"
  /\ StageRows(r, NoSource, {})

\* The units shown must be of the context, as the live rows have it.
stage_task_outcome(r, shown) ==
  IF shown \subseteq DOMAIN Live(r).units
  THEN StageRows(r, Nobody, {[task |-> r, unit |-> u, kind |-> "shown"] : u \in shown})
  ELSE Refuse(r)

StageTaskOutcome(r) ==
  /\ tx[r].pc = "stage" /\ Verb(r) = "task"
  /\ \E shown \in {{}} \cup {{u} : u \in Names} : stage_task_outcome(r, shown)

\* A verdict on a unit needs its exposure in the same task.
Exposed(e) == e.kind = "helpful" => [e EXCEPT !.kind = "shown"] \in events

\* About a task that is stored and a unit of the context.
stage_task_memory_events(r, e) ==
  IF e.task \in tasks /\ e.unit \in DOMAIN Live(r).units /\ Exposed(e)
  THEN StageRows(r, Nobody, {e}) ELSE Refuse(r)

StageTaskEvents(r) ==
  /\ tx[r].pc = "stage" /\ Verb(r) = "events"
  /\ \E task \in Requests, u \in Names, kind \in {"helpful", "silenced"} :
       stage_task_memory_events(r, [task |-> task, unit |-> u, kind |-> kind])

StageErase(r) ==
  /\ tx[r].pc = "stage" /\ Verb(r) = "erase"
  /\ Goto(r, "commit")
  /\ UNCHANGED <<store, asked, holder, runner, told>>

\* All retains of a context carry the same statement.
SameStatement(t) == DOMAIN t.episodes

\* stage_episode, on the live rows.
StageEpisode(r) ==
  /\ tx[r].pc = "stage" /\ Verb(r) = "retain"
  /\ IF SameStatement(Live(r)) = {}
       THEN tx' = [tx EXCEPT ![r].pc = "enqueue", ![r].add = TRUE, ![r].target = r]
       ELSE \E e \in SameStatement(Live(r)) :
              tx' = [tx EXCEPT ![r].pc = "reinforce", ![r].observe = e, ![r].target = e]
  /\ UNCHANGED <<store, asked, holder, runner, told>>

\* A capture that is observed again reinforces what was compiled from it.
StageReinforce(r) ==
  /\ tx[r].pc = "reinforce"
  /\ IF erased THEN Refuse(r)
     ELSE /\ tx' = [tx EXCEPT ![r].pc = "enqueue", ![r].base = Base(r),
                              ![r].snapshot = Reinforce(Snapshot(r), tx[r].target, r)]
          /\ UNCHANGED <<store, asked, holder, runner, told>>

\* enqueue_reflect, on the live rows.
Enqueue(r) ==
  /\ tx[r].pc = "enqueue"
  /\ LET e == tx[r].target IN
     IF ~tx[r].add /\ e \notin DOMAIN Live(r).episodes THEN Refuse(r)
     ELSE /\ tx' = [tx EXCEPT ![r].pc = "commit",
                              ![r].job = IF SameJob(Live(r), e) = {} THEN e ELSE Nobody]
          /\ UNCHANGED <<store, asked, holder, runner, told>>

\* The caller goes away, or a call fails.
Abort(r) ==
  /\ tx[r].pc \notin {"done", "failed", "check", "apply"}
  /\ Refuse(r)

-----------------------------------------------------------------------------
(***************************************************************************)
(* Commit.                                                                 *)
(***************************************************************************)
\* Mutant: what has been committed since the snapshot is not looked at.
Unchanged(r) == TRUE
StillBase(r) == tx[r].base = <<>> \/ tx[r].base = Capture(Ctx(r))

\* The rows of the context after the commit: the snapshot takes their place, then the
\* collected rows are added; an observation of an episode that is gone is dropped.
Observed(t, e) ==
  IF e \in DOMAIN t.episodes THEN [t EXCEPT !.episodes[e] = @ + 1] ELSE t

Added(t, r) ==
  IF ~tx[r].add THEN t
  ELSE CASE Verb(r) = "retain"   -> [t EXCEPT !.episodes = Extend(@, r, 1)]
         [] Verb(r) = "resource" -> [t EXCEPT !.resources = @ \cup {r}]
         [] OTHER                -> t

Queued(t, r) ==
  IF tx[r].job = Nobody THEN t
  ELSE [t EXCEPT !.jobs = Append(@, [id |-> r, source |-> tx[r].job, compiler |-> Compiler])]

AfterCommit(r) ==
  Queued(Added(Observed(IF tx[r].base = <<>> THEN Live(r) ELSE tx[r].snapshot,
                        tx[r].observe), r), r)

\* The response staged after the claim is stored with its key; that of an erasure
\* is the only one its subject keeps.
stage_mutation_response(r) == [ledger EXCEPT ![Key(r)] = r]
stage_subject_erasure(r) == [k \in Requests |-> IF k = Key(r) THEN r ELSE Nobody]

Commit(r) ==
  /\ tx[r].pc = "commit" /\ Verb(r) # "erase"
  /\ IF ~StillBase(r) \/ erased THEN Refuse(r)
     ELSE /\ tables' = [tables EXCEPT ![Ctx(r)] = AfterCommit(r)]
          /\ deletion' = IF Verb(r) \in {"forget_unit", "forget_source"}
                          THEN deletion + 1 ELSE deletion
          /\ tasks' = IF Verb(r) = "task" THEN tasks \cup {r} ELSE tasks
          /\ events' = events \cup tx[r].events
          /\ ledger' = stage_mutation_response(r)
          /\ told' = [told EXCEPT ![r] = tx[r].target]
          /\ Finish(r, IF Verb(r) = "mark" THEN "check" ELSE "done")
          /\ UNCHANGED erased

Surviving(t) == EmptyTables

\* erase_subject: every row of every context of the subject, and its receipts.
CommitErasure(r) ==
  /\ tx[r].pc = "commit" /\ Verb(r) = "erase"
  /\ IF erased THEN Refuse(r)
     ELSE /\ tables' = [c \in Contexts |-> Surviving(tables[c])]
          /\ tasks' = {} /\ events' = {} /\ erased' = TRUE
          /\ ledger' = stage_subject_erasure(r)
          /\ Finish(r, "done")
          /\ UNCHANGED <<deletion, told>>

-----------------------------------------------------------------------------
(***************************************************************************)
(* Direct calls: the cross-check, a recall's trace, the lane runners.      *)
(***************************************************************************)
Candidates(t) == {u \in OpenUnits(t) : t.units[u].state = "candidate"}

\* The cross-check at the end of a mark: reads, then applies what it computed.
MarkCheck(r) ==
  /\ tx[r].pc = "check"
  /\ IF erased THEN Goto(r, "done")
     ELSE \E promoted \in SUBSET Candidates(Live(r)) :
            tx' = [tx EXCEPT ![r].pc = IF promoted = {} THEN "done" ELSE "apply",
                             ![r].plan = promoted]
  /\ UNCHANGED <<store, asked, holder, runner, told>>

ApplyPromotions(c, promoted) ==
  LET result == Promoted(tables[c], promoted)
  IN  IF erased \/ result = Refused THEN UNCHANGED tables
      ELSE tables' = [tables EXCEPT ![c] = result]

MarkApply(r) ==
  /\ tx[r].pc = "apply"
  /\ ApplyPromotions(Ctx(r), tx[r].plan)
  /\ tx' = [tx EXCEPT ![r].pc = "done", ![r].plan = {}]
  /\ UNCHANGED <<deletion, erased, tasks, events, ledger, asked, holder, runner, told>>

\* A recall reads its candidates and stores its trace.
RecallRead(r) ==
  /\ tx[r].pc = "read"
  /\ IF erased THEN Refuse(r)
     ELSE /\ tx' = [tx EXCEPT ![r].pc = "trace",
                              ![r].plan = Recallable(Live(r)) \cup VectorCandidates(Live(r))]
          /\ UNCHANGED <<store, asked, holder, runner, told>>

StoreTrace(r) ==
  /\ tx[r].pc = "trace"
  /\ IF erased THEN Refuse(r)
     ELSE /\ tables' = [tables EXCEPT ![Ctx(r)].traces = Extend(@, r, tx[r].plan)]
          /\ Finish(r, "done")
          /\ UNCHANGED <<deletion, erased, tasks, events, ledger, told>>

\* The lane runner of a context.
Run(c, record) == runner' = [runner EXCEPT ![c] = record]
Head1(c) == Head(runner[c].batch)
Rest(c, blocked) ==
  LET left == Tail(runner[c].batch)
  IN  IF left = <<>> THEN Idle
      ELSE [Idle EXCEPT !.pc = "next", !.batch = left, !.blocked = runner[c].blocked \/ blocked]

RunnerStep(c, t, record) ==
  /\ tables' = [tables EXCEPT ![c] = t]
  /\ Run(c, record)
  /\ UNCHANGED <<deletion, erased, tasks, events, ledger, asked, tx, holder, told>>

\* claim_reflect_jobs: the first jobs of a lane in which nothing is claimed, in the
\* order of the queue.
ClaimJobs(c) ==
  /\ runner[c].pc = "idle" /\ ~erased
  /\ LET free == Claimable(tables[c])
         taken == {i \in free : Cardinality({k \in free : k < i}) < Batch}
     IN  /\ free # {}
         /\ \E at \in [1..Cardinality(taken) -> taken] :
              LET jobs == [i \in DOMAIN at |-> tables[c].jobs[at[i]]]
                  t == Claimed(tables[c], {jobs[i].id : i \in DOMAIN jobs})
              IN  /\ \A i, k \in DOMAIN at : i < k => at[i] < at[k]
                  /\ RunnerStep(c, t, [Idle EXCEPT !.pc = "next", !.batch =
                       [i \in DOMAIN jobs |->
                          [job |-> jobs[i], attempts |-> MetaOf(t, jobs[i].id).attempts,
                           generation |-> MetaOf(t, jobs[i].id).generation]]])

\* Behind a job that failed, a job is released; a job of another compiler is requeued.
Skip(c) ==
  /\ runner[c].pc = "next"
  /\ \/ /\ runner[c].blocked
        /\ RunnerStep(c, Released(tables[c], Head1(c)), Rest(c, TRUE))
     \/ /\ ~runner[c].blocked /\ Head1(c).job.compiler # Compiler
        /\ RunnerStep(c, Requeued(tables[c], Head1(c)), Rest(c, TRUE))

\* The provider's verdict is terminal, or an error or panic leaves the job for later.
FailJob(c) ==
  /\ runner[c].pc = "next" /\ ~runner[c].blocked /\ Head1(c).job.compiler = Compiler
  /\ \/ RunnerStep(c, Failed(tables[c], Head1(c)), Rest(c, TRUE))
     \/ RunnerStep(c, Released(tables[c], Head1(c)), Rest(c, TRUE))

\* compile_job reads the source and plans on the open rows.  A source that is gone, or a
\* job that has been compiled, is complete.
PlanJob(c) ==
  /\ runner[c].pc = "next" /\ ~runner[c].blocked /\ Head1(c).job.compiler = Compiler
  /\ LET s == Head1(c).job.source
         t == tables[c]
     IN  IF erased THEN RunnerStep(c, t, Rest(c, TRUE))
         ELSE IF (s # NoSource /\ s \notin DOMAIN t.episodes \cup t.resources)
                   \/ Head1(c).job.id \in t.compiled
           THEN RunnerStep(c, Completed(t, Head1(c)), Rest(c, FALSE))
           ELSE \E plan \in {{}, Recallable(t)} :
                  /\ s = NoSource => plan = {}
                  /\ RunnerStep(c, t, [runner[c] EXCEPT !.pc = "stage", !.plan = plan])

\* stage_compiled_units with the claim: a stale claim is left alone.
StageJob(c) ==
  /\ runner[c].pc = "stage"
  /\ LET t == tables[c]
         result == CompileClaimed(t, Head1(c), runner[c].plan)
     IN  IF erased THEN RunnerStep(c, t, Rest(c, TRUE))
         ELSE IF ~ClaimIsCurrent(t, Head1(c)) THEN RunnerStep(c, t, Rest(c, FALSE))
         ELSE IF result = Refused THEN RunnerStep(c, Released(t, Head1(c)), Rest(c, TRUE))
         ELSE RunnerStep(c, t, [runner[c] EXCEPT !.pc = "commit", !.base = Capture(c),
                                                 !.snapshot = result])

\* Mutant: the compilation is committed over whatever has happened.
RunnerUnchanged(c) == TRUE
RunnerStillBase(c) == runner[c].base = Capture(c)

CommitJob(c) ==
  /\ runner[c].pc = "commit"
  /\ IF ~RunnerStillBase(c) \/ erased
       THEN RunnerStep(c, Released(tables[c], Head1(c)), Rest(c, TRUE))
       ELSE RunnerStep(c, runner[c].snapshot, [runner[c] EXCEPT !.pc = "check", !.plan = {},
                                                 !.base = <<>>, !.snapshot = <<>>])

CheckJob(c) ==
  /\ runner[c].pc = "check"
  /\ \E promoted \in SUBSET Candidates(tables[c]) :
       RunnerStep(c, tables[c],
         IF promoted = {} THEN Rest(c, FALSE)
         ELSE [runner[c] EXCEPT !.pc = "apply", !.plan = promoted])

ApplyJob(c) ==
  /\ runner[c].pc = "apply"
  /\ ApplyPromotions(c, runner[c].plan)
  /\ Run(c, Rest(c, erased \/ Promoted(tables[c], runner[c].plan) = Refused))
  /\ UNCHANGED <<deletion, erased, tasks, events, ledger, asked, tx, holder, told>>

-----------------------------------------------------------------------------
Stage(r) ==
  \/ StageRemember(r) \/ StageUnit(r) \/ StageCorrect(r) \/ StageCorrectMemory(r)
  \/ StageInvalidate(r) \/ StageForget(r) \/ StageMark(r) \/ StageResource(r)
  \/ StageReflect(r) \/ StageTaskOutcome(r) \/ StageTaskEvents(r) \/ StageErase(r) \/ StageEpisode(r) \/ StageReinforce(r)
  \/ Enqueue(r)

RequestStep(r) ==
  \/ Probe(r) \/ Prepare(r) \/ Claim(r) \/ Stage(r) \/ Commit(r) \/ CommitErasure(r)
  \/ MarkCheck(r) \/ MarkApply(r) \/ RecallRead(r) \/ StoreTrace(r)

LaneStep(c) ==
  \/ Skip(c) \/ FailJob(c) \/ PlanJob(c) \/ StageJob(c) \/ CommitJob(c)
  \/ CheckJob(c) \/ ApplyJob(c)

Next ==
  \/ \E r \in Requests : RequestStep(r) \/ Abort(r)
  \/ \E c \in Contexts : ClaimJobs(c) \/ LaneStep(c)

Spec == Init /\ [][Next]_vars

-----------------------------------------------------------------------------
(***************************************************************************)
(* Properties.                                                             *)
(***************************************************************************)
\* Every retain that was answered with an episode is counted in it, once, while it
\* exists, and what was compiled from it is not reinforced more often than it was
\* observed again: neither a snapshot committed over the rows nor a retry of a request
\* loses an observation or counts one twice.
ObservationsCounted ==
  \A c \in Contexts : LET t == tables[c] IN
    \A e \in DOMAIN t.episodes :
      /\ t.episodes[e] = Cardinality({r \in Requests : told[r] = e}) + (IF e = Seed THEN 1 ELSE 0)
      /\ \A u \in DOMAIN t.units :
           t.units[u].source = e => t.units[u].reinforced <= t.episodes[e] - 1

\* Rows by their names, with whether they are settled.
Kept(t) ==
  [rows |-> DOMAIN t.episodes \cup t.resources, units |-> DOMAIN t.units, jobs |-> JobIds(t),
   compiled |-> t.compiled, traces |-> DOMAIN t.traces, reviews |-> t.reviews,
   edges |-> t.supersedes,
   settled |-> {j \in DOMAIN t.meta : t.meta[j].completed \/ t.meta[j].terminal}]

\* No step loses what another one has committed: a row, an edge, a receipt of a
\* compilation or the settlement of a job goes only with a forget of its context or with
\* the erasure of the subject.
NothingIsLost ==
  [][\A c \in Contexts : tables'[c] # tables[c] =>
       LET before == Kept(tables[c]) after == Kept(tables[c])' IN
       \/ erased'
       \/ \A f \in DOMAIN before : before[f] \subseteq after[f]
       \/ /\ deletion' = deletion + 1
          /\ \A f \in DOMAIN before \ {"rows"} : before[f] \subseteq after[f]
          /\ before.rows \ after.rows \subseteq tables'[c].forgotten]_vars

\* What restates a forgotten source is gone for good, whatever was being compiled,
\* corrected, invalidated or promoted when it was forgotten, and so are its vectors.
\* Nothing is written to an erased subject by a request, runner or recall that began
\* before its erasure, no receipt but that of an erasure is left, and whatever commits
\* between, evidence that a unit helped keeps the task in which the unit was shown.
ForgottenStaysForgotten ==
  /\ \A c \in Contexts : LET t == tables[c] IN
       \A u \in DOMAIN t.units :
         (u \in t.forgotten \/ t.units[u].stem \cap t.forgotten # {})
           => ~t.units[u].open /\ u \notin t.vectors
  /\ erased => /\ \A c \in Contexts : tables[c] = EmptyTables
               /\ tasks = {} /\ events = {}
               /\ \A k \in Requests : ledger[k] # Nobody => Verb(ledger[k]) = "erase"
  /\ \A e \in events : /\ e.task \in tasks
                        /\ e.kind = "helpful" => [e EXCEPT !.kind = "shown"] \in events
=============================================================================
