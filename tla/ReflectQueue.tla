--------------------------- MODULE ReflectQueue ---------------------------
(***************************************************************************)
(* The reflect job queue: the rows of memphant.job_state, the SQL claim    *)
(* function, and the fleet of workers that claim batches of jobs, compile  *)
(* them and write the results back.                                        *)
(*                                                                         *)
(* Every database transaction is one action.  Between two transactions of  *)
(* a worker anything may happen: other workers claim and write, time       *)
(* passes, leases run out, the worker dies, the data subject is erased.    *)
(*                                                                         *)
(* Time is relative, so that the state stays finite without a bound on the *)
(* clock: age is how long ago a running job was claimed (saturating one    *)
(* tick past the lease) and wait how long until run_after.                 *)
(***************************************************************************)
EXTENDS Integers, FiniteSets

CONSTANTS
    Workers,        \* worker processes
    Rows,           \* job_state rows, numbered by their identity queue_order
    Lanes,          \* (tenant, subject, generation, scope, agent) lanes, numbered by agent
    Targets,        \* the episodes and resources that jobs reflect
    Compilers,      \* compiler identities
    LaneOf,         \* the lane of a target
    TenantOf,       \* the tenant of a lane
    LiveCompiler,   \* the structured compiler identity of a worker, or NoProvider
    NoProvider,
    MaxAttempts,    \* JOB_DEAD_LETTER_ATTEMPTS
    Lease,          \* the 15 minute lease, in ticks
    Backoff,        \* retry_backoff_seconds of an attempt, in ticks
    Limit,          \* batch size of a worker tick
    InOrder,        \* TRUE: enqueuing transactions never overlap in time
    MaxGen          \* bound: no requeue past this claim_generation

ASSUME RowsAssumption == Rows \subseteq Nat /\ IsFiniteSet(Rows)
ASSUME LanesAssumption == Lanes \subseteq Nat
ASSUME InputsAssumption == Targets # {} /\ Compilers # {}
ASSUME LaneOfAssumption == LaneOf \in [Targets -> Lanes]
ASSUME CompilerAssumption ==
    /\ NoProvider \notin Compilers
    /\ LiveCompiler \in [Workers -> Compilers \cup {NoProvider}]
ASSUME BoundsAssumption ==
    /\ MaxAttempts \in Nat \ {0}
    /\ Lease \in Nat
    /\ Limit \in Nat \ {0}
    /\ MaxGen \in Nat
    /\ InOrder \in BOOLEAN
ASSUME BackoffAssumption == Backoff \in [1..MaxAttempts -> Nat]

VARIABLES
    jobs,       \* the job_state table
    held,       \* the claims a worker has yet to deal with in its current tick
    stage,      \* where the worker stands with the first claim it holds of a lane
    erased,     \* lanes whose data subject has been erased
    writes      \* history: compiled writes committed, per target and compiler

vars == <<jobs, held, stage, erased, writes>>

-----------------------------------------------------------------------------
States  == {"absent", "queued", "running", "done", "dead", "erased"}
Results == {"null", "prepared", "completed"}
Stages  == {"start", "extract", "compile", "crosscheck", "complete",
            "release", "fail", "blocked"}

Row == [state: States, target: Targets, compiler: Compilers, order: Rows,
        attempts: 0..MaxAttempts, gen: Nat, age: 0..Lease + 1, wait: Nat, result: Results]

\* A ReflectJobRow as a worker holds it: the claim token plus its place in the batch.
Token == [job: Rows, lane: Lanes, compiler: Compilers, pos: Rows,
          attempts: 1..MaxAttempts, gen: Nat]

TypeOK ==
    /\ jobs \in [Rows -> Row]
    /\ held \in [Workers -> SUBSET Token]
    /\ stage \in [Workers -> [Lanes -> Stages]]
    /\ erased \subseteq Lanes
    /\ writes \in [Targets \X Compilers -> Nat]

Init ==
    /\ jobs = [j \in Rows |->
                 [state |-> "absent", target |-> CHOOSE t \in Targets : TRUE,
                  compiler |-> CHOOSE c \in Compilers : TRUE, order |-> j,
                  attempts |-> 0, gen |-> 0, age |-> 0, wait |-> 0,
                  result |-> "null"]]
    /\ held = [w \in Workers |-> {}]
    /\ stage = [w \in Workers |-> [l \in Lanes |-> "start"]]
    /\ erased = {}
    /\ writes = [k \in Targets \X Compilers |-> 0]

-----------------------------------------------------------------------------
Lane(r)     == LaneOf[r.target]
Present(r)  == r.state \notin {"absent", "erased"}
Open(r)     == r.state \in {"queued", "running"}
Leased(r)   == r.state = "running" /\ r.age =< Lease
Lapsed(r)   == r.state = "running" /\ r.age > Lease

\* A row enters a state (claimed_at is set or cleared); its former claims lapse.
To(r, s)    == [r EXCEPT !.state = s, !.age = 0]
Fenced(r)   == [r EXCEPT !.gen = @ + 1]

\* The row by its id and compiler identity.
Found(t)    == Present(jobs[t.job]) /\ jobs[t.job].compiler = t.compiler

\* The WHERE clause every claim-holding statement shares.
Matches(t)  == Found(t) /\ jobs[t.job].attempts = t.attempts /\ jobs[t.job].gen = t.gen

MatchesSettled(t) == Matches(t)     \* mutant: any state will do
Owns(t)     == Matches(t) /\ jobs[t.job].state = "running"

(***************************************************************************)
(* enqueue_reflect: insert ... on conflict do nothing.  The identity value *)
(* is drawn when the row is inserted and the row becomes visible when its  *)
(* transaction commits, so rows may appear out of queue order, unless      *)
(* InOrder says that no two enqueuing transactions overlap.                *)
(***************************************************************************)
Requested(t, c) == \E i \in Rows : Present(jobs[i]) /\ jobs[i].target = t /\ jobs[i].compiler = c

Queued(r, t, c) == [To(r, "queued") EXCEPT !.target = t, !.compiler = c]

Enqueue(j, t, c) ==
    /\ jobs[j].state = "absent"
    /\ InOrder => \A i \in Rows : i < j => jobs[i].state # "absent"
    /\ LaneOf[t] \notin erased
    /\ ~Requested(t, c)
    /\ jobs' = [jobs EXCEPT ![j] = Queued(@, t, c)]
    /\ UNCHANGED <<held, stage, erased, writes>>

-----------------------------------------------------------------------------
(***************************************************************************)
(* claim_reflect_jobs, one transaction: dead-letter exhausted jobs, take   *)
(* back the lanes whose leases ran out, lock the candidate lanes, and      *)
(* claim what is first in them.  J stands for the table after the previous *)
(* statement.                                                              *)
(***************************************************************************)
DeadLetterNever(J) == J         \* mutant: no job is given up

DeadLetter(J) ==
    [j \in Rows |-> IF Open(J[j]) /\ J[j].attempts >= MaxAttempts
                      THEN To(J[j], "dead") ELSE J[j]]

\* order by tenant_id, agent.id limit p_limit
FirstLanes(S) == {l \in S : Cardinality({m \in S : m < l}) < Limit}

StaleLanes(J) ==
    FirstLanes({l \in Lanes :
        /\ \E j \in Rows : Lane(J[j]) = l /\ Lapsed(J[j])
        /\ \A j \in Rows : Lane(J[j]) = l => ~Leased(J[j])})

ResetLanes(J, S) ==
    [j \in Rows |-> IF Open(J[j]) /\ Lane(J[j]) \in S
                      THEN Fenced(To(J[j], "queued")) ELSE J[j]]

Available(r) ==
    /\ r.state = "queued" \/ Lapsed(r)
    /\ r.attempts < MaxAttempts
    /\ r.wait = 0

BlocksLeased(r)  == Leased(r)                  \* mutant: a backing-off job blocks nobody
Blocks(r) == Open(r) /\ (r.wait > 0 \/ Leased(r))

\* the lanes whose advisory lock is taken
LockedLanes(J) == FirstLanes({l \in Lanes : \E j \in Rows : Lane(J[j]) = l /\ Available(J[j])})

Eligible(J, L) ==
    {j \in Rows :
        /\ Available(J[j])
        /\ Lane(J[j]) \in L
        /\ \A b \in Rows : Lane(J[b]) = Lane(J[j]) /\ Blocks(J[b]) => J[j].order < J[b].order}

\* row_number() over (partition by tenant_id order by queue_order)
Rank(J, E, j) ==
    Cardinality({i \in E : /\ TenantOf[Lane(J[i])] = TenantOf[Lane(J[j])]
                           /\ J[i].order < J[j].order})

Before(J, E, i, j) == \/ Rank(J, E, i) < Rank(J, E, j)
                      \/ Rank(J, E, i) = Rank(J, E, j) /\ J[i].order < J[j].order

Chosen(J, E) == {j \in E : Cardinality({i \in E : Before(J, E, i, j)}) < Limit}

Claimed(J, C) == [j \in Rows |-> IF j \in C
                                   THEN [To(J[j], "running") EXCEPT !.attempts = @ + 1]
                                   ELSE J[j]]

TokenOf(j, r) == [job |-> j, lane |-> Lane(r), compiler |-> r.compiler, pos |-> r.order,
                  attempts |-> r.attempts, gen |-> r.gen]

\* A worker starts a tick once the previous one is over.
Claim(w) ==
    /\ held[w] = {}
    /\ \E D \in {DeadLetter(jobs)} : \E J \in {ResetLanes(D, StaleLanes(D))} :
       \E C \in {Chosen(J, Eligible(J, LockedLanes(J)))} :
          /\ jobs' = Claimed(J, C)
          /\ held' = [held EXCEPT ![w] = {TokenOf(j, Claimed(J, C)[j]) : j \in C}]
    /\ UNCHANGED <<stage, erased, writes>>

-----------------------------------------------------------------------------
(***************************************************************************)
(* run_worker_tick_scoped: lanes run concurrently, the jobs of a lane one  *)
(* after the other in queue order.                                         *)
(***************************************************************************)
InLane(w, l) == {t \in held[w] : t.lane = l}

IsHead(w, t) == t \in held[w] /\ \A u \in InLane(w, t.lane) : t.pos =< u.pos

At(w, t, s) == IsHead(w, t) /\ stage[w][t.lane] = s

Goto(w, t, s) == stage' = [stage EXCEPT ![w][t.lane] = s] /\ UNCHANGED held

\* Done with this job: on to the next one, or release the rest of the lane.
Leave(w, t, s) ==
    /\ held' = [held EXCEPT ![w] = @ \ {t}]
    /\ stage' = [stage EXCEPT ![w][t.lane] = IF InLane(w, t.lane) = {t} THEN "start" ELSE s]

Outdated(w, t) == LiveCompiler[w] # NoProvider /\ t.compiler # LiveCompiler[w]

\* requeue_reflect_job_with_compiler: a job bound to another compiler identity
\* moves to the live one, or gives its place to the row that already has it.
Twins(t, c) == {i \in Rows \ {t.job} : /\ Present(jobs[i])
                                       /\ jobs[i].target = jobs[t.job].target
                                       /\ jobs[i].compiler = c}

Superseded(r)   == [Fenced(To(r, "dead")) EXCEPT !.result = "null"]
Rebound(r, c)   == [Fenced(To(r, "queued")) EXCEPT !.compiler = c, !.wait = 0, !.attempts = 0,
                                                   !.result = "null"]
Promoted(r, o)  == [r EXCEPT !.order = IF o < @ THEN o ELSE @]

Requeued(t, c) ==
    [j \in Rows |->
        IF j = t.job THEN IF Twins(t, c) # {} THEN Superseded(jobs[j]) ELSE Rebound(jobs[j], c)
        ELSE IF j \in Twins(t, c) THEN Promoted(jobs[j], jobs[t.job].order)
        ELSE jobs[j]]

RequeueWithCompiler(w, t) ==
    /\ At(w, t, "start")
    /\ Outdated(w, t)
    /\ jobs[t.job].gen < MaxGen
    /\ jobs' = IF Owns(t) THEN Requeued(t, LiveCompiler[w]) ELSE jobs
    /\ Leave(w, t, "blocked")
    /\ UNCHANGED <<erased, writes>>

\* resolve_job_context and fetch_prepared_structured_state: without a stored
\* preparation for this very claim, the provider has to be called (and paid).
FetchedNothing(t) == FALSE        \* mutant: the stored preparation is not found
FetchedPrepared(t) == Matches(t) /\ Open(jobs[t.job]) /\ jobs[t.job].result = "prepared"

BeginPrepare(w, t) ==
    /\ At(w, t, "start")
    /\ ~Outdated(w, t)
    /\ Goto(w, t, IF t.lane \in erased THEN "release"
                  ELSE IF LiveCompiler[w] = NoProvider \/ FetchedPrepared(t) THEN "compile"
                  ELSE "extract")
    /\ UNCHANGED <<jobs, erased, writes>>

\* The provider answered: store_prepared_structured_state.
StorePrepared(w, t) ==
    /\ At(w, t, "extract")
    /\ jobs' = IF Owns(t) /\ jobs[t.job].result = "null"
                 THEN [jobs EXCEPT ![t.job].result = "prepared"] ELSE jobs
    /\ Goto(w, t, "compile")
    /\ UNCHANGED <<erased, writes>>

\* stage_compiled_units under the row lock.  A stale claim commits nothing, and the
\* compiler does not tell its caller; a row that is gone or has another compiler
\* identity is a conflict (StepFails).
CompiledOpen(r) == r              \* mutant: the units are written, the job is left open
Compiled(r) == [To(r, "done") EXCEPT !.result = "completed"]

CompileCommit(w, t) ==
    /\ At(w, t, "compile")
    /\ Found(t)
    /\ IF Owns(t) /\ jobs[t.job].result # "completed"
         THEN /\ jobs' = [jobs EXCEPT ![t.job] = Compiled(@)]
              /\ writes' = [writes EXCEPT ![<<jobs[t.job].target, t.compiler>>] = @ + 1]
         ELSE UNCHANGED <<jobs, writes>>
    /\ Goto(w, t, "crosscheck")
    /\ UNCHANGED erased

\* compile_job returns early: the source is gone or holds nothing to compile,
\* or another claim of this row has already completed it.
NothingToCompile(w, t) ==
    /\ At(w, t, "compile")
    /\ Goto(w, t, "complete")
    /\ UNCHANGED <<jobs, erased, writes>>

\* run_capture_crosscheck succeeded.
Crosschecked(w, t) ==
    /\ At(w, t, "crosscheck")
    /\ Goto(w, t, "complete")
    /\ UNCHANGED <<jobs, erased, writes>>

\* complete_reflect_job
Complete(w, t) ==
    /\ At(w, t, "complete")
    /\ jobs' = IF Owns(t) THEN [jobs EXCEPT ![t.job] = To(@, "done")] ELSE jobs
    /\ Leave(w, t, "start")
    /\ UNCHANGED <<erased, writes>>

\* A step fails before the job is settled.  Requeuing is not such a step: an error
\* there ends the lane (AbandonLane).
Failing(w, t, stages) ==
    /\ \E s \in stages : At(w, t, s)
    /\ ~(stage[w][t.lane] = "start" /\ Outdated(w, t))
    /\ UNCHANGED <<jobs, erased, writes>>

\* A store error, a conflict or a panic: to be released with backoff.
StepFails(w, t) ==
    /\ Failing(w, t, {"start", "extract", "compile", "crosscheck"})
    /\ Goto(w, t, "release")

\* is_terminal_provider_error: the provider is unavailable or its output invalid.
ProviderFails(w, t) ==
    /\ LiveCompiler[w] # NoProvider
    /\ Failing(w, t, {"start", "extract", "compile"})
    /\ Goto(w, t, "fail")

Released(t, delay) ==
    IF Owns(t) THEN [jobs EXCEPT ![t.job] = [To(@, "queued") EXCEPT !.wait = delay]] ELSE jobs

\* release_reflect_job after an error, with backoff
Release(w, t) ==
    /\ At(w, t, "release")
    /\ jobs' = Released(t, Backoff[t.attempts])
    /\ Leave(w, t, "blocked")
    /\ UNCHANGED <<erased, writes>>

\* release_reflect_job of the jobs behind a failed one
ReleaseBlocked(w, t) ==
    /\ At(w, t, "blocked")
    /\ jobs' = Released(t, 0)
    /\ Leave(w, t, "blocked")
    /\ UNCHANGED <<erased, writes>>

\* fail_reflect_job
Fail(w, t) ==
    /\ At(w, t, "fail")
    /\ jobs' = IF Owns(t) THEN [jobs EXCEPT ![t.job] = To(@, "dead")] ELSE jobs
    /\ Leave(w, t, "blocked")
    /\ UNCHANGED <<erased, writes>>

-----------------------------------------------------------------------------
\* A queue statement of the lane fails: the lane's future returns early and its
\* remaining claims are left to their leases.
AbandonLane(w, l) ==
    /\ InLane(w, l) # {}
    /\ held' = [held EXCEPT ![w] = @ \ InLane(w, l)]
    /\ stage' = [stage EXCEPT ![w][l] = "start"]
    /\ UNCHANGED <<jobs, erased, writes>>

\* The process dies; its successor starts with an empty tick.
Crash(w) ==
    /\ held[w] # {}
    /\ held' = [held EXCEPT ![w] = {}]
    /\ stage' = [stage EXCEPT ![w] = [l \in Lanes |-> "start"]]
    /\ UNCHANGED <<jobs, erased, writes>>

\* erase_subject deletes the subject row; its jobs go with it (on delete cascade).
EraseSubject(l) ==
    /\ l \notin erased
    /\ erased' = erased \cup {l}
    /\ jobs' = [j \in Rows |-> IF Present(jobs[j]) /\ Lane(jobs[j]) = l
                                 THEN [To(jobs[j], "erased") EXCEPT !.wait = 0] ELSE jobs[j]]
    /\ UNCHANGED <<held, stage, writes>>

Aged(r) == [r EXCEPT !.age  = IF r.state = "running" /\ @ =< Lease THEN @ + 1 ELSE @,
                     !.wait = IF @ > 0 THEN @ - 1 ELSE 0]

Tick ==
    /\ jobs' = [j \in Rows |-> Aged(jobs[j])]
    /\ UNCHANGED <<held, stage, erased, writes>>

Step(w, t) ==
    \/ RequeueWithCompiler(w, t) \/ BeginPrepare(w, t) \/ StorePrepared(w, t)
    \/ CompileCommit(w, t) \/ NothingToCompile(w, t) \/ Crosschecked(w, t)
    \/ Complete(w, t) \/ Release(w, t) \/ ReleaseBlocked(w, t) \/ Fail(w, t)
    \/ StepFails(w, t) \/ ProviderFails(w, t)

Next ==
    \/ \E j \in Rows, t \in Targets, c \in Compilers : Enqueue(j, t, c)
    \/ \E w \in Workers : Claim(w) \/ Crash(w)
    \/ \E w \in Workers : \E t \in held[w] : Step(w, t)
    \/ \E w \in Workers, l \in Lanes : AbandonLane(w, l)
    \/ \E l \in Lanes : EraseSubject(l)
    \/ Tick

Spec == Init /\ [][Next]_vars

-----------------------------------------------------------------------------
\* The compiled output of a source is committed at most once per compiler identity,
\* however often its job is claimed, lost, reclaimed or requeued
\* (stage_compiled_units: "one compilation per (job_id, compiler_version)").
CompileAtMostOnce == \A k \in Targets \X Compilers : writes[k] =< 1

\* A row is owned by at most one worker: once a lapsed or requeued job has been claimed
\* again, no statement of the former owner matches it (attempts and claim_generation).
AtMostOneOwner ==
    \A v, w \in Workers : v # w =>
        \A s \in held[v], t \in held[w] : Owns(s) /\ Owns(t) => s.job # t.job

Working(w, t) == /\ IsHead(w, t) /\ Owns(t)
                 /\ stage[w][t.lane] \in {"start", "extract", "compile"}

\* A lane is processed serially: two workers are never both at work on jobs of the same
\* lane (the claim function's advisory lock comment: "Lanes are processed serially").
LaneIsSerial ==
    \A v, w \in Workers : v # w =>
        \A s \in held[v], t \in held[w] : Working(v, s) /\ Working(w, t) => s.lane # t.lane

\* Jobs of a lane compile in queue order: when a job's output is committed no earlier job
\* of the lane is still open (blocked tails are released "for ordered redelivery").
CompilesInLaneOrder ==
    [][\A j \in Rows :
         jobs[j].result # "completed" /\ jobs'[j].result = "completed" =>
           \A i \in Rows : Lane(jobs[i]) = Lane(jobs[j]) /\ jobs[i].order < jobs[j].order
                            => ~Open(jobs[i])]_vars

\* A settled job stays settled until its subject is erased: no late release, failure,
\* requeue or lane reset revives a done or dead row.
SettledIsFinal ==
    [][\A j \in Rows : jobs[j].state \in {"done", "dead"} =>
                          jobs'[j].state \in {jobs[j].state, "erased"}]_vars

\* The provider is not paid twice: the owner of a job calls it only while no preparation
\* is stored, also after a release, a lapsed lease or a worker crash.
PaidOnce ==
    \A w \in Workers : \A t \in held[w] :
        At(w, t, "extract") /\ Owns(t) => jobs[t.job].result = "null"

\* Every job is settled in the end, whatever fails: it is compiled, dead-lettered or
\* erased, provided workers keep ticking.
EveryJobSettles ==
    \A j \in Rows : Open(jobs[j]) ~> ~Open(jobs[j])

=============================================================================
