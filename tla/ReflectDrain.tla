--------------------------- MODULE ReflectDrain ---------------------------
(***************************************************************************)
(* A worker in drain mode beside the rest of the fleet.  It takes a        *)
(* baseline of the dead-letter count, then ticks until drain_finished says *)
(* that the queue is empty or that jobs were dead-lettered meanwhile.  The *)
(* baseline and the two counts are separate queries.                       *)
(***************************************************************************)
EXTENDS ReflectQueue

CONSTANT Drainer    \* the worker in drain mode

ASSUME DrainerAssumption == Drainer \in Workers

VARIABLES
    drain,      \* where the drain loop stands
    baseline,   \* dead_letters_before
    pending,    \* the pending count of this round
    backlog,    \* history: rows open when the drain began
    before,     \* history: rows dead when the drain began
    lost        \* history: rows dead-lettered while the drain ran

drainVars == <<drain, baseline, pending, backlog, before>>
allVars   == <<vars, drainVars, lost>>

DrainTypeOK ==
    /\ TypeOK
    /\ drain \in {"off", "tick", "working", "counted", "drained", "failed"}
    /\ baseline \in Nat /\ pending \in Nat
    /\ backlog \subseteq Rows /\ before \subseteq Rows /\ lost \subseteq Rows

DrainInit ==
    /\ Init
    /\ drain = "off" /\ baseline = 0 /\ pending = 0
    /\ backlog = {} /\ before = {} /\ lost = {}

dead_letter_count        == Cardinality({j \in Rows : jobs[j].state = "dead"})
pending_worker_job_count == Cardinality({j \in Rows : Open(jobs[j])})

Running == drain \in {"tick", "working", "counted"}

\* The history follows every step.
Records ==
    lost' = IF Running
              THEN lost \cup {j \in Rows : jobs[j].state # "dead" /\ jobs'[j].state = "dead"}
              ELSE lost

Baseline ==
    /\ drain = "off"
    /\ drain' = "tick"
    /\ baseline' = dead_letter_count
    /\ backlog' = {j \in Rows : Open(jobs[j])}
    /\ before' = {j \in Rows : jobs[j].state = "dead"}
    /\ UNCHANGED <<vars, pending>>

DrainTick ==
    /\ drain = "tick"
    /\ Claim(Drainer)
    /\ drain' = "working"
    /\ UNCHANGED <<baseline, pending, backlog, before>>

CountPending ==
    /\ drain = "working" /\ held[Drainer] = {}
    /\ drain' = "counted"
    /\ pending' = pending_worker_job_count
    /\ UNCHANGED <<vars, baseline, backlog, before>>

\* Mutant: only the pending count matters.
DecideOnPending ==
    /\ drain = "counted"
    /\ drain' = IF pending = 0 THEN "drained" ELSE "tick"
    /\ UNCHANGED <<vars, baseline, pending, backlog, before>>

\* The dead-letter count, then drain_finished.
Decide ==
    /\ drain = "counted"
    /\ drain' = IF dead_letter_count > baseline THEN "failed"
                ELSE IF pending = 0 THEN "drained" ELSE "tick"
    /\ UNCHANGED <<vars, baseline, pending, backlog, before>>

\* Everybody else: requests, the other workers, the drain worker's own tick, time.
Others ==
    \/ \E j \in Rows, t \in Targets, c \in Compilers : Enqueue(j, t, c)
    \/ \E w \in Workers \ {Drainer} : Claim(w) \/ Crash(w)
    \/ \E w \in Workers : \E t \in held[w] : Step(w, t)
    \/ \E l \in Lanes : EraseSubject(l)
    \/ Tick

DrainStep == Baseline \/ DrainTick \/ CountPending \/ Decide

DrainNext == (DrainStep \/ (Others /\ UNCHANGED drainVars)) /\ Records

\* Only the drain loop itself and time are certain to go on: the rest of the fleet may
\* stop at any moment.
DrainFairness ==
    /\ WF_allVars(DrainStep /\ Records)
    /\ WF_allVars((\E t \in held[Drainer] : Step(Drainer, t)) /\ UNCHANGED drainVars /\ Records)
    /\ WF_allVars(Tick /\ UNCHANGED drainVars /\ Records)

DrainSpec == DrainInit /\ [][DrainNext]_allVars /\ DrainFairness

-----------------------------------------------------------------------------
Erased(S) == {j \in S : jobs[j].state = "erased"}

\* A drain that reports success has seen every job of its backlog settled (the retry of a
\* released job is waited for, "a zero-completion tick is NOT proof of an empty queue"),
\* and a job dead-lettered while it ran escapes it only if the erasure of a subject took
\* away an older dead letter, one for one: the totals are compared, not the rows
\* (drain_finished: a dead-lettered job "is silently-dropped work, not a drained queue").
DrainedIsHonest ==
    drain = "drained" =>
        /\ \A j \in backlog : ~Open(jobs[j])
        /\ Cardinality(lost \ Erased(lost)) <= Cardinality(Erased(before))

\* A drain ends, in success or in failure, even if the other workers crash or stop in the
\* middle of a tick: their leases run out and the drain worker takes the jobs over.
DrainEnds == drain = "tick" ~> drain \in {"drained", "failed"}

\* The other workers go on as well: they never stop ticking and finish their ticks.
FleetKeepsTicking ==
    \A w \in Workers \ {Drainer} :
        /\ WF_allVars(Claim(w) /\ UNCHANGED drainVars /\ Records)
        /\ WF_allVars((\E t \in held[w] : Step(w, t)) /\ UNCHANGED drainVars /\ Records)

\* Every job is settled in the end, whatever fails, also those enqueued when the drain is
\* over: it is compiled, dead-lettered or erased, provided the other workers keep ticking.
JobsSettle == FleetKeepsTicking => EveryJobSettles
=============================================================================
