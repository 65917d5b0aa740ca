------------------------ MODULE ReflectQueueProofs ------------------------
(***************************************************************************)
(* Proofs about the reflect queue, for any number of workers, rows, lanes, *)
(* targets and compiler identities, any lease, batch size and backoff,     *)
(* and about the drain mode of the worker, which runs on the same queue.   *)
(***************************************************************************)
EXTENDS ReflectDrain, FiniteSetTheorems, TLAPS

-----------------------------------------------------------------------------
(***************************************************************************)
(* What the row operators return.                                          *)
(***************************************************************************)

\* A row that changes state or is fenced is a row, and nothing else about it changes.
LEMMA ToType ==
    ASSUME NEW r \in Row, NEW s \in States
    PROVE  /\ To(r, s) \in Row
           /\ To(r, s).state = s /\ To(r, s).age = 0
           /\ To(r, s).target = r.target /\ To(r, s).compiler = r.compiler
           /\ To(r, s).order = r.order /\ To(r, s).attempts = r.attempts
           /\ To(r, s).gen = r.gen /\ To(r, s).wait = r.wait /\ To(r, s).result = r.result
<1> DEFINE a == [r EXCEPT !.state = s]
<1>1. a \in Row
  BY DEF Row
<1>2. To(r, s) = [a EXCEPT !.age = 0]
  BY DEF To
<1> HIDE DEF a
<1>3. To(r, s) \in Row
  BY <1>1, <1>2, BoundsAssumption DEF BoundsAssumption, Row
<1> QED BY <1>3 DEF To, Row

\* Fencing a row raises claim_generation and nothing else.
LEMMA FencedType ==
    ASSUME NEW r \in Row
    PROVE  /\ Fenced(r) \in Row
           /\ Fenced(r).gen = r.gen + 1
           /\ Fenced(r).state = r.state /\ Fenced(r).age = r.age
           /\ Fenced(r).target = r.target /\ Fenced(r).compiler = r.compiler
           /\ Fenced(r).order = r.order /\ Fenced(r).attempts = r.attempts
           /\ Fenced(r).wait = r.wait /\ Fenced(r).result = r.result
BY DEF Fenced, Row

\* A row as enqueue_reflect inserts it.
LEMMA QueuedType ==
    ASSUME NEW r \in Row, NEW t \in Targets, NEW c \in Compilers
    PROVE  /\ Queued(r, t, c) \in Row
           /\ Queued(r, t, c).state = "queued" /\ Queued(r, t, c).result = r.result
           /\ Queued(r, t, c).target = t /\ Queued(r, t, c).compiler = c
           /\ Queued(r, t, c).order = r.order
           /\ Queued(r, t, c).attempts = r.attempts /\ Queued(r, t, c).gen = r.gen
<1>1. "queued" \in States
  BY DEF States
<1> DEFINE a == To(r, "queued")
           b == [a EXCEPT !.target = t]
<1>2. /\ a \in Row /\ a.state = "queued" /\ a.result = r.result /\ a.order = r.order
      /\ a.attempts = r.attempts /\ a.gen = r.gen
  BY <1>1, ToType
<1>3. Queued(r, t, c) = [b EXCEPT !.compiler = c]
  BY DEF Queued
<1> HIDE DEF a
<1>4. /\ b \in Row /\ b.target = t /\ b.state = a.state /\ b.result = a.result
      /\ b.order = a.order /\ b.attempts = a.attempts /\ b.gen = a.gen
  BY <1>2 DEF Row
<1> HIDE DEF b
<1> QED BY <1>2, <1>3, <1>4 DEF Row

\* An erased row: deleted with its subject (stage_subject_erasure).
LEMMA ErasedType ==
    ASSUME NEW r \in Row
    PROVE  LET e == [To(r, "erased") EXCEPT !.wait = 0]
           IN  /\ e \in Row /\ e.state = "erased" /\ e.result = r.result
               /\ e.target = r.target /\ e.compiler = r.compiler /\ e.order = r.order
               /\ e.attempts = r.attempts /\ e.gen = r.gen
<1>1. "erased" \in States
  BY DEF States
<1> QED BY <1>1, ToType DEF Row

\* Committing a compiled result (stage_compiled_units).
LEMMA CompiledType ==
    ASSUME NEW r \in Row
    PROVE  /\ Compiled(r) \in Row
           /\ Compiled(r).state = "done" /\ Compiled(r).result = "completed"
           /\ Compiled(r).target = r.target /\ Compiled(r).compiler = r.compiler
           /\ Compiled(r).order = r.order /\ Compiled(r).attempts = r.attempts
           /\ Compiled(r).gen = r.gen
<1>1. "done" \in States
  BY DEF States
<1> QED BY <1>1, ToType DEF Compiled, Row, Results

\* Requeuing under another compiler identity (requeue_reflect_job_with_compiler).
LEMMA SupersededType ==
    ASSUME NEW r \in Row
    PROVE  /\ Superseded(r) \in Row
           /\ Superseded(r).state = "dead" /\ Superseded(r).result = "null"
           /\ Superseded(r).target = r.target /\ Superseded(r).compiler = r.compiler
           /\ Superseded(r).order = r.order /\ Superseded(r).attempts = r.attempts
           /\ Superseded(r).gen = r.gen + 1
<1>1. "dead" \in States
  BY DEF States
<1> DEFINE a == Fenced(To(r, "dead"))
<1>2. /\ a \in Row
      /\ a.state = "dead" /\ a.gen = r.gen + 1
      /\ a.target = r.target /\ a.compiler = r.compiler
      /\ a.order = r.order /\ a.attempts = r.attempts
  BY <1>1, ToType, FencedType
<1>3. Superseded(r) = [a EXCEPT !.result = "null"]
  BY DEF Superseded
<1> HIDE DEF a
<1> QED BY <1>2, <1>3 DEF Row, Results

\* A job requeued under another compiler identity is queued, without a preparation, one
\* generation on, and still has its source and its place.
LEMMA ReboundType ==
    ASSUME NEW r \in Row, NEW c \in Compilers
    PROVE  /\ Rebound(r, c) \in Row
           /\ Rebound(r, c).state = "queued" /\ Rebound(r, c).result = "null"
           /\ Rebound(r, c).target = r.target /\ Rebound(r, c).compiler = c
           /\ Rebound(r, c).order = r.order /\ Rebound(r, c).gen = r.gen + 1
<1>1. "queued" \in States
  BY DEF States
<1> DEFINE a == Fenced(To(r, "queued"))
           b == [a EXCEPT !.compiler = c]
           d == [b EXCEPT !.wait = 0]
           e == [d EXCEPT !.attempts = 0]
<1>2. /\ a \in Row
      /\ a.state = "queued" /\ a.gen = r.gen + 1
      /\ a.target = r.target /\ a.order = r.order
  BY <1>1, ToType, FencedType
<1>3. Rebound(r, c) = [e EXCEPT !.result = "null"]
  BY DEF Rebound
<1> HIDE DEF a
<1>4. b \in Row /\ b.compiler = c /\ b.state = a.state /\ b.gen = a.gen
       /\ b.target = a.target /\ b.order = a.order
  BY <1>2 DEF Row
<1> HIDE DEF b
<1>5. d \in Row /\ d.compiler = b.compiler /\ d.state = b.state /\ d.gen = b.gen
       /\ d.target = b.target /\ d.order = b.order
  BY <1>4 DEF Row
<1> HIDE DEF d
<1>6. e \in Row /\ e.compiler = d.compiler /\ e.state = d.state /\ e.gen = d.gen
       /\ e.target = d.target /\ e.order = d.order
  BY <1>5, BoundsAssumption DEF Row, BoundsAssumption
<1> HIDE DEF e
<1> QED BY <1>2, <1>3, <1>4, <1>5, <1>6 DEF Row, Results

\* Handing a place on to the twin row changes nothing but its order.
LEMMA PromotedType ==
    ASSUME NEW r \in Row, NEW o \in Rows
    PROVE  /\ Promoted(r, o) \in Row
           /\ Promoted(r, o).order \in {o, r.order}
           /\ Promoted(r, o).state = r.state /\ Promoted(r, o).result = r.result
           /\ Promoted(r, o).target = r.target /\ Promoted(r, o).compiler = r.compiler
           /\ Promoted(r, o).attempts = r.attempts /\ Promoted(r, o).gen = r.gen
BY DEF Promoted, Row

\* Time passing.
LEMMA AgedType ==
    ASSUME NEW r \in Row
    PROVE  /\ Aged(r) \in Row
           /\ Aged(r).state = r.state /\ Aged(r).result = r.result
           /\ Aged(r).target = r.target /\ Aged(r).compiler = r.compiler
           /\ Aged(r).order = r.order
           /\ Aged(r).attempts = r.attempts /\ Aged(r).gen = r.gen
<1> DEFINE a == [r EXCEPT !.age = IF r.state = "running" /\ @ =< Lease THEN @ + 1 ELSE @]
<1>1. a \in Row /\ a.wait = r.wait
  BY BoundsAssumption DEF BoundsAssumption, Row
<1>2. Aged(r) = [a EXCEPT !.wait = IF @ > 0 THEN @ - 1 ELSE 0]
  BY DEF Aged, Row
<1> HIDE DEF a
<1>3. Aged(r) \in Row
  BY <1>1, <1>2 DEF Row
<1> QED BY <1>3 DEF Aged, Row

-----------------------------------------------------------------------------
(***************************************************************************)
(* What the claim function does to the table: the three updates, and their *)
(* composition.  Only open rows change; identity, order and result never.  *)
(***************************************************************************)

SameJob(r, s) == /\ s.target = r.target /\ s.compiler = r.compiler
                 /\ s.order = r.order /\ s.result = r.result

\* Dead-lettering leaves settled rows and the versions of all rows alone.
LEMMA DeadLetterEffect ==
    ASSUME NEW J \in [Rows -> Row]
    PROVE  /\ DeadLetter(J) \in [Rows -> Row]
           /\ \A j \in Rows :
                /\ SameJob(J[j], DeadLetter(J)[j])
                /\ DeadLetter(J)[j].gen = J[j].gen /\ DeadLetter(J)[j].attempts = J[j].attempts
                /\ ~Open(J[j]) => DeadLetter(J)[j] = J[j]
                /\ Open(J[j]) => DeadLetter(J)[j].state \in {J[j].state, "dead"}
<1>1. "dead" \in States
  BY DEF States
<1>2. \A j \in Rows : J[j] \in Row
  OBVIOUS
<1> QED BY <1>1, <1>2, ToType DEF DeadLetter, SameJob, Open

\* Taking back lanes leaves settled rows alone and never lowers a generation.
LEMMA ResetLanesEffect ==
    ASSUME NEW J \in [Rows -> Row], NEW S
    PROVE  /\ ResetLanes(J, S) \in [Rows -> Row]
           /\ \A j \in Rows :
                /\ SameJob(J[j], ResetLanes(J, S)[j])
                /\ ResetLanes(J, S)[j].gen >= J[j].gen
                /\ ResetLanes(J, S)[j].attempts = J[j].attempts
                /\ ~Open(J[j]) => ResetLanes(J, S)[j] = J[j]
                /\ Open(J[j]) => ResetLanes(J, S)[j].state \in {J[j].state, "queued"}
<1>1. "queued" \in States
  BY DEF States
<1>2. \A j \in Rows : /\ J[j] \in Row /\ To(J[j], "queued") \in Row
                      /\ J[j].gen \in Nat
  BY <1>1, ToType DEF Row
<1>3. \A j \in Rows : LET f == Fenced(To(J[j], "queued"))
                      IN  /\ f \in Row /\ SameJob(J[j], f) /\ f.gen = J[j].gen + 1
                          /\ f.attempts = J[j].attempts /\ f.state = "queued"
  BY <1>1, <1>2, ToType, FencedType DEF SameJob
<1> QED BY <1>2, <1>3 DEF ResetLanes, SameJob

\* Claiming available rows makes them running, one attempt on.
LEMMA ClaimedEffect ==
    ASSUME NEW J \in [Rows -> Row], NEW C \in SUBSET {j \in Rows : Available(J[j])}
    PROVE  /\ Claimed(J, C) \in [Rows -> Row]
           /\ \A j \in Rows \ C : Claimed(J, C)[j] = J[j]
           /\ \A j \in C : /\ SameJob(J[j], Claimed(J, C)[j])
                           /\ Claimed(J, C)[j].gen = J[j].gen
                           /\ Claimed(J, C)[j].attempts = J[j].attempts + 1
                           /\ Claimed(J, C)[j].state = "running"
<1>1. "running" \in States
  BY DEF States
<1>2. \A j \in C : To(J[j], "running") \in Row /\ J[j] \in Row /\ J[j].attempts < MaxAttempts
  BY <1>1, ToType DEF Available
<1>3. ASSUME NEW j \in C
      PROVE  LET f == [To(J[j], "running") EXCEPT !.attempts = @ + 1]
             IN  /\ f \in Row /\ SameJob(J[j], f) /\ f.gen = J[j].gen
                 /\ f.attempts = J[j].attempts + 1 /\ f.state = "running"
  <2> DEFINE a == To(J[j], "running")
  <2>1. /\ a \in Row /\ SameJob(J[j], a) /\ a.gen = J[j].gen
        /\ a.attempts = J[j].attempts /\ a.state = "running" /\ a.attempts < MaxAttempts
    BY <1>1, <1>2, ToType DEF SameJob
  <2> HIDE DEF a
  <2>2. LET f == [a EXCEPT !.attempts = @ + 1]
        IN  /\ f \in Row /\ SameJob(a, f) /\ f.gen = a.gen
            /\ f.attempts = a.attempts + 1 /\ f.state = a.state
    BY <2>1, BoundsAssumption DEF Row, SameJob, BoundsAssumption
  <2> QED BY <2>1, <2>2 DEF SameJob, a
<1> QED BY <1>2, <1>3 DEF Claimed

\* Only available rows are chosen, and they are open.
LEMMA ChosenAvailable ==
    ASSUME NEW J, NEW L
    PROVE  /\ Chosen(J, Eligible(J, L)) \in SUBSET {j \in Rows : Available(J[j])}
           /\ \A j \in Chosen(J, Eligible(J, L)) : Open(J[j])
BY DEF Chosen, Eligible, Available, Open, Lapsed

\* The claims C of a worker tick: new tokens for open rows whose attempts go up, while
\* every other row keeps its attempts and no generation goes down.
ClaimRows(w, C) ==
    /\ jobs' \in [Rows -> Row]
    /\ held' = [held EXCEPT ![w] = {TokenOf(j, jobs'[j]) : j \in C}]
    /\ \A j \in Rows :
         /\ SameJob(jobs[j], jobs'[j])
         /\ jobs'[j].gen >= jobs[j].gen
         /\ ~Open(jobs[j]) => jobs'[j] = jobs[j]
         /\ Open(jobs[j]) => jobs'[j].state \in {"queued", "running", "dead"}
         /\ j \notin C => /\ jobs'[j].attempts = jobs[j].attempts
                          /\ jobs'[j].state = "running" => jobs[j].state = "running"
    /\ \A j \in C : Open(jobs[j]) /\ jobs'[j].attempts = jobs[j].attempts + 1

\* The table after the statements of the claim function, and the rows it hands out.
Swept     == DeadLetter(jobs)
TakenBack == ResetLanes(Swept, StaleLanes(Swept))
Taken     == Chosen(TakenBack, Eligible(TakenBack, LockedLanes(TakenBack)))

\* The whole claim transaction, in terms of the rows it hands out (claim_reflect_jobs).
LEMMA ClaimEffect ==
    ASSUME TypeOK, NEW w \in Workers, Claim(w)
    PROVE  Taken \in SUBSET Rows /\ ClaimRows(w, Taken)
<1> DEFINE D == Swept
           J == TakenBack
           C == Taken
           K == Claimed(J, C)
<1>1. jobs' = K /\ held' = [held EXCEPT ![w] = {TokenOf(j, K[j]) : j \in C}]
  BY DEF Claim, Swept, TakenBack, Taken
<1>2. jobs \in [Rows -> Row]
  BY DEF TypeOK
<1>3. /\ D \in [Rows -> Row]
      /\ \A j \in Rows :
           /\ SameJob(jobs[j], D[j]) /\ D[j].gen = jobs[j].gen /\ D[j].attempts = jobs[j].attempts
           /\ ~Open(jobs[j]) => D[j] = jobs[j]
           /\ Open(jobs[j]) => D[j].state \in {jobs[j].state, "dead"}
  BY <1>2, DeadLetterEffect DEF Swept
<1> HIDE DEF D
<1>4. /\ J \in [Rows -> Row]
      /\ \A j \in Rows :
           /\ SameJob(D[j], J[j]) /\ J[j].gen >= D[j].gen /\ J[j].attempts = D[j].attempts
           /\ ~Open(D[j]) => J[j] = D[j]
           /\ Open(D[j]) => J[j].state \in {D[j].state, "queued"}
  BY <1>3, ResetLanesEffect DEF TakenBack, D
<1> HIDE DEF J
<1>5. C \in SUBSET {j \in Rows : Available(J[j])} /\ \A j \in C : Open(J[j])
  BY ChosenAvailable DEF Taken, J
<1> HIDE DEF C
<1>6. /\ K \in [Rows -> Row]
      /\ \A j \in Rows \ C : K[j] = J[j]
      /\ \A j \in C : /\ SameJob(J[j], K[j]) /\ K[j].gen = J[j].gen
                      /\ K[j].attempts = J[j].attempts + 1 /\ K[j].state = "running"
  BY <1>4, <1>5, ClaimedEffect
<1> HIDE DEF K
<1>7. C \in SUBSET Rows
  BY <1>5
<1>8. \A j \in C : Open(jobs[j]) /\ K[j].attempts = jobs[j].attempts + 1
  BY <1>3, <1>4, <1>5, <1>6 DEF Open
<1>9. ASSUME NEW j \in Rows
      PROVE  /\ SameJob(jobs[j], K[j])
             /\ K[j].gen >= jobs[j].gen
             /\ ~Open(jobs[j]) => K[j] = jobs[j]
             /\ Open(jobs[j]) => K[j].state \in {"queued", "running", "dead"}
             /\ j \notin C => /\ K[j].attempts = jobs[j].attempts
                              /\ K[j].state = "running" => jobs[j].state = "running"
  <2>1. SameJob(jobs[j], J[j]) /\ J[j].gen >= jobs[j].gen /\ J[j].attempts = jobs[j].attempts
    BY <1>2, <1>3, <1>4 DEF SameJob, Row
  <2>2. /\ ~Open(jobs[j]) => J[j] = jobs[j]
        /\ Open(jobs[j]) => J[j].state \in {"queued", "running", "dead"}
        /\ J[j].state = "running" => jobs[j].state = "running"
    BY <1>3, <1>4 DEF Open
  <2>3. CASE j \in C
    BY <2>1, <2>2, <2>3, <1>6, <1>8 DEF SameJob
  <2>4. CASE j \notin C
    BY <2>1, <2>2, <2>4, <1>6
  <2> QED BY <2>3, <2>4
<1>10. ClaimRows(w, C)
  BY <1>1, <1>6, <1>8, <1>9 DEF ClaimRows
<1> QED BY <1>7, <1>10 DEF C

-----------------------------------------------------------------------------
(***************************************************************************)
(* Type correctness.                                                       *)
(***************************************************************************)

\* The empty table has its type.
LEMMA InitType == Init => TypeOK
<1> SUFFICES ASSUME Init PROVE TypeOK
  OBVIOUS
<1>1. (CHOOSE t \in Targets : TRUE) \in Targets /\ (CHOOSE c \in Compilers : TRUE) \in Compilers
  BY InputsAssumption DEF InputsAssumption
<1>2. jobs \in [Rows -> Row]
  BY <1>1, BoundsAssumption DEF Init, Row, States, Results, BoundsAssumption
<1> QED BY <1>2 DEF Init, TypeOK, Stages

\* Moving on within a job or to the next one keeps the worker's state well typed and
\* never adds a claim.
LEMMA MoveType ==
    ASSUME TypeOK, NEW w \in Workers, NEW t \in held[w], NEW s \in Stages,
           Goto(w, t, s) \/ Leave(w, t, s)
    PROVE  /\ held' \in [Workers -> SUBSET Token]
           /\ stage' \in [Workers -> [Lanes -> Stages]]
           /\ \A v \in Workers : held'[v] \subseteq held[v]
<1>1. t.lane \in Lanes
  BY DEF TypeOK, Token
<1>2. CASE Goto(w, t, s)
  BY <1>1, <1>2 DEF TypeOK, Goto
<1>3. CASE Leave(w, t, s)
  <2>1. "start" \in Stages
    BY DEF Stages
  <2> QED BY <1>1, <1>3, <2>1 DEF TypeOK, Leave
<1> QED BY <1>2, <1>3

\* The steps of a worker on a job, sorted by what they do to the table.
QuietStep(w, t)  == \/ BeginPrepare(w, t) \/ NothingToCompile(w, t) \/ Crosschecked(w, t)
                    \/ StepFails(w, t) \/ ProviderFails(w, t)
SettleStep(w, t) == \/ StorePrepared(w, t) \/ Complete(w, t) \/ Fail(w, t)
                    \/ Release(w, t) \/ ReleaseBlocked(w, t)

\* Every step of a job either moves its lane to a stage or is done with the job.
LEMMA StepMoves ==
    ASSUME TypeOK, NEW w \in Workers, NEW t \in held[w], Step(w, t)
    PROVE  \E s \in Stages : Goto(w, t, s) \/ Leave(w, t, s)
BY DEF Step, RequeueWithCompiler, BeginPrepare, StorePrepared, CompileCommit, NothingToCompile,
       Crosschecked, Complete, Release, ReleaseBlocked, Fail, StepFails, ProviderFails, Stages

\* What the owner of a claim may write into its row without compiling or requeuing it.
SettledRow(r, s) ==
    /\ s \in Row
    /\ s.target = r.target /\ s.compiler = r.compiler /\ s.order = r.order
    /\ s.gen = r.gen /\ s.attempts = r.attempts
    /\ s.state \in {"queued", "running", "done", "dead"}
    /\ s.result = r.result \/ (r.result = "null" /\ s.result = "prepared")

\* A step that settles, releases or prepares a job writes its own row, and only as its owner.
LEMMA SettleEffect ==
    ASSUME TypeOK, NEW w \in Workers, NEW t \in held[w], SettleStep(w, t)
    PROVE  /\ UNCHANGED <<erased, writes>>
           /\ \/ jobs' = jobs
              \/ Owns(t) /\ \E s : SettledRow(jobs[t.job], s) /\ jobs' = [jobs EXCEPT ![t.job] = s]
<1> DEFINE r == jobs[t.job]
<1>1. r \in Row /\ t.attempts \in 1..MaxAttempts
  BY DEF TypeOK, Token
<1>2. {"queued", "running", "done", "dead"} \subseteq States
  BY DEF States
<1> HIDE DEF r
<1>3. ASSUME NEW s \in {"queued", "done", "dead"} PROVE SettledRow(r, To(r, s))
  <2>1. s \in States
    BY <1>2
  <2> QED BY <1>1, <2>1, ToType DEF SettledRow
<1>4. \A d \in Nat : SettledRow(r, [To(r, "queued") EXCEPT !.wait = d])
  <2> DEFINE a == To(r, "queued")
  <2>1. SettledRow(r, a) /\ a.state = "queued"
    BY <1>1, <1>2, <1>3, ToType
  <2> HIDE DEF a
  <2>2. \A d \in Nat : SettledRow(r, [a EXCEPT !.wait = d])
    BY <2>1 DEF SettledRow, Row
  <2> QED BY <2>2 DEF a
<1> USE DEF r
<1>5. CASE StorePrepared(w, t)
  <2>1. r.state = "running" /\ r.result = "null" => SettledRow(r, [r EXCEPT !.result = "prepared"])
    BY <1>1 DEF SettledRow, Row, Results
  <2> QED BY <1>5, <2>1 DEF StorePrepared, Owns
<1>6. CASE Complete(w, t)
  BY <1>3, <1>6 DEF Complete
<1>7. CASE Fail(w, t)
  BY <1>3, <1>7 DEF Fail
<1>8. CASE Release(w, t)
  <2>1. Backoff[t.attempts] \in Nat
    BY <1>1, BackoffAssumption DEF BackoffAssumption
  <2> QED BY <1>4, <1>8, <2>1 DEF Release, Released
<1>9. CASE ReleaseBlocked(w, t)
  BY <1>4, <1>9 DEF ReleaseBlocked, Released
<1> QED BY <1>5, <1>6, <1>7, <1>8, <1>9 DEF SettleStep

\* The row a requeue leaves behind.
LEMMA RequeueEffect ==
    ASSUME TypeOK, NEW t \in Token, NEW c \in Compilers
    PROVE  /\ Requeued(t, c) \in [Rows -> Row]
           /\ \A j \in Rows \ {t.job} :
                LET r == jobs[j]  s == Requeued(t, c)[j]
                IN  /\ s.target = r.target /\ s.compiler = r.compiler /\ s.result = r.result
                    /\ s.state = r.state /\ s.gen = r.gen /\ s.attempts = r.attempts
           /\ LET r == jobs[t.job]  s == Requeued(t, c)[t.job]
              IN  /\ s.target = r.target /\ s.result = "null" /\ s.gen = r.gen + 1
                  /\ \/ s.state = "dead" /\ s.compiler = r.compiler
                     \/ s.state = "queued" /\ s.compiler = c /\ Twins(t, c) = {}
<1>1. t.job \in Rows /\ jobs \in [Rows -> Row] /\ jobs[t.job].order \in Rows
  BY DEF TypeOK, Token, Row
<1>2. \A j \in Rows : LET p == Promoted(jobs[j], jobs[t.job].order) IN
        /\ p \in Row /\ p.target = jobs[j].target /\ p.compiler = jobs[j].compiler
        /\ p.result = jobs[j].result /\ p.state = jobs[j].state
        /\ p.gen = jobs[j].gen /\ p.attempts = jobs[j].attempts
  BY <1>1, PromotedType
<1>3. Requeued(t, c)[t.job] = IF Twins(t, c) # {} THEN Superseded(jobs[t.job])
                                                 ELSE Rebound(jobs[t.job], c)
  BY <1>1 DEF Requeued
<1>4. \A j \in Rows \ {t.job} : Requeued(t, c)[j] \in {jobs[j], Promoted(jobs[j], jobs[t.job].order)}
  BY <1>1 DEF Requeued
<1>5. /\ Superseded(jobs[t.job]) \in Row /\ Rebound(jobs[t.job], c) \in Row
  BY <1>1, SupersededType, ReboundType
<1>6. Requeued(t, c) \in [Rows -> Row]
  BY <1>1, <1>2, <1>5 DEF Requeued
<1>7. LET r == jobs[t.job]  s == Requeued(t, c)[t.job]
      IN  /\ s.target = r.target /\ s.result = "null" /\ s.gen = r.gen + 1
          /\ \/ s.state = "dead" /\ s.compiler = r.compiler
             \/ s.state = "queued" /\ s.compiler = c /\ Twins(t, c) = {}
  BY <1>1, <1>3, SupersededType, ReboundType
<1> QED BY <1>2, <1>4, <1>6, <1>7

\* The steps of a job keep the type.
LEMMA StepType ==
    ASSUME TypeOK, NEW w \in Workers, NEW t \in held[w], Step(w, t)
    PROVE  TypeOK'
<1>1. t \in Token /\ t.job \in Rows /\ t.compiler \in Compilers
  BY DEF TypeOK, Token
<1>2. held' \in [Workers -> SUBSET Token] /\ stage' \in [Workers -> [Lanes -> Stages]]
  BY StepMoves, MoveType
<1>3. ASSUME jobs' \in [Rows -> Row], erased' = erased, writes' \in [Targets \X Compilers -> Nat]
      PROVE  TypeOK'
  BY <1>2, <1>3 DEF TypeOK
<1>4. CASE QuietStep(w, t)
  BY <1>3, <1>4 DEF TypeOK, QuietStep, BeginPrepare, NothingToCompile, Crosschecked, StepFails,
                    ProviderFails, Failing
<1>5. CASE SettleStep(w, t)
  BY <1>1, <1>3, <1>5, SettleEffect DEF TypeOK, SettledRow
<1>6. CASE RequeueWithCompiler(w, t)
  <2>1. LiveCompiler[w] \in Compilers
    BY <1>6, CompilerAssumption DEF RequeueWithCompiler, Outdated, CompilerAssumption
  <2> QED BY <1>1, <1>3, <1>6, <2>1, RequeueEffect DEF RequeueWithCompiler, TypeOK
<1>7. CASE CompileCommit(w, t)
  <2>1. jobs \in [Rows -> Row] /\ jobs[t.job] \in Row /\ jobs[t.job].target \in Targets
    BY <1>1 DEF TypeOK, Row
  <2>2. jobs' \in [Rows -> Row]
    BY <1>1, <1>7, <2>1, CompiledType DEF CompileCommit
  <2>3. writes' \in [Targets \X Compilers -> Nat]
    <3> DEFINE k == <<jobs[t.job].target, t.compiler>>
    <3>1. k \in Targets \X Compilers
      BY <1>1, <2>1
    <3>2. writes' = writes \/ writes' = [writes EXCEPT ![k] = @ + 1]
      BY <1>7 DEF CompileCommit
    <3> HIDE DEF k
    <3> QED BY <3>1, <3>2 DEF TypeOK
  <2> QED BY <1>3, <1>7, <2>2, <2>3 DEF CompileCommit
<1> QED BY <1>4, <1>5, <1>6, <1>7 DEF Step, QuietStep, SettleStep

\* A claimed row yields a claim.
LEMMA TokenOfType ==
    ASSUME NEW j \in Rows, NEW r \in Row, r.attempts >= 1
    PROVE  TokenOf(j, r) \in Token
BY BoundsAssumption, LaneOfAssumption
   DEF TokenOf, Token, Row, Lane, BoundsAssumption, LaneOfAssumption

\* The claim transaction keeps the type.
LEMMA ClaimType ==
    ASSUME TypeOK, NEW w \in Workers, Claim(w)
    PROVE  TypeOK'
<1>1. PICK C \in SUBSET Rows : ClaimRows(w, C)
  BY ClaimEffect
<1>2. \A j \in C : TokenOf(j, jobs'[j]) \in Token
  <2> SUFFICES ASSUME NEW j \in C PROVE TokenOf(j, jobs'[j]) \in Token
    OBVIOUS
  <2>1. jobs'[j] \in Row /\ jobs'[j].attempts >= 1
    BY <1>1 DEF ClaimRows, TypeOK, Row
  <2> QED BY <2>1, TokenOfType
<1>3. {TokenOf(j, jobs'[j]) : j \in C} \in SUBSET Token
  BY <1>2
<1>4. held' \in [Workers -> SUBSET Token]
  BY <1>1, <1>3 DEF ClaimRows, TypeOK
<1> QED BY <1>1, <1>4 DEF ClaimRows, TypeOK, Claim

\* Every step keeps the type.
LEMMA NextType == TypeOK /\ [Next]_vars => TypeOK'
<1> SUFFICES ASSUME TypeOK, [Next]_vars PROVE TypeOK'
  OBVIOUS
<1>1. ASSUME NEW j \in Rows, NEW t \in Targets, NEW c \in Compilers, Enqueue(j, t, c)
      PROVE  TypeOK'
  BY <1>1, QueuedType DEF Enqueue, TypeOK
<1>2. ASSUME NEW w \in Workers, Crash(w)
      PROVE  TypeOK'
  BY <1>2 DEF Crash, TypeOK, Stages
<1>3. ASSUME NEW w \in Workers, NEW l \in Lanes, AbandonLane(w, l)
      PROVE  TypeOK'
  BY <1>3 DEF AbandonLane, TypeOK, Stages
<1>4. ASSUME NEW l \in Lanes, EraseSubject(l)
      PROVE  TypeOK'
  <2>1. \A j \in Rows : [To(jobs[j], "erased") EXCEPT !.wait = 0] \in Row
    BY ErasedType DEF TypeOK
  <2> QED BY <1>4, <2>1 DEF EraseSubject, TypeOK
<1>5. CASE Tick
  BY <1>5, AgedType DEF Tick, TypeOK
<1>6. CASE UNCHANGED vars
  BY <1>6 DEF vars, TypeOK
<1> QED BY <1>1, <1>2, <1>3, <1>4, <1>5, <1>6, ClaimType, StepType DEF Next

\* Every reachable state of the queue is well typed: in particular no row is ever claimed
\* more than MaxAttempts times between two requeues (JOB_DEAD_LETTER_ATTEMPTS).
THEOREM TypeCorrect == Spec => []TypeOK
BY InitType, NextType, PTL DEF Spec

-----------------------------------------------------------------------------
(***************************************************************************)
(* The inductive invariant.  The table part says why a second compilation  *)
(* of the same source cannot commit; the token part why a former owner's   *)
(* claim no longer matches.                                                *)
(***************************************************************************)

\* The unique index: one present row per target and compiler identity.
UniqueRows ==
    \A i, j \in Rows :
        /\ Present(jobs[i]) /\ Present(jobs[j])
        /\ jobs[i].target = jobs[j].target /\ jobs[i].compiler = jobs[j].compiler
        => i = j

\* A completed result is only ever found on a settled row.
CompletedIsSettled ==
    \A j \in Rows : jobs[j].result = "completed" => jobs[j].state \in {"done", "erased"}

\* An erased lane has no rows left, and deleted rows belong to erased lanes.
ErasedLanes ==
    \A j \in Rows : /\ Present(jobs[j]) => Lane(jobs[j]) \notin erased
                    /\ jobs[j].state = "erased" => Lane(jobs[j]) \in erased

\* A compilation that was committed is on record.
WrittenIsRecorded ==
    \A t \in Targets, c \in Compilers :
        /\ writes[<<t, c>>] =< 1
        /\ writes[<<t, c>>] = 1 =>
             \E j \in Rows : /\ jobs[j].result = "completed"
                             /\ jobs[j].target = t /\ jobs[j].compiler = c

\* No claim is ahead of its row, in the lexicographic order of (gen, attempts).
Advanced(r, s) == r.gen < s.gen \/ (r.gen = s.gen /\ r.attempts =< s.attempts)

TokensBehind == \A w \in Workers : \A t \in held[w] : Advanced(t, jobs[t.job])

\* No two workers hold the same claim.
TokensDiffer ==
    \A v, w \in Workers : v # w =>
        \A s \in held[v], t \in held[w] :
            s.job = t.job => s.gen # t.gen \/ s.attempts # t.attempts

TableInv == UniqueRows /\ CompletedIsSettled /\ ErasedLanes /\ WrittenIsRecorded
TokenInv == TokensBehind /\ TokensDiffer
QueueInv == TypeOK /\ TableInv /\ TokenInv

-----------------------------------------------------------------------------
(***************************************************************************)
(* What a step does to the rows.  Most steps are mild: settled rows stay,  *)
(* open rows change state or get a preparation, versions go up.            *)
(***************************************************************************)
Mild(r, s) ==
    /\ s.target = r.target /\ s.compiler = r.compiler /\ s.order = r.order
    /\ Advanced(r, s)
    /\ Open(r)  => /\ s.state \in {"queued", "running", "done", "dead"}
                   /\ s.result = r.result \/ (r.result = "null" /\ s.result = "prepared")
    /\ ~Open(r) => s.state = r.state /\ s.result = r.result

MildStep == (\A j \in Rows : Mild(jobs[j], jobs'[j])) /\ UNCHANGED <<erased, writes>>

CommitStep(t) ==
    /\ Owns(t) /\ jobs[t.job].result # "completed"
    /\ jobs' = [jobs EXCEPT ![t.job] = Compiled(@)]
    /\ writes' = [writes EXCEPT ![<<jobs[t.job].target, t.compiler>>] = @ + 1]
    /\ erased' = erased

RequeueStep(t, c) ==
    Owns(t) /\ jobs' = Requeued(t, c) /\ UNCHANGED <<erased, writes>>

\* A step that does not touch the table is mild.
LEMMA UnchangedIsMild ==
    ASSUME TypeOK, UNCHANGED <<jobs, erased, writes>>
    PROVE  MildStep
BY DEF MildStep, Mild, Advanced, TypeOK, Row, Open

\* A step of a job is mild, a compile commit or a requeue.
LEMMA StepRows ==
    ASSUME TypeOK, NEW w \in Workers, NEW t \in held[w], Step(w, t)
    PROVE  \/ MildStep
           \/ CommitStep(t)
           \/ \E c \in Compilers : RequeueStep(t, c)
<1>1. jobs \in [Rows -> Row] /\ t.job \in Rows /\ jobs[t.job] \in Row
  BY DEF TypeOK, Token
<1>2. CASE QuietStep(w, t)
  <2>1. UNCHANGED <<jobs, erased, writes>>
    BY <1>2 DEF QuietStep, BeginPrepare, NothingToCompile, Crosschecked, StepFails,
                ProviderFails, Failing
  <2> QED BY <2>1, UnchangedIsMild
<1>3. CASE SettleStep(w, t)
  <2>1. UNCHANGED <<erased, writes>>
    BY <1>3, SettleEffect
  <2>2. CASE jobs' = jobs
    BY <2>1, <2>2, UnchangedIsMild
  <2>3. ASSUME NEW s, Owns(t), SettledRow(jobs[t.job], s), jobs' = [jobs EXCEPT ![t.job] = s]
        PROVE  MildStep
    <3>1. Mild(jobs[t.job], s)
      BY <1>1, <2>3 DEF Mild, SettledRow, Advanced, Owns, Open, Row
    <3>2. \A j \in Rows \ {t.job} : jobs'[j] = jobs[j] /\ Mild(jobs[j], jobs[j])
      BY <1>1, <2>3 DEF Mild, Advanced, Open, Row
    <3>3. jobs'[t.job] = s
      BY <1>1, <2>3
    <3> QED BY <2>1, <3>1, <3>2, <3>3 DEF MildStep
  <2> QED BY <1>3, <2>2, <2>3, SettleEffect
<1>4. CASE RequeueWithCompiler(w, t)
  <2>1. LiveCompiler[w] \in Compilers
    BY <1>4, CompilerAssumption DEF RequeueWithCompiler, Outdated, CompilerAssumption
  <2>2. CASE Owns(t)
    BY <1>4, <2>1, <2>2 DEF RequeueWithCompiler, RequeueStep
  <2>3. CASE ~Owns(t)
    BY <1>4, <2>3, UnchangedIsMild DEF RequeueWithCompiler
  <2> QED BY <2>2, <2>3
<1>5. CASE CompileCommit(w, t)
  <2>1. CASE Owns(t) /\ jobs[t.job].result # "completed"
    BY <1>5, <2>1 DEF CompileCommit, CommitStep
  <2>2. CASE ~(Owns(t) /\ jobs[t.job].result # "completed")
    BY <1>5, <2>2, UnchangedIsMild DEF CompileCommit
  <2> QED BY <2>1, <2>2
<1> QED BY <1>2, <1>3, <1>4, <1>5 DEF Step, QuietStep, SettleStep

\* The claim transaction is mild: it settles exhausted rows and moves open ones.
LEMMA ClaimIsMild ==
    ASSUME TypeOK, NEW w \in Workers, Claim(w)
    PROVE  MildStep
<1>1. PICK C \in SUBSET Rows : ClaimRows(w, C)
  BY ClaimEffect
<1>2. ASSUME NEW j \in Rows PROVE Mild(jobs[j], jobs'[j])
  <2>1. jobs[j] \in Row /\ jobs'[j] \in Row
    BY <1>1 DEF ClaimRows, TypeOK
  <2>2. SameJob(jobs[j], jobs'[j]) /\ jobs'[j].gen >= jobs[j].gen
        /\ jobs'[j].attempts >= jobs[j].attempts
    BY <1>1, <2>1 DEF ClaimRows, Row
  <2>3. Advanced(jobs[j], jobs'[j])
    BY <2>1, <2>2 DEF Advanced, Row
  <2> QED BY <1>1, <2>2, <2>3 DEF ClaimRows, SameJob, Mild
<1> QED BY <1>2 DEF MildStep, Claim

\* The passing of time is mild.
LEMMA TickIsMild ==
    ASSUME TypeOK, Tick
    PROVE  MildStep
<1>1. ASSUME NEW j \in Rows PROVE Mild(jobs[j], jobs'[j])
  <2>1. jobs[j] \in Row /\ jobs'[j] = Aged(jobs[j])
    BY DEF Tick, TypeOK
  <2> QED BY <2>1, AgedType DEF Mild, Advanced, Open, Row
<1> QED BY <1>1 DEF MildStep, Tick

-----------------------------------------------------------------------------
(***************************************************************************)
(* The table part is preserved.                                            *)
(***************************************************************************)
RecordKept ==
    \A j \in Rows : jobs[j].result = "completed" => /\ jobs'[j].result = "completed"
                                                    /\ jobs'[j].target = jobs[j].target
                                                    /\ jobs'[j].compiler = jobs[j].compiler

\* As long as completed rows keep their record, what was written stays on record.
LEMMA RecordsStay ==
    ASSUME WrittenIsRecorded, RecordKept, writes' = writes
    PROVE  WrittenIsRecorded'
<1> SUFFICES ASSUME NEW t \in Targets, NEW c \in Compilers
             PROVE  /\ writes'[<<t, c>>] =< 1
                    /\ writes'[<<t, c>>] = 1 =>
                         \E j \in Rows : /\ jobs'[j].result = "completed"
                                         /\ jobs'[j].target = t /\ jobs'[j].compiler = c
  BY Zenon DEF WrittenIsRecorded
<1>1. writes[<<t, c>>] =< 1
  BY DEF WrittenIsRecorded
<1>2. ASSUME writes[<<t, c>>] = 1
      PROVE  \E j \in Rows : /\ jobs'[j].result = "completed"
                             /\ jobs'[j].target = t /\ jobs'[j].compiler = c
  <2>1. PICK j \in Rows : /\ jobs[j].result = "completed"
                          /\ jobs[j].target = t /\ jobs[j].compiler = c
    BY <1>2 DEF WrittenIsRecorded
  <2> QED BY <2>1 DEF RecordKept
<1> QED BY <1>1, <1>2

\* Mild steps keep the table part of the invariant.
LEMMA MildTable ==
    ASSUME TypeOK, TypeOK', TableInv, MildStep
    PROVE  TableInv'
<1> USE DEF TableInv
<1>1. \A j \in Rows : jobs'[j].target = jobs[j].target /\ jobs'[j].compiler = jobs[j].compiler
  BY DEF MildStep, Mild
<1>2. \A j \in Rows : Present(jobs'[j]) => Present(jobs[j])
  BY DEF MildStep, Mild, Present, Open
<1>3. \A j \in Rows : jobs'[j].result = "completed" <=> jobs[j].result = "completed"
  BY DEF MildStep, Mild, CompletedIsSettled, Open
<1>4. UniqueRows'
  BY <1>1, <1>2 DEF UniqueRows
<1>5. CompletedIsSettled'
  BY <1>3 DEF CompletedIsSettled, MildStep, Mild, Open
<1>6. ErasedLanes'
  BY <1>1, <1>2 DEF ErasedLanes, MildStep, Mild, Lane, Open
<1>7. WrittenIsRecorded'
  BY <1>1, <1>3, RecordsStay DEF RecordKept, MildStep
<1> QED BY <1>4, <1>5, <1>6, <1>7

\* The owner of an open row finds no earlier compilation on record: the recorded row would
\* be this one, which is still running, or belong to an erased lane.
LEMMA NotWrittenYet ==
    ASSUME TypeOK, TableInv, NEW t \in Token, Owns(t)
    PROVE  writes[<<jobs[t.job].target, t.compiler>>] = 0
<1> DEFINE r == jobs[t.job]
<1>1. /\ t.job \in Rows /\ r \in Row /\ r.target \in Targets /\ t.compiler \in Compilers
      /\ Present(r) /\ r.compiler = t.compiler /\ r.state = "running"
  BY DEF Owns, Matches, Found, TypeOK, Token, Row
<1>2. <<r.target, t.compiler>> \in Targets \X Compilers
  BY <1>1
<1>3. writes[<<r.target, t.compiler>>] \in Nat
  BY <1>2 DEF TypeOK
<1>4. ASSUME NEW j \in Rows, jobs[j].result = "completed",
             jobs[j].target = r.target, jobs[j].compiler = t.compiler
      PROVE  FALSE
  <2>1. jobs[j].state \in {"done", "erased"}
    BY <1>4 DEF TableInv, CompletedIsSettled
  <2>2. CASE jobs[j].state = "done"
    BY <1>1, <1>4, <2>2 DEF TableInv, UniqueRows, Present
  <2>3. CASE jobs[j].state = "erased"
    BY <1>1, <1>4, <2>3 DEF TableInv, ErasedLanes, Lane
  <2> QED BY <2>1, <2>2, <2>3
<1> QED BY <1>1, <1>3, <1>4 DEF TableInv, WrittenIsRecorded

\* A compile commit keeps the table part: the unique index and CompletedIsSettled leave
\* no earlier write of the same source and compiler (NotWrittenYet).
LEMMA CommitTable ==
    ASSUME TypeOK, TypeOK', TableInv, NEW t \in Token, CommitStep(t)
    PROVE  TableInv'
<1> DEFINE r == jobs[t.job]
<1>1. /\ t.job \in Rows /\ r \in Row /\ r.target \in Targets /\ t.compiler \in Compilers
      /\ Present(r) /\ r.compiler = t.compiler /\ r.state = "running"
  BY DEF CommitStep, Owns, Matches, Found, TypeOK, Token, Row
<1>2. /\ jobs'[t.job].state = "done" /\ jobs'[t.job].result = "completed"
      /\ jobs'[t.job].target = r.target /\ jobs'[t.job].compiler = r.compiler
      /\ \A j \in Rows \ {t.job} : jobs'[j] = jobs[j]
  BY <1>1, CompiledType DEF CommitStep, TypeOK
<1>3. UniqueRows'
  BY <1>1, <1>2 DEF TableInv, UniqueRows, Present
<1>4. CompletedIsSettled'
  BY <1>1, <1>2 DEF TableInv, CompletedIsSettled
<1>5. ErasedLanes'
  BY <1>1, <1>2 DEF TableInv, ErasedLanes, Present, Lane, CommitStep
<1>6. WrittenIsRecorded'
  <2> DEFINE k == <<r.target, t.compiler>>
  <2>1. k \in Targets \X Compilers /\ writes[k] = 0
    BY <1>1, NotWrittenYet DEF CommitStep
  <2>2. writes' = [writes EXCEPT ![k] = @ + 1]
    BY DEF CommitStep
  <2> SUFFICES ASSUME NEW u \in Targets, NEW c \in Compilers
               PROVE  /\ writes'[<<u, c>>] =< 1
                      /\ writes'[<<u, c>>] = 1 =>
                           \E j \in Rows : /\ jobs'[j].result = "completed"
                                           /\ jobs'[j].target = u /\ jobs'[j].compiler = c
    BY DEF WrittenIsRecorded
  <2>3. CASE u = r.target /\ c = t.compiler
    <3>1. <<u, c>> = k
      BY <2>3
    <3> HIDE DEF k
    <3>2. writes'[k] = 1
      BY <2>1, <2>2 DEF TypeOK
    <3> QED BY <1>1, <1>2, <2>3, <3>1, <3>2
  <2>4. CASE ~(u = r.target /\ c = t.compiler)
    <3>1. <<u, c>> # k
      BY <2>4
    <3> HIDE DEF k
    <3>2. writes'[<<u, c>>] = writes[<<u, c>>]
      BY <2>1, <2>2, <3>1 DEF TypeOK
    <3>3. \A j \in Rows : jobs[j].result = "completed" => /\ jobs'[j].result = "completed"
                                                          /\ jobs'[j].target = jobs[j].target
                                                          /\ jobs'[j].compiler = jobs[j].compiler
      BY <1>1, <1>2
    <3> QED BY <3>2, <3>3 DEF TableInv, WrittenIsRecorded
  <2> QED BY <2>3, <2>4
<1> QED BY <1>3, <1>4, <1>5, <1>6 DEF TableInv

\* A requeue keeps the table part: without a twin the new identity is free, with one the
\* row is dead-lettered under its old identity.
LEMMA RequeueTable ==
    ASSUME TypeOK, TypeOK', TableInv, NEW t \in Token, NEW c \in Compilers, RequeueStep(t, c)
    PROVE  TableInv'
<1> DEFINE r == jobs[t.job]
           s == jobs'[t.job]
<1>1. t.job \in Rows /\ r \in Row /\ Present(r) /\ r.state = "running"
  BY DEF RequeueStep, Owns, Matches, Found, TypeOK, Token
<1>2. /\ s.target = r.target /\ s.result = "null"
      /\ \/ s.state = "dead" /\ s.compiler = r.compiler
         \/ s.state = "queued" /\ s.compiler = c /\ Twins(t, c) = {}
  BY RequeueEffect DEF RequeueStep
<1>3. \A j \in Rows \ {t.job} : /\ jobs'[j].target = jobs[j].target
                                /\ jobs'[j].compiler = jobs[j].compiler
                                /\ jobs'[j].result = jobs[j].result
                                /\ jobs'[j].state = jobs[j].state
  BY RequeueEffect DEF RequeueStep
<1>4. r.result # "completed"
  BY <1>1 DEF TableInv, CompletedIsSettled
<1> HIDE DEF r, s
<1>5. UniqueRows'
  <2>1. ASSUME NEW j \in Rows \ {t.job}, Present(jobs[j]), s.state # "absent",
               jobs[j].target = s.target, jobs[j].compiler = s.compiler
        PROVE  FALSE
    <3>1. CASE s.compiler = r.compiler /\ s.state = "dead"
      BY <1>1, <1>2, <2>1, <3>1 DEF TableInv, UniqueRows, r
    <3>2. CASE s.compiler = c /\ Twins(t, c) = {}
      BY <1>1, <1>2, <2>1, <3>2 DEF Twins, r
    <3> QED BY <1>2, <3>1, <3>2
  <2>2. \A j \in Rows \ {t.job} : Present(jobs'[j]) => Present(jobs[j])
    BY <1>3 DEF Present
  <2>3. s.state # "absent"
    BY <1>2
  <2> QED BY <1>1, <1>3, <2>1, <2>2, <2>3 DEF TableInv, UniqueRows, s
<1>6. CompletedIsSettled'
  BY <1>1, <1>2, <1>3 DEF TableInv, CompletedIsSettled, s
<1>7. ErasedLanes'
  BY <1>1, <1>2, <1>3 DEF TableInv, ErasedLanes, Present, Lane, RequeueStep, r, s
<1>8. WrittenIsRecorded'
  <2>1. RecordKept
    BY <1>3, <1>4 DEF RecordKept, r
  <2> QED BY <2>1, RecordsStay DEF TableInv, RequeueStep
<1> QED BY <1>5, <1>6, <1>7, <1>8 DEF TableInv

\* An insert keeps the table part: on conflict do nothing.
LEMMA EnqueueTable ==
    ASSUME TypeOK, TypeOK', TableInv,
           NEW j \in Rows, NEW t \in Targets, NEW c \in Compilers, Enqueue(j, t, c)
    PROVE  TableInv'
<1>1. /\ jobs[j] \in Row /\ jobs[j].state = "absent" /\ LaneOf[t] \notin erased
      /\ \A i \in Rows \ {j} : jobs'[i] = jobs[i]
      /\ jobs'[j] = Queued(jobs[j], t, c)
      /\ UNCHANGED <<erased, writes>>
  BY DEF Enqueue, TypeOK
<1>2. /\ jobs'[j].state = "queued" /\ jobs'[j].result = jobs[j].result
      /\ jobs'[j].target = t /\ jobs'[j].compiler = c
  BY <1>1, QueuedType
<1>3. jobs[j].result # "completed"
  BY <1>1 DEF TableInv, CompletedIsSettled
<1>4. UniqueRows'
  <2>1. \A i \in Rows : Present(jobs[i]) => ~(jobs[i].target = t /\ jobs[i].compiler = c)
    BY DEF Enqueue, Requested
  <2> QED BY <1>1, <1>2, <2>1 DEF TableInv, UniqueRows, Present
<1>5. CompletedIsSettled'
  BY <1>1, <1>2, <1>3 DEF TableInv, CompletedIsSettled
<1>6. ErasedLanes'
  BY <1>1, <1>2 DEF TableInv, ErasedLanes, Present, Lane
<1>7. WrittenIsRecorded'
  BY <1>1, <1>3, RecordsStay DEF TableInv, RecordKept
<1> QED BY <1>4, <1>5, <1>6, <1>7 DEF TableInv

\* The erasure of a subject keeps the table part: its rows are gone, their record is history.
LEMMA EraseTable ==
    ASSUME TypeOK, TypeOK', TableInv, NEW l \in Lanes, EraseSubject(l)
    PROVE  TableInv'
<1>1. \A j \in Rows : /\ jobs'[j].target = jobs[j].target /\ jobs'[j].compiler = jobs[j].compiler
                      /\ jobs'[j].result = jobs[j].result
                      /\ jobs'[j].state = IF Present(jobs[j]) /\ Lane(jobs[j]) = l
                                            THEN "erased" ELSE jobs[j].state
  BY ErasedType DEF EraseSubject, TypeOK
<1>2. erased' = erased \cup {l} /\ writes' = writes
  BY DEF EraseSubject
<1>3. UniqueRows'
  BY <1>1 DEF TableInv, UniqueRows, Present
<1>4. CompletedIsSettled'
  BY <1>1 DEF TableInv, CompletedIsSettled
<1>5. ErasedLanes'
  BY <1>1, <1>2 DEF TableInv, ErasedLanes, Present, Lane
<1>6. WrittenIsRecorded'
  BY <1>1, <1>2, RecordsStay DEF TableInv, RecordKept
<1> QED BY <1>3, <1>4, <1>5, <1>6 DEF TableInv

-----------------------------------------------------------------------------
(***************************************************************************)
(* The token part is preserved: rows only advance, and a new claim is      *)
(* strictly ahead of every claim of the row handed out before.             *)
(***************************************************************************)
RowsAdvance == \A j \in Rows : Advanced(jobs[j], jobs'[j])

\* Versions are compared transitively.
LEMMA AdvancedTransitive ==
    ASSUME NEW t \in Token, NEW r \in Row, NEW s \in Row, Advanced(t, r), Advanced(r, s)
    PROVE  Advanced(t, s)
BY DEF Advanced, Token, Row

\* Steps that hand out no claims and never lower a version keep the claims behind their rows.
LEMMA TokensStay ==
    ASSUME TypeOK, TypeOK', TokenInv, RowsAdvance,
           \A v \in Workers : held'[v] \subseteq held[v]
    PROVE  TokenInv'
<1>1. TokensBehind'
  <2> SUFFICES ASSUME NEW w \in Workers, NEW t \in held[w]
               PROVE  Advanced(t, jobs'[t.job])
    BY DEF TokensBehind
  <2>1. t \in Token /\ t.job \in Rows /\ jobs[t.job] \in Row /\ jobs'[t.job] \in Row
    BY DEF TypeOK, Token
  <2>2. Advanced(t, jobs[t.job]) /\ Advanced(jobs[t.job], jobs'[t.job])
    BY <2>1 DEF TokenInv, TokensBehind, RowsAdvance
  <2> QED BY <2>1, <2>2, AdvancedTransitive
<1>2. TokensDiffer'
  BY DEF TokenInv, TokensDiffer
<1> QED BY <1>1, <1>2 DEF TokenInv

\* A new claim differs from every claim another worker still holds of the row: its
\* attempts or claim_generation are higher than theirs.
LEMMA ClaimTokens ==
    ASSUME TypeOK, TypeOK', TokenInv, NEW w \in Workers, Claim(w)
    PROVE  TokenInv'
<1>1. PICK C \in SUBSET Rows : ClaimRows(w, C)
  BY ClaimEffect
<1>2. RowsAdvance
  BY ClaimIsMild DEF MildStep, Mild, RowsAdvance
<1>3. /\ held'[w] = {TokenOf(j, jobs'[j]) : j \in C}
      /\ \A v \in Workers \ {w} : held'[v] = held[v]
  BY <1>1 DEF ClaimRows, TypeOK
<1>4. ASSUME NEW t \in held'[w]
      PROVE  /\ t.job \in C
             /\ t.gen = jobs'[t.job].gen /\ t.attempts = jobs'[t.job].attempts
  BY <1>3, <1>4 DEF TokenOf
<1>5. ASSUME NEW v \in Workers, NEW t \in held[v]
      PROVE  /\ t \in Token /\ t.job \in Rows /\ jobs[t.job] \in Row /\ jobs'[t.job] \in Row
             /\ Advanced(t, jobs[t.job]) /\ Advanced(t, jobs'[t.job])
  <2>1. t \in Token /\ t.job \in Rows /\ jobs[t.job] \in Row /\ jobs'[t.job] \in Row
    BY <1>5 DEF TypeOK, Token
  <2>2. Advanced(t, jobs[t.job]) /\ Advanced(jobs[t.job], jobs'[t.job])
    BY <1>2, <1>5, <2>1 DEF TokenInv, TokensBehind, RowsAdvance
  <2> QED BY <2>1, <2>2, AdvancedTransitive
<1>6. TokensBehind'
  <2> SUFFICES ASSUME NEW v \in Workers, NEW t \in held'[v]
               PROVE  Advanced(t, jobs'[t.job])
    BY DEF TokensBehind
  <2>1. CASE v = w
    <3>1. t.job \in Rows /\ jobs'[t.job] \in Row
      BY <1>4, <2>1 DEF TypeOK
    <3> QED BY <1>4, <2>1, <3>1 DEF Advanced, Row
  <2>2. CASE v # w
    BY <1>3, <1>5, <2>2
  <2> QED BY <2>1, <2>2
<1>7. ASSUME NEW v \in Workers \ {w}, NEW s \in held[v], NEW t \in held'[w], s.job = t.job
      PROVE  s.gen # t.gen \/ s.attempts # t.attempts
  <2>1. /\ Advanced(s, jobs[s.job]) /\ s \in Token
        /\ jobs[s.job] \in Row /\ jobs'[s.job] \in Row
    BY <1>5, <1>7
  <2>2. s.job \in C /\ t.gen = jobs'[s.job].gen /\ t.attempts = jobs'[s.job].attempts
    BY <1>4, <1>7
  <2>3. jobs'[s.job].attempts = jobs[s.job].attempts + 1 /\ jobs'[s.job].gen >= jobs[s.job].gen
    BY <1>1, <2>2 DEF ClaimRows
  <2> QED BY <2>1, <2>2, <2>3 DEF Advanced, Token, Row
<1>8. TokensDiffer'
  <2> SUFFICES ASSUME NEW u \in Workers, NEW v \in Workers, u # v,
                      NEW s \in held'[u], NEW t \in held'[v], s.job = t.job
               PROVE  s.gen # t.gen \/ s.attempts # t.attempts
    BY DEF TokensDiffer
  <2>1. CASE u = w
    BY <1>3, <1>7, <2>1
  <2>2. CASE v = w
    BY <1>3, <1>7, <2>2
  <2>3. CASE u # w /\ v # w
    BY <1>3, <2>3 DEF TokenInv, TokensDiffer
  <2> QED BY <2>1, <2>2, <2>3
<1> QED BY <1>6, <1>8 DEF TokenInv

\* A commit and a requeue advance the rows as well.
LEMMA CommitAdvances ==
    ASSUME TypeOK, NEW t \in Token, CommitStep(t)
    PROVE  RowsAdvance
<1>1. t.job \in Rows /\ jobs \in [Rows -> Row] /\ jobs[t.job] \in Row
  BY DEF TypeOK, Token
<1>2. jobs'[t.job] = Compiled(jobs[t.job]) /\ \A j \in Rows \ {t.job} : jobs'[j] = jobs[j]
  BY <1>1 DEF CommitStep
<1>3. Advanced(jobs[t.job], jobs'[t.job])
  BY <1>1, <1>2, CompiledType DEF Advanced, Row
<1>4. \A j \in Rows : Advanced(jobs[j], jobs[j])
  BY <1>1 DEF Advanced, Row
<1> QED BY <1>2, <1>3, <1>4 DEF RowsAdvance

\* A requeue resets attempts to 0 but raises claim_generation, so the version goes up.
LEMMA RequeueAdvances ==
    ASSUME TypeOK, NEW t \in Token, NEW c \in Compilers, RequeueStep(t, c)
    PROVE  RowsAdvance
<1>1. t.job \in Rows /\ jobs \in [Rows -> Row]
  BY DEF TypeOK, Token
<1>2. \A j \in Rows \ {t.job} : jobs'[j].gen = jobs[j].gen /\ jobs'[j].attempts = jobs[j].attempts
  BY RequeueEffect DEF RequeueStep
<1>3. jobs'[t.job].gen = jobs[t.job].gen + 1
  BY RequeueEffect DEF RequeueStep
<1> QED BY <1>1, <1>2, <1>3 DEF RowsAdvance, Advanced, Row

-----------------------------------------------------------------------------
(***************************************************************************)
(* The invariant holds.                                                    *)
(***************************************************************************)
LEMMA InitInv == Init => QueueInv
<1> SUFFICES ASSUME Init PROVE QueueInv
  OBVIOUS
<1>1. TypeOK
  BY InitType
<1>2. \A j \in Rows : jobs[j].state = "absent" /\ jobs[j].result = "null"
  BY DEF Init
<1>3. \A t \in Targets, c \in Compilers : writes[<<t, c>>] = 0
  BY DEF Init
<1>4. TableInv
  BY <1>2, <1>3 DEF TableInv, UniqueRows, CompletedIsSettled, ErasedLanes, WrittenIsRecorded, Present
<1>5. TokenInv
  BY DEF Init, TokenInv, TokensBehind, TokensDiffer
<1> QED BY <1>1, <1>4, <1>5 DEF QueueInv

\* The steps of a job keep the invariant.
LEMMA StepInv ==
    ASSUME QueueInv, TypeOK', NEW w \in Workers, NEW t \in held[w], Step(w, t)
    PROVE  TableInv' /\ TokenInv'
<1>1. TypeOK /\ TableInv /\ TokenInv /\ t \in Token
  BY DEF QueueInv, TypeOK
<1>2. \A v \in Workers : held'[v] \subseteq held[v]
  BY <1>1, StepMoves, MoveType
<1>3. CASE MildStep
  <2>1. RowsAdvance
    BY <1>3 DEF MildStep, Mild, RowsAdvance
  <2> QED BY <1>1, <1>2, <1>3, <2>1, MildTable, TokensStay
<1>4. CASE CommitStep(t)
  BY <1>1, <1>2, <1>4, CommitTable, CommitAdvances, TokensStay
<1>5. ASSUME NEW c \in Compilers, RequeueStep(t, c)
      PROVE  TableInv' /\ TokenInv'
  BY <1>1, <1>2, <1>5, RequeueTable, RequeueAdvances, TokensStay
<1> QED BY <1>1, <1>3, <1>4, <1>5, StepRows

\* Every step keeps the invariant.
LEMMA NextInv == QueueInv /\ [Next]_vars => QueueInv'
<1> SUFFICES ASSUME QueueInv, [Next]_vars PROVE QueueInv'
  OBVIOUS
<1>1. TypeOK /\ TypeOK' /\ TableInv /\ TokenInv
  BY NextType DEF QueueInv
<1> SUFFICES TableInv' /\ TokenInv'
  BY <1>1 DEF QueueInv
<1>2. ASSUME NEW j \in Rows, NEW t \in Targets, NEW c \in Compilers, Enqueue(j, t, c)
      PROVE  TableInv' /\ TokenInv'
  <2>1. RowsAdvance
    <3>1. jobs \in [Rows -> Row] /\ jobs' = [jobs EXCEPT ![j] = Queued(jobs[j], t, c)]
      BY <1>1, <1>2 DEF Enqueue, TypeOK
    <3>2. Advanced(jobs[j], Queued(jobs[j], t, c))
      BY <3>1, QueuedType DEF Advanced, Row
    <3>3. \A i \in Rows : Advanced(jobs[i], jobs[i])
      BY <3>1 DEF Advanced, Row
    <3> QED BY <3>1, <3>2, <3>3 DEF RowsAdvance
  <2>2. held' = held
    BY <1>2 DEF Enqueue
  <2> QED BY <1>1, <1>2, <2>1, <2>2, EnqueueTable, TokensStay
<1>3. ASSUME NEW w \in Workers, Claim(w)
      PROVE  TableInv' /\ TokenInv'
  BY <1>1, <1>3, ClaimIsMild, MildTable, ClaimTokens
<1>4. ASSUME NEW w \in Workers, Crash(w)
      PROVE  TableInv' /\ TokenInv'
  <2>1. UNCHANGED <<jobs, erased, writes>> /\ \A v \in Workers : held'[v] \subseteq held[v]
    BY <1>1, <1>4 DEF Crash, TypeOK
  <2>2. MildStep /\ RowsAdvance
    BY <1>1, <2>1, UnchangedIsMild DEF MildStep, Mild, RowsAdvance
  <2> QED BY <1>1, <2>1, <2>2, MildTable, TokensStay
<1>5. ASSUME NEW w \in Workers, NEW t \in held[w], Step(w, t)
      PROVE  TableInv' /\ TokenInv'
  BY <1>1, <1>5, StepInv
<1>6. ASSUME NEW w \in Workers, NEW l \in Lanes, AbandonLane(w, l)
      PROVE  TableInv' /\ TokenInv'
  <2>1. UNCHANGED <<jobs, erased, writes>> /\ \A v \in Workers : held'[v] \subseteq held[v]
    BY <1>1, <1>6 DEF AbandonLane, TypeOK
  <2>2. MildStep /\ RowsAdvance
    BY <1>1, <2>1, UnchangedIsMild DEF MildStep, Mild, RowsAdvance
  <2> QED BY <1>1, <2>1, <2>2, MildTable, TokensStay
<1>7. ASSUME NEW l \in Lanes, EraseSubject(l)
      PROVE  TableInv' /\ TokenInv'
  <2>1. \A j \in Rows : jobs'[j].gen = jobs[j].gen /\ jobs'[j].attempts = jobs[j].attempts
    BY <1>1, <1>7, ErasedType DEF EraseSubject, TypeOK
  <2>2. RowsAdvance
    BY <1>1, <2>1 DEF RowsAdvance, Advanced, TypeOK, Row
  <2>3. held' = held
    BY <1>7 DEF EraseSubject
  <2> QED BY <1>1, <1>7, <2>2, <2>3, EraseTable, TokensStay
<1>8. CASE Tick
  <2>1. MildStep /\ RowsAdvance /\ held' = held
    BY <1>1, <1>8, TickIsMild DEF MildStep, Mild, RowsAdvance, Tick
  <2> QED BY <1>1, <2>1, MildTable, TokensStay
<1>9. CASE UNCHANGED vars
  <2>1. UNCHANGED <<jobs, erased, writes>> /\ held' = held
    BY <1>9 DEF vars
  <2>2. MildStep /\ RowsAdvance
    BY <1>1, <2>1, UnchangedIsMild DEF MildStep, Mild, RowsAdvance
  <2> QED BY <1>1, <2>1, <2>2, MildTable, TokensStay
<1> QED BY <1>2, <1>3, <1>4, <1>5, <1>6, <1>7, <1>8, <1>9 DEF Next

\* The table and its claims stay consistent, for any fleet, any table and any bounds:
\* the unique index, one record per compiled write, no claim ahead of its row and no two
\* claims alike (claim_reflect_jobs, requeue_reflect_job_with_compiler).
THEOREM Invariance == Spec => []QueueInv
BY InitInv, NextInv, PTL DEF Spec

\* A source is compiled at most once per compiler identity, whatever the interleaving of
\* claims, lapsed leases, crashes, requeues and erasures (stage_compiled_units).
THEOREM CompiledOnce == Spec => []CompileAtMostOnce
<1>1. QueueInv => CompileAtMostOnce
  <2> SUFFICES ASSUME QueueInv, NEW k \in Targets \X Compilers PROVE writes[k] =< 1
    BY DEF CompileAtMostOnce
  <2>1. PICK t \in Targets, c \in Compilers : k = <<t, c>>
    OBVIOUS
  <2> QED BY <2>1 DEF QueueInv, TableInv, WrittenIsRecorded
<1> QED BY <1>1, Invariance, PTL

\* Two workers never own the same row: the fence on attempts and claim_generation stops
\* the former owner of a lapsed or requeued job (complete_reflect_job and its siblings).
THEOREM OwnerIsUnique == Spec => []AtMostOneOwner
<1>1. QueueInv => AtMostOneOwner
  BY DEF QueueInv, TokenInv, TokensDiffer, AtMostOneOwner, Owns, Matches
<1> QED BY <1>1, Invariance, PTL

\* A settled job stays settled until its subject is erased: no statement of a late worker
\* revives it (release_reflect_job, fail_reflect_job, the lane reset of the claim function).
THEOREM SettledStays == Spec => SettledIsFinal
<1> DEFINE Final == \A j \in Rows : jobs[j].state \in {"done", "dead"} =>
                                       jobs'[j].state \in {jobs[j].state, "erased"}
<1>1. ASSUME MildStep PROVE Final
  BY <1>1 DEF MildStep, Mild, Open
<1>2. ASSUME TypeOK, NEW w \in Workers, NEW t \in held[w], Step(w, t)
      PROVE  Final
  <2>1. t \in Token /\ t.job \in Rows /\ jobs \in [Rows -> Row]
    BY <1>2 DEF TypeOK, Token
  <2>2. CASE CommitStep(t)
    BY <2>1, <2>2 DEF CommitStep, Owns
  <2>3. ASSUME NEW c \in Compilers, RequeueStep(t, c)
        PROVE  Final
    BY <1>2, <2>1, <2>3, RequeueEffect DEF RequeueStep, Owns
  <2> QED BY <1>1, <1>2, <2>2, <2>3, StepRows
<1>3. ASSUME TypeOK, NEW j \in Rows, NEW t \in Targets, NEW c \in Compilers, Enqueue(j, t, c)
      PROVE  Final
  BY <1>3 DEF Enqueue, TypeOK
<1>4. ASSUME TypeOK, NEW l \in Lanes, EraseSubject(l)
      PROVE  Final
  BY <1>4, ErasedType DEF EraseSubject, TypeOK
<1>5. ASSUME TypeOK, UNCHANGED <<jobs, erased, writes>>
      PROVE  Final
  BY <1>1, <1>5, UnchangedIsMild
<1>6. TypeOK /\ Next => Final
  <2> SUFFICES ASSUME TypeOK, Next PROVE Final
    OBVIOUS
  <2>1. ASSUME NEW w \in Workers, Crash(w) PROVE Final
    BY <1>5, <2>1 DEF Crash
  <2>2. ASSUME NEW w \in Workers, NEW l \in Lanes, AbandonLane(w, l) PROVE Final
    BY <1>5, <2>2 DEF AbandonLane
  <2>3. ASSUME NEW w \in Workers, Claim(w) PROVE Final
    BY <1>1, <2>3, ClaimIsMild
  <2>4. CASE Tick
    BY <1>1, <2>4, TickIsMild
  <2> HIDE DEF Final
  <2> QED BY <1>2, <1>3, <1>4, <2>1, <2>2, <2>3, <2>4 DEF Next
<1>7. TypeOK /\ [Next]_vars => [Final]_vars
  BY <1>6
<1> QED BY <1>7, TypeCorrect, PTL DEF Spec, SettledIsFinal

-----------------------------------------------------------------------------
(***************************************************************************)
(* PaidOnce: the extraction provider is not called again for a job whose   *)
(* preparation is stored.  On top of QueueInv the argument needs that a    *)
(* worker never holds two claims of one row, and that the queue orders of  *)
(* open rows differ, so that the stage of a lane speaks of a single claim. *)
(***************************************************************************)

\* An absent row has its identity value as its order, and every order in use is the
\* identity value of a row that has been inserted.
OrdersUsed ==
    \A j \in Rows : /\ jobs[j].state = "absent" => jobs[j].order = j
                    /\ jobs[j].state # "absent" => jobs[jobs[j].order].state # "absent"

OpenOrdersDiffer ==
    \A i, j \in Rows : Open(jobs[i]) /\ Open(jobs[j]) /\ jobs[i].order = jobs[j].order => i = j

\* The claims of a worker are for different rows, at different places.
ClaimsDiffer ==
    \A w \in Workers : \A s, t \in held[w] : s.job = t.job \/ s.pos = t.pos => s = t

\* A lane without claims is at its start.
IdleAtStart ==
    \A w \in Workers, l \in Lanes : InLane(w, l) = {} => stage[w][l] = "start"

OrderInv   == OrdersUsed /\ OpenOrdersDiffer
WorkerInv  == ClaimsDiffer /\ IdleAtStart
PaymentInv == QueueInv /\ OrderInv /\ WorkerInv /\ PaidOnce

-----------------------------------------------------------------------------
(***************************************************************************)
(* Queue orders.                                                           *)
(***************************************************************************)

\* A step that keeps every order, inserts nothing and opens nothing keeps the orders right.
LEMMA OrdersKept ==
    ASSUME TypeOK, OrderInv,
           \A j \in Rows : /\ jobs'[j].order = jobs[j].order
                           /\ jobs'[j].state = "absent" <=> jobs[j].state = "absent"
                           /\ Open(jobs'[j]) => Open(jobs[j])
    PROVE  OrderInv'
<1>1. \A j \in Rows : jobs[j].order \in Rows
  BY DEF TypeOK, Row
<1>2. OrdersUsed'
  BY <1>1 DEF OrderInv, OrdersUsed
<1>3. OpenOrdersDiffer'
  BY DEF OrderInv, OpenOrdersDiffer
<1> QED BY <1>2, <1>3 DEF OrderInv

\* Mild steps keep the orders right.
LEMMA MildOrders ==
    ASSUME TypeOK, OrderInv, MildStep
    PROVE  OrderInv'
<1>1. \A j \in Rows : /\ jobs'[j].order = jobs[j].order
                      /\ jobs'[j].state = "absent" <=> jobs[j].state = "absent"
                      /\ Open(jobs'[j]) => Open(jobs[j])
  BY DEF MildStep, Mild, Open
<1> QED BY <1>1, OrdersKept

\* A compile commit keeps the orders right.
LEMMA CommitOrders ==
    ASSUME TypeOK, OrderInv, NEW t \in Token, CommitStep(t)
    PROVE  OrderInv'
<1>1. t.job \in Rows /\ jobs \in [Rows -> Row] /\ jobs[t.job] \in Row
  BY DEF TypeOK, Token
<1>2. jobs'[t.job] = Compiled(jobs[t.job]) /\ \A j \in Rows \ {t.job} : jobs'[j] = jobs[j]
  BY <1>1 DEF CommitStep
<1>3. /\ jobs'[t.job].order = jobs[t.job].order /\ jobs'[t.job].state = "done"
      /\ jobs[t.job].state = "running"
  BY <1>1, <1>2, CompiledType DEF CommitStep, Owns
<1>4. \A j \in Rows : /\ jobs'[j].order = jobs[j].order
                      /\ jobs'[j].state = "absent" <=> jobs[j].state = "absent"
                      /\ Open(jobs'[j]) => Open(jobs[j])
  BY <1>2, <1>3 DEF Open
<1> QED BY <1>4, OrdersKept

\* A twin inherits the order of the row it replaces, which is closed in the same step.
LEMMA RequeueOrders ==
    ASSUME TypeOK, OrderInv, UniqueRows, NEW t \in Token, NEW c \in Compilers, RequeueStep(t, c)
    PROVE  OrderInv'
<1> DEFINE o == jobs[t.job].order
<1>1. t.job \in Rows /\ jobs \in [Rows -> Row] /\ o \in Rows /\ jobs[t.job].state = "running"
  BY DEF TypeOK, Token, Row, RequeueStep, Owns
<1>2. /\ jobs'[t.job].order = o
      /\ jobs'[t.job].state \in {"dead", "queued"}
      /\ Twins(t, c) # {} => jobs'[t.job].state = "dead"
  BY <1>1, SupersededType, ReboundType DEF RequeueStep, Requeued
<1>3. \A j \in Rows \ {t.job} :
         /\ jobs'[j].state = jobs[j].state
         /\ jobs'[j].order \in {jobs[j].order, o}
         /\ j \notin Twins(t, c) => jobs'[j].order = jobs[j].order
  BY <1>1, PromotedType DEF RequeueStep, Requeued
<1>4. ASSUME NEW i \in Twins(t, c), NEW j \in Twins(t, c) PROVE i = j
  BY <1>4 DEF Twins, UniqueRows
<1> HIDE DEF o
<1>5. OrdersUsed'
  <2>1. jobs[o].state # "absent"
    BY <1>1 DEF OrderInv, OrdersUsed, o
  <2>2. \A j \in Rows : jobs'[j].state = "absent" <=> jobs[j].state = "absent"
    BY <1>1, <1>2, <1>3
  <2>3. \A j \in Rows \ {t.job} : jobs[j].state = "absent" => j \notin Twins(t, c)
    BY DEF Twins, Present
  <2>4. \A j \in Rows : jobs[j].order \in Rows
    BY <1>1 DEF Row
  <2> QED BY <1>1, <1>2, <1>3, <2>1, <2>2, <2>3, <2>4 DEF OrderInv, OrdersUsed
<1>6. OpenOrdersDiffer'
  <2> SUFFICES ASSUME NEW i \in Rows, NEW j \in Rows, Open(jobs'[i]), Open(jobs'[j]),
                      jobs'[i].order = jobs'[j].order
               PROVE  i = j
    BY DEF OpenOrdersDiffer
  <2>1. Open(jobs[i]) /\ Open(jobs[j]) /\ Open(jobs[t.job])
    BY <1>1, <1>3 DEF Open
  <2>2. CASE Twins(t, c) = {}
    BY <1>2, <1>3, <2>1, <2>2 DEF OrderInv, OpenOrdersDiffer, o
  <2>3. CASE Twins(t, c) # {}
    <3>1. i # t.job /\ j # t.job
      BY <1>2, <2>3 DEF Open
    <3>2. jobs[i].order # o /\ jobs[j].order # o
      BY <1>1, <2>1, <3>1 DEF OrderInv, OpenOrdersDiffer, o
    <3> QED BY <1>3, <1>4, <2>1, <3>1, <3>2 DEF OrderInv, OpenOrdersDiffer
  <2> QED BY <2>2, <2>3
<1> QED BY <1>5, <1>6 DEF OrderInv

\* An insert takes its own identity value, which no row uses yet.
LEMMA EnqueueOrders ==
    ASSUME TypeOK, OrderInv,
           NEW j \in Rows, NEW t \in Targets, NEW c \in Compilers, Enqueue(j, t, c)
    PROVE  OrderInv'
<1>1. /\ jobs \in [Rows -> Row] /\ jobs[j].state = "absent" /\ jobs[j].order = j
      /\ jobs'[j] = Queued(jobs[j], t, c) /\ \A i \in Rows \ {j} : jobs'[i] = jobs[i]
  BY DEF Enqueue, TypeOK, OrderInv, OrdersUsed
<1>2. jobs'[j].state = "queued" /\ jobs'[j].order = j
  BY <1>1, QueuedType
<1>3. \A i \in Rows : jobs[i].order \in Rows
  BY <1>1 DEF Row
<1>4. OrdersUsed'
  BY <1>1, <1>2, <1>3 DEF OrderInv, OrdersUsed
<1>5. OpenOrdersDiffer'
  <2>1. \A i \in Rows \ {j} : Open(jobs[i]) => jobs[i].order # j
    BY <1>1 DEF OrderInv, OrdersUsed, Open
  <2> QED BY <1>1, <1>2, <2>1 DEF OrderInv, OpenOrdersDiffer
<1> QED BY <1>4, <1>5 DEF OrderInv

\* An erasure keeps the orders right.
LEMMA EraseOrders ==
    ASSUME TypeOK, OrderInv, NEW l \in Lanes, EraseSubject(l)
    PROVE  OrderInv'
<1>1. \A j \in Rows : /\ jobs'[j].order = jobs[j].order
                      /\ jobs'[j].state = IF Present(jobs[j]) /\ Lane(jobs[j]) = l
                                            THEN "erased" ELSE jobs[j].state
  BY ErasedType DEF EraseSubject, TypeOK
<1>2. \A j \in Rows : /\ jobs'[j].order = jobs[j].order
                      /\ jobs'[j].state = "absent" <=> jobs[j].state = "absent"
                      /\ Open(jobs'[j]) => Open(jobs[j])
  BY <1>1 DEF Present, Open
<1> QED BY <1>2, OrdersKept

-----------------------------------------------------------------------------
(***************************************************************************)
(* The worker's own state.                                                 *)
(***************************************************************************)

\* A worker that goes on with a job, or is done with it, still holds distinct claims and
\* rests at the start of the lanes it is done with.
LEMMA MoveWorker ==
    ASSUME TypeOK, WorkerInv, NEW w \in Workers, NEW t \in held[w], NEW s \in Stages,
           Goto(w, t, s) \/ Leave(w, t, s)
    PROVE  WorkerInv'
<1>1. t.lane \in Lanes /\ held \in [Workers -> SUBSET Token]
      /\ stage \in [Workers -> [Lanes -> Stages]]
  BY DEF TypeOK, Token
<1>2. ClaimsDiffer'
  <2>1. \A v \in Workers : held'[v] \subseteq held[v]
    BY MoveType
  <2> QED BY <2>1 DEF WorkerInv, ClaimsDiffer
<1>3. IdleAtStart'
  <2> SUFFICES ASSUME NEW v \in Workers, NEW l \in Lanes, {u \in held'[v] : u.lane = l} = {}
               PROVE  stage'[v][l] = "start"
    BY DEF IdleAtStart, InLane
  <2>1. CASE v = w /\ l = t.lane
    <3>1. ~Goto(w, t, s)
      BY <2>1 DEF Goto
    <3>2. InLane(w, t.lane) = {t}
      BY <1>1, <2>1, <3>1 DEF Leave, InLane
    <3> QED BY <1>1, <2>1, <3>1, <3>2 DEF Leave
  <2>2. CASE ~(v = w /\ l = t.lane)
    <3>1. {u \in held[v] : u.lane = l} = {}
      BY <1>1, <2>2 DEF Goto, Leave
    <3>2. stage'[v][l] = stage[v][l]
      BY <1>1, <2>2 DEF Goto, Leave
    <3> QED BY <3>1, <3>2 DEF WorkerInv, IdleAtStart, InLane
  <2> QED BY <2>1, <2>2
<1> QED BY <1>2, <1>3 DEF WorkerInv

\* A claim hands out distinct rows at distinct places, to a worker that held none.
LEMMA ClaimWorker ==
    ASSUME TypeOK, OpenOrdersDiffer, WorkerInv, NEW w \in Workers, Claim(w)
    PROVE  WorkerInv'
<1>1. PICK C \in SUBSET Rows : ClaimRows(w, C)
  BY ClaimEffect
<1>2. /\ held'[w] = {TokenOf(j, jobs'[j]) : j \in C}
      /\ \A v \in Workers \ {w} : held'[v] = held[v]
      /\ stage' = stage /\ held[w] = {}
  BY <1>1 DEF ClaimRows, TypeOK, Claim
<1>3. \A i, j \in C : jobs'[i].order = jobs'[j].order => i = j
  BY <1>1 DEF ClaimRows, SameJob, OpenOrdersDiffer
<1>4. ClaimsDiffer'
  <2>1. ASSUME NEW s \in held'[w], NEW t \in held'[w], s.job = t.job \/ s.pos = t.pos
        PROVE  s = t
    <3>1. PICK i \in C : s = TokenOf(i, jobs'[i])
      BY <1>2
    <3>2. PICK j \in C : t = TokenOf(j, jobs'[j])
      BY <1>2
    <3>3. i = j
      BY <1>3, <2>1, <3>1, <3>2 DEF TokenOf
    <3> QED BY <3>1, <3>2, <3>3
  <2> QED BY <1>2, <2>1 DEF WorkerInv, ClaimsDiffer
<1>5. IdleAtStart'
  BY <1>2 DEF WorkerInv, IdleAtStart, InLane
<1> QED BY <1>4, <1>5 DEF WorkerInv

\* A crash and an abandoned lane drop claims and go back to the start.
LEMMA DropWorker ==
    ASSUME TypeOK, WorkerInv, NEW w \in Workers,
           Crash(w) \/ \E l \in Lanes : AbandonLane(w, l)
    PROVE  /\ WorkerInv'
           /\ UNCHANGED <<jobs, erased, writes>>
           /\ \A v \in Workers : held'[v] \subseteq held[v]
           /\ \A v \in Workers : \A t \in held'[v] : \A s \in Stages \ {"start"} :
                At(v, t, s)' => At(v, t, s)
<1> USE DEF TypeOK
<1>1. CASE Crash(w)
  <2>1. /\ held'[w] = {} /\ stage'[w] = [l \in Lanes |-> "start"]
        /\ \A v \in Workers \ {w} : held'[v] = held[v] /\ stage'[v] = stage[v]
        /\ UNCHANGED <<jobs, erased, writes>>
    BY <1>1 DEF Crash
  <2>2. ClaimsDiffer'
    BY <2>1 DEF WorkerInv, ClaimsDiffer
  <2>3. IdleAtStart'
    <3> SUFFICES ASSUME NEW v \in Workers, NEW m \in Lanes, {u \in held'[v] : u.lane = m} = {}
                 PROVE  stage'[v][m] = "start"
      BY DEF IdleAtStart, InLane
    <3>1. CASE v = w
      BY <2>1, <3>1
    <3>2. CASE v # w
      BY <2>1, <3>2 DEF WorkerInv, IdleAtStart, InLane
    <3> QED BY <3>1, <3>2
  <2> QED BY <2>1, <2>2, <2>3 DEF WorkerInv, At, IsHead, InLane
<1>2. ASSUME NEW l \in Lanes, AbandonLane(w, l)
      PROVE  /\ WorkerInv'
             /\ UNCHANGED <<jobs, erased, writes>>
             /\ \A v \in Workers : held'[v] \subseteq held[v]
             /\ \A v \in Workers : \A t \in held'[v] : \A s \in Stages \ {"start"} :
                  At(v, t, s)' => At(v, t, s)
  <2>1. /\ held'[w] = {t \in held[w] : t.lane # l}
        /\ stage'[w] = [stage[w] EXCEPT ![l] = "start"]
        /\ \A v \in Workers \ {w} : held'[v] = held[v] /\ stage'[v] = stage[v]
        /\ UNCHANGED <<jobs, erased, writes>>
    BY <1>2 DEF AbandonLane, InLane
  <2>2. WorkerInv'
    <3>1. ClaimsDiffer'
      BY <2>1 DEF WorkerInv, ClaimsDiffer
    <3>2. IdleAtStart'
      <4> SUFFICES ASSUME NEW v \in Workers, NEW m \in Lanes, {u \in held'[v] : u.lane = m} = {}
                   PROVE  stage'[v][m] = "start"
        BY DEF IdleAtStart, InLane
      <4>1. CASE v = w /\ m = l
        BY <2>1, <4>1
      <4>2. CASE ~(v = w /\ m = l)
        <5>1. {u \in held[v] : u.lane = m} = {} /\ stage'[v][m] = stage[v][m]
          BY <2>1, <4>2
        <5> QED BY <5>1 DEF WorkerInv, IdleAtStart, InLane
      <4> QED BY <4>1, <4>2
    <3> QED BY <3>1, <3>2 DEF WorkerInv
  <2>3. ASSUME NEW v \in Workers, NEW t \in held'[v], NEW s \in Stages \ {"start"}, At(v, t, s)'
        PROVE  At(v, t, s)
    <3>1. t \in held[v] /\ t.lane \in Lanes
      BY <2>1, <2>3 DEF Token
    <3>2. CASE v # w
      BY <2>1, <2>3, <3>2 DEF At, IsHead, InLane
    <3>3. CASE v = w
      <4>1. t.lane # l /\ stage'[w][t.lane] = stage[w][t.lane]
        BY <2>1, <2>3, <3>1, <3>3 DEF At
      <4>2. \A u \in held[w] : u.lane = t.lane => u \in held'[w]
        BY <2>1, <4>1
      <4> QED BY <2>3, <3>1, <3>3, <4>1, <4>2 DEF At, IsHead, InLane
    <3> QED BY <3>2, <3>3
  <2> QED BY <2>1, <2>2, <2>3
<1> QED BY <1>1, <1>2

-----------------------------------------------------------------------------
(***************************************************************************)
(* The provider is paid once.                                              *)
(***************************************************************************)

\* A claim that matches a row after a step that hands out no claim matched it before,
\* and the row has kept its result unless a preparation was stored for it.
LEMMA StepOwner ==
    ASSUME QueueInv, NEW w \in Workers, NEW t \in held[w], Step(w, t),
           NEW u \in Token, Owns(u)'
    PROVE  /\ Owns(u)
           /\ \/ jobs'[u.job].result = jobs[u.job].result
              \/ StorePrepared(w, t) /\ Owns(t) /\ u.job = t.job
<1> DEFINE r == jobs[t.job]
<1>1. /\ u.job \in Rows /\ t.job \in Rows /\ t \in Token
      /\ jobs \in [Rows -> Row] /\ r \in Row
  BY DEF QueueInv, TypeOK, Token
<1>2. CASE jobs' = jobs
  BY <1>2 DEF Owns, Matches, Found
<1>3. ASSUME jobs' # jobs, \A j \in Rows \ {t.job} :
                /\ jobs'[j].state = jobs[j].state /\ jobs'[j].compiler = jobs[j].compiler
                /\ jobs'[j].gen = jobs[j].gen /\ jobs'[j].attempts = jobs[j].attempts
                /\ jobs'[j].result = jobs[j].result,
             jobs'[t.job].state # "running"
      PROVE  Owns(u) /\ jobs'[u.job].result = jobs[u.job].result
  BY <1>1, <1>3 DEF Owns, Matches, Found, Present
<1>4. CASE QuietStep(w, t)
  BY <1>2, <1>4 DEF QuietStep, BeginPrepare, NothingToCompile, Crosschecked, StepFails,
                    ProviderFails, Failing
<1>5. CASE StorePrepared(w, t)
  <2>1. CASE Owns(t) /\ jobs' = [jobs EXCEPT ![t.job].result = "prepared"]
    <3>1. /\ \A j \in Rows : /\ jobs'[j].state = jobs[j].state
                             /\ jobs'[j].compiler = jobs[j].compiler
                             /\ jobs'[j].gen = jobs[j].gen /\ jobs'[j].attempts = jobs[j].attempts
          /\ \A j \in Rows \ {t.job} : jobs'[j].result = jobs[j].result
      BY <1>1, <2>1 DEF Row
    <3> QED BY <1>1, <1>5, <2>1, <3>1 DEF Owns, Matches, Found, Present
  <2> QED BY <1>2, <1>5, <2>1 DEF StorePrepared
<1>6. ASSUME NEW s \in {"queued", "done", "dead"}, jobs' = [jobs EXCEPT ![t.job] = To(r, s)]
      PROVE  Owns(u) /\ jobs'[u.job].result = jobs[u.job].result
  <2>1. To(r, s).state = s /\ s # "running"
    BY <1>1, <1>6, ToType DEF States
  <2> QED BY <1>1, <1>3, <1>6, <2>1 DEF Owns, Matches, Found, Present
<1>7. CASE Complete(w, t) \/ Fail(w, t)
  BY <1>2, <1>6, <1>7 DEF Complete, Fail
<1>8. CASE Release(w, t) \/ ReleaseBlocked(w, t)
  <2>1. ASSUME NEW d, jobs' = [jobs EXCEPT ![t.job] = [To(r, "queued") EXCEPT !.wait = d]]
        PROVE  Owns(u) /\ jobs'[u.job].result = jobs[u.job].result
    <3>1. To(r, "queued") \in Row /\ To(r, "queued").state = "queued"
      BY <1>1, ToType DEF States
    <3>2. [To(r, "queued") EXCEPT !.wait = d].state = "queued"
      BY <3>1 DEF Row
    <3> QED BY <1>1, <2>1, <3>2 DEF Owns, Matches, Found, Present
  <2> QED BY <1>2, <1>8, <2>1 DEF Release, ReleaseBlocked, Released
<1>9. CASE CompileCommit(w, t)
  <2>1. Compiled(r).state = "done"
    BY <1>1, CompiledType
  <2> QED BY <1>1, <1>2, <1>9, <2>1 DEF CompileCommit, Owns, Matches, Found, Present
<1>10. CASE RequeueWithCompiler(w, t)
  <2>1. LiveCompiler[w] \in Compilers
    BY <1>10, CompilerAssumption DEF RequeueWithCompiler, Outdated, CompilerAssumption
  <2>2. CASE jobs' = Requeued(t, LiveCompiler[w])
    <3>1. /\ \A j \in Rows \ {t.job} :
                /\ jobs'[j].state = jobs[j].state /\ jobs'[j].compiler = jobs[j].compiler
                /\ jobs'[j].gen = jobs[j].gen /\ jobs'[j].attempts = jobs[j].attempts
                /\ jobs'[j].result = jobs[j].result
          /\ jobs'[t.job].state \in {"dead", "queued"}
      BY <1>1, <2>1, <2>2, RequeueEffect DEF QueueInv
    <3> QED BY <1>1, <3>1 DEF Owns, Matches, Found, Present
  <2> QED BY <1>2, <1>10, <2>2 DEF RequeueWithCompiler
<1> QED BY <1>4, <1>5, <1>7, <1>8, <1>9, <1>10 DEF Step, QuietStep

\* A worker at the provider after a step was there before it, or has just found no
\* preparation for its claim.
LEMMA StepExtract ==
    ASSUME QueueInv, WorkerInv, NEW w \in Workers, NEW t \in held[w], Step(w, t),
           NEW v \in Workers, NEW u \in held'[v], At(v, u, "extract")'
    PROVE  \/ At(v, u, "extract") /\ (v # w \/ u.lane # t.lane)
           \/ v = w /\ u = t /\ BeginPrepare(w, t) /\ ~FetchedPrepared(t)
<1>1. /\ t.lane \in Lanes /\ held \in [Workers -> SUBSET Token] /\ t \in Token
      /\ stage \in [Workers -> [Lanes -> Stages]]
  BY DEF QueueInv, TypeOK, Token
<1>2. PICK s \in Stages : Goto(w, t, s) \/ Leave(w, t, s)
  BY StepMoves DEF QueueInv
<1>3. u \in held[v] /\ u.lane \in Lanes
  BY <1>1, <1>2, MoveType DEF QueueInv, Token
<1>4. CASE v # w \/ u.lane # t.lane
  <2>1. stage'[v][u.lane] = stage[v][u.lane]
    BY <1>1, <1>2, <1>3, <1>4 DEF Goto, Leave
  <2>2. \A x \in held[v] : x.lane = u.lane => x \in held'[v]
    BY <1>1, <1>2, <1>3, <1>4 DEF Goto, Leave
  <2> QED BY <1>3, <1>4, <2>1, <2>2 DEF At, IsHead, InLane
<1>5. CASE v = w /\ u.lane = t.lane
  <2>1. stage'[w][t.lane] = "extract"
    BY <1>5 DEF At
  <2>2. BeginPrepare(w, t) /\ ~FetchedPrepared(t)
    BY <1>1, <2>1 DEF Step, RequeueWithCompiler, BeginPrepare, StorePrepared, CompileCommit,
       NothingToCompile, Crosschecked, Complete, Release, ReleaseBlocked, Fail, StepFails,
       ProviderFails, Goto, Leave
  <2>3. held' = held
    BY <2>2 DEF BeginPrepare, Goto
  <2>4. u.pos =< t.pos /\ t.pos =< u.pos
    BY <1>3, <1>5, <2>2, <2>3 DEF At, IsHead, InLane, BeginPrepare
  <2>5. u.pos = t.pos
    <3>1. u.pos \in Nat /\ t.pos \in Nat
      BY <1>1, <1>3, RowsAssumption DEF RowsAssumption, Token
    <3> QED BY <2>4, <3>1
  <2>6. u = t
    BY <1>3, <1>5, <2>5 DEF WorkerInv, ClaimsDiffer
  <2> QED BY <1>5, <2>2, <2>6
<1> QED BY <1>4, <1>5

\* The steps of a job do not bring a paying worker to a stored preparation: only the owner
\* itself stores one, and leaves the extract stage with that.
LEMMA StepPayment ==
    ASSUME QueueInv, WorkerInv, PaidOnce, NEW w \in Workers, NEW t \in held[w], Step(w, t)
    PROVE  PaidOnce'
<1> SUFFICES ASSUME NEW v \in Workers, NEW u \in held'[v], At(v, u, "extract")', Owns(u)'
             PROVE  jobs'[u.job].result = "null"
  BY DEF PaidOnce
<1>1. /\ t.job \in Rows /\ t \in Token /\ jobs \in [Rows -> Row]
      /\ held \in [Workers -> SUBSET Token]
  BY DEF QueueInv, TypeOK, Token
<1>2. u \in held[v] /\ u \in Token
  BY <1>1, StepMoves, MoveType DEF QueueInv
<1>3. /\ Owns(u)
      /\ \/ jobs'[u.job].result = jobs[u.job].result
         \/ StorePrepared(w, t) /\ Owns(t) /\ u.job = t.job
  BY <1>2, StepOwner
<1>4. CASE At(v, u, "extract") /\ (v # w \/ u.lane # t.lane)
  <2>1. jobs[u.job].result = "null"
    BY <1>2, <1>3, <1>4 DEF PaidOnce
  <2>2. ASSUME Owns(t), u.job = t.job PROVE FALSE
    <3>1. CASE v # w
      BY <1>2, <1>3, <2>2, <3>1 DEF QueueInv, TokenInv, TokensDiffer, Owns, Matches
    <3>2. CASE v = w
      BY <1>2, <1>4, <2>2, <3>2 DEF WorkerInv, ClaimsDiffer
    <3> QED BY <3>1, <3>2
  <2> QED BY <1>3, <2>1, <2>2
<1>5. CASE v = w /\ u = t /\ BeginPrepare(w, t) /\ ~FetchedPrepared(t)
  <2>1. jobs' = jobs
    BY <1>5 DEF BeginPrepare
  <2>2. jobs[t.job].state = "running" /\ jobs[t.job].result # "prepared"
    BY <1>3, <1>5 DEF FetchedPrepared, Owns, Open
  <2>3. jobs[t.job].result # "completed"
    BY <1>1, <2>2 DEF QueueInv, TableInv, CompletedIsSettled
  <2>4. jobs[t.job].result \in Results
    BY <1>1 DEF Row
  <2> QED BY <1>5, <2>1, <2>2, <2>3, <2>4 DEF Results
<1> QED BY <1>4, <1>5, StepExtract

\* A claim brings nobody to the extract stage, and its tokens are nobody else's.
LEMMA ClaimPayment ==
    ASSUME QueueInv, WorkerInv, PaidOnce, NEW w \in Workers, Claim(w)
    PROVE  PaidOnce'
<1>1. PICK C \in SUBSET Rows : ClaimRows(w, C)
  BY ClaimEffect DEF QueueInv
<1>2. /\ \A v \in Workers \ {w} : held'[v] = held[v]
      /\ stage' = stage /\ held[w] = {}
      /\ held \in [Workers -> SUBSET Token] /\ jobs \in [Rows -> Row]
  BY <1>1 DEF ClaimRows, QueueInv, TypeOK, Claim
<1> SUFFICES ASSUME NEW v \in Workers, NEW u \in held'[v], At(v, u, "extract")', Owns(u)'
             PROVE  jobs'[u.job].result = "null"
  BY DEF PaidOnce
<1>3. v # w
  <2> SUFFICES ASSUME v = w PROVE FALSE
    OBVIOUS
  <2>1. PICK j \in C : u = TokenOf(j, jobs'[j])
    BY <1>1, <1>2 DEF ClaimRows
  <2>2. u.lane \in Lanes
    BY <1>1, <2>1, LaneOfAssumption DEF ClaimRows, Row, TokenOf, Lane, LaneOfAssumption
  <2>3. stage[w][u.lane] = "start"
    BY <1>2, <2>2 DEF WorkerInv, IdleAtStart, InLane
  <2> QED BY <1>2, <2>3 DEF At
<1>4. u \in held[v] /\ u \in Token /\ u.job \in Rows
  BY <1>2, <1>3 DEF Token
<1>5. /\ Advanced(u, jobs[u.job]) /\ jobs[u.job] \in Row /\ jobs'[u.job] \in Row
  BY <1>1, <1>2, <1>4 DEF QueueInv, TokenInv, TokensBehind, ClaimRows
<1>6. /\ jobs'[u.job].gen = u.gen /\ jobs'[u.job].attempts = u.attempts
      /\ jobs'[u.job].state = "running" /\ jobs'[u.job].compiler = u.compiler
  BY DEF Owns, Matches, Found
<1>7. u.job \notin C
  <2>1. u.job \in C => jobs'[u.job].attempts = jobs[u.job].attempts + 1
                       /\ jobs'[u.job].gen >= jobs[u.job].gen
    BY <1>1, <1>4 DEF ClaimRows
  <2> QED BY <1>4, <1>5, <1>6, <2>1 DEF Advanced, Token, Row
<1>8. /\ jobs[u.job].attempts = u.attempts /\ jobs[u.job].state = "running"
      /\ jobs'[u.job].gen >= jobs[u.job].gen
      /\ SameJob(jobs[u.job], jobs'[u.job])
  BY <1>1, <1>4, <1>6, <1>7 DEF ClaimRows
<1>9. jobs[u.job].gen = u.gen
  BY <1>4, <1>5, <1>6, <1>8 DEF Advanced, Token, Row
<1>10. Owns(u) /\ jobs'[u.job].result = jobs[u.job].result
  BY <1>6, <1>8, <1>9 DEF SameJob, Owns, Matches, Found, Present
<1>11. At(v, u, "extract")
  BY <1>2, <1>3 DEF At, IsHead, InLane
<1> QED BY <1>4, <1>10, <1>11 DEF PaidOnce

\* A step that leaves the workers alone and no row with more owners, or another result.
LEMMA RowsPayment ==
    ASSUME TypeOK, PaidOnce, UNCHANGED <<held, stage>>,
           \A j \in Rows : jobs'[j].state = "running" =>
               /\ jobs[j].state = "running" /\ jobs'[j].compiler = jobs[j].compiler
               /\ jobs'[j].gen = jobs[j].gen /\ jobs'[j].attempts = jobs[j].attempts
               /\ jobs'[j].result = jobs[j].result
    PROVE  PaidOnce'
<1> SUFFICES ASSUME NEW v \in Workers, NEW u \in held[v], At(v, u, "extract")', Owns(u)'
             PROVE  jobs'[u.job].result = "null"
  BY DEF PaidOnce
<1>1. u.job \in Rows
  BY DEF TypeOK, Token
<1>2. Owns(u) /\ jobs'[u.job].result = jobs[u.job].result
  BY <1>1 DEF Owns, Matches, Found, Present
<1>3. At(v, u, "extract")
  BY DEF At, IsHead, InLane
<1> QED BY <1>2, <1>3 DEF PaidOnce

\* The invariant holds of the empty table.
LEMMA InitPayment == Init => PaymentInv
<1> SUFFICES ASSUME Init PROVE PaymentInv
  OBVIOUS
<1>1. \A j \in Rows : jobs[j].state = "absent" /\ jobs[j].order = j
  BY DEF Init
<1>2. OrderInv
  BY <1>1 DEF OrderInv, OrdersUsed, OpenOrdersDiffer, Open
<1>3. WorkerInv /\ PaidOnce
  BY DEF Init, WorkerInv, ClaimsDiffer, IdleAtStart, PaidOnce
<1> QED BY <1>2, <1>3, InitInv DEF PaymentInv

\* Every step keeps the invariant.
LEMMA NextPayment == PaymentInv /\ [Next]_vars => PaymentInv'
<1> SUFFICES ASSUME PaymentInv, [Next]_vars PROVE PaymentInv'
  OBVIOUS
<1>1. /\ QueueInv /\ TypeOK /\ UniqueRows /\ OrderInv /\ OpenOrdersDiffer
      /\ WorkerInv /\ PaidOnce /\ QueueInv'
  BY NextInv DEF PaymentInv, QueueInv, TableInv, OrderInv
<1> SUFFICES OrderInv' /\ WorkerInv' /\ PaidOnce'
  BY <1>1 DEF PaymentInv
<1>2. ASSUME UNCHANGED <<held, stage>> PROVE WorkerInv'
  BY <1>1, <1>2 DEF WorkerInv, ClaimsDiffer, IdleAtStart, InLane
<1>3. ASSUME NEW j \in Rows, NEW t \in Targets, NEW c \in Compilers, Enqueue(j, t, c)
      PROVE  OrderInv' /\ WorkerInv' /\ PaidOnce'
  <2>1. /\ jobs \in [Rows -> Row] /\ jobs'[j] = Queued(jobs[j], t, c)
        /\ \A i \in Rows \ {j} : jobs'[i] = jobs[i]
        /\ UNCHANGED <<held, stage>>
    BY <1>1, <1>3 DEF Enqueue, TypeOK
  <2>2. jobs'[j].state = "queued"
    BY <2>1, QueuedType
  <2>3. PaidOnce'
    BY <1>1, <2>1, <2>2, RowsPayment
  <2> QED BY <1>1, <1>2, <1>3, <2>1, <2>3, EnqueueOrders
<1>4. ASSUME NEW w \in Workers, Claim(w)
      PROVE  OrderInv' /\ WorkerInv' /\ PaidOnce'
  BY <1>1, <1>4, ClaimIsMild, MildOrders, ClaimWorker, ClaimPayment
<1>5. ASSUME NEW w \in Workers, Crash(w) \/ \E l \in Lanes : AbandonLane(w, l)
      PROVE  OrderInv' /\ WorkerInv' /\ PaidOnce'
  <2>1. /\ WorkerInv' /\ UNCHANGED <<jobs, erased, writes>>
        /\ \A v \in Workers : held'[v] \subseteq held[v]
        /\ \A v \in Workers : \A t \in held'[v] : \A s \in Stages \ {"start"} :
             At(v, t, s)' => At(v, t, s)
    BY <1>1, <1>5, DropWorker
  <2>2. "extract" \in Stages \ {"start"}
    BY DEF Stages
  <2>3. PaidOnce'
    BY <1>1, <2>1, <2>2 DEF PaidOnce, Owns, Matches, Found
  <2> QED BY <1>1, <2>1, <2>3, UnchangedIsMild, MildOrders
<1>6. ASSUME NEW w \in Workers, NEW t \in held[w], Step(w, t)
      PROVE  OrderInv' /\ WorkerInv' /\ PaidOnce'
  <2>1. t \in Token
    BY <1>1, <1>6 DEF TypeOK
  <2>2. WorkerInv' /\ PaidOnce'
    BY <1>1, <1>6, StepMoves, MoveWorker, StepPayment
  <2>3. OrderInv'
    BY <1>1, <1>6, <2>1, StepRows, MildOrders, CommitOrders, RequeueOrders
  <2> QED BY <2>2, <2>3
<1>7. ASSUME NEW l \in Lanes, EraseSubject(l)
      PROVE  OrderInv' /\ WorkerInv' /\ PaidOnce'
  <2>1. UNCHANGED <<held, stage>>
    BY <1>7 DEF EraseSubject
  <2>2. \A j \in Rows : jobs'[j] = jobs[j] \/ jobs'[j].state = "erased"
    BY <1>1, <1>7, ErasedType DEF EraseSubject, TypeOK
  <2>3. PaidOnce'
    BY <1>1, <2>1, <2>2, RowsPayment
  <2> QED BY <1>1, <1>2, <1>7, <2>1, <2>3, EraseOrders
<1>8. CASE Tick
  <2>1. UNCHANGED <<held, stage>> /\ jobs' = [j \in Rows |-> Aged(jobs[j])]
    BY <1>8 DEF Tick
  <2>2. PaidOnce'
    BY <1>1, <2>1, AgedType, RowsPayment DEF TypeOK
  <2> QED BY <1>1, <1>2, <1>8, <2>1, <2>2, TickIsMild, MildOrders
<1>9. CASE UNCHANGED vars
  <2>1. UNCHANGED <<held, stage>> /\ UNCHANGED <<jobs, erased, writes>>
    BY <1>9 DEF vars
  <2> QED BY <1>1, <1>2, <2>1, UnchangedIsMild, MildOrders, RowsPayment
<1> QED BY <1>3, <1>4, <1>5, <1>6, <1>7, <1>8, <1>9 DEF Next

\* The owner of a job calls the extraction provider only while no preparation is stored
\* for it, after any crash, lapsed lease, release or requeue (prepare_structured_state).
THEOREM ProviderPaidOnce == Spec => []PaidOnce
BY InitPayment, NextPayment, PTL DEF Spec, PaymentInv

-----------------------------------------------------------------------------
(***************************************************************************)
(* CompilesInLaneOrder and LaneIsSerial, for enqueuing transactions that   *)
(* do not overlap.  The argument is about what a claim of a job says of    *)
(* the jobs before it: whoever is at work on a job holds every earlier     *)
(* open job of the lane as well, and leases of a lane end in an order that *)
(* makes the lane reset take all of them back together.                    *)
(***************************************************************************)

\* A batch takes the first of a set of lanes: a lane that is first in a larger set is
\* first in a smaller one.
LEMMA FirstLanesShrink ==
    ASSUME NEW A \in SUBSET Lanes, NEW S \in SUBSET A, NEW l \in S, l \in FirstLanes(A)
    PROVE  l \in FirstLanes(S)
<1> DEFINE below(X) == {m \in X : m < l}
<1>1. l \in Nat /\ A \subseteq Nat
  BY LanesAssumption DEF LanesAssumption
<1>2. IsFiniteSet(below(A))
  <2>1. below(A) \in SUBSET Nat
    BY <1>1
  <2>2. \A m \in A : m < l => m <= l
    BY <1>1
  <2>3. \A m \in below(A) : m <= l
    BY <2>2
  <2> HIDE DEF below
  <2> QED BY <1>1, <2>1, <2>3, FS_BoundedSetOfNaturals
<1>3. below(S) \in SUBSET below(A)
  OBVIOUS
<1>4. /\ Cardinality(below(S)) <= Cardinality(below(A))
      /\ Cardinality(below(S)) \in Nat /\ Cardinality(below(A)) \in Nat
  <2> HIDE DEF below
  <2> QED BY <1>2, <1>3, FS_Subset, FS_CardinalityType
<1>5. Cardinality(below(A)) < Limit
  BY DEF FirstLanes
<1>6. Limit \in Nat
  BY BoundsAssumption DEF BoundsAssumption
<1>7. Cardinality(below(S)) < Limit
  <2> HIDE DEF below
  <2> QED BY <1>4, <1>5, <1>6
<1> QED BY <1>7 DEF FirstLanes

\* The sets that the claim function counts are finite.
LEMMA RowsCount ==
    ASSUME NEW S \in SUBSET Rows, NEW T \in SUBSET S
    PROVE  /\ Cardinality(S) \in Nat /\ Cardinality(T) \in Nat
           /\ Cardinality(T) <= Cardinality(S)
<1>1. IsFiniteSet(Rows)
  BY RowsAssumption DEF RowsAssumption
<1>2. IsFiniteSet(S) /\ IsFiniteSet(T)
  BY <1>1, FS_Subset
<1> QED BY <1>2, FS_Subset, FS_CardinalityType

\* A batch that takes a job takes every earlier eligible job of the tenant: the fair
\* share over tenants does not reorder the jobs of one of them.
LEMMA ChosenEarlier ==
    ASSUME NEW J \in [Rows -> Row], NEW E \in SUBSET Rows, NEW j \in Chosen(J, E), NEW i \in E,
           TenantOf[Lane(J[i])] = TenantOf[Lane(J[j])], J[i].order < J[j].order
    PROVE  i \in Chosen(J, E)
<1> DEFINE ahead(k) == {m \in E : /\ TenantOf[Lane(J[m])] = TenantOf[Lane(J[k])]
                                  /\ J[m].order < J[k].order}
           first(k) == {m \in E : Before(J, E, m, k)}
<1>1. j \in E /\ Cardinality(first(j)) < Limit
  BY DEF Chosen
<1>2. \A k \in E : J[k].order \in Nat
  BY RowsAssumption DEF Row, RowsAssumption
<1>3. ahead(i) \in SUBSET ahead(j)
  BY <1>1, <1>2
<1>4. \A k \in E : Rank(J, E, k) = Cardinality(ahead(k)) /\ ahead(k) \in SUBSET Rows
  BY DEF Rank
<1>5. Rank(J, E, i) <= Rank(J, E, j)
  <2> HIDE DEF ahead
  <2> QED BY <1>1, <1>3, <1>4, RowsCount
<1>6. \A k \in E : Rank(J, E, k) \in Nat
  <2> HIDE DEF ahead
  <2>1. \A k \in E : ahead(k) \in SUBSET ahead(k)
    OBVIOUS
  <2> QED BY <1>4, <2>1, RowsCount
<1>7. \A k \in E : Before(J, E, k, i) => Before(J, E, k, j)
  BY <1>1, <1>2, <1>5, <1>6 DEF Before
<1>8. first(i) \in SUBSET first(j) /\ first(j) \in SUBSET Rows
  BY <1>7
<1>9. Cardinality(first(i)) < Limit
  <2> HIDE DEF first
  <2>1. Limit \in Nat
    BY BoundsAssumption DEF BoundsAssumption
  <2>2. /\ Cardinality(first(i)) <= Cardinality(first(j))
        /\ Cardinality(first(i)) \in Nat /\ Cardinality(first(j)) \in Nat
    BY <1>8, RowsCount
  <2> QED BY <1>1, <2>1, <2>2
<1> QED BY <1>9 DEF Chosen

\* A claimed job takes along every earlier open job of its lane.
LEMMA LaneTakenTogether ==
    ASSUME NEW J \in [Rows -> Row], NEW L,
           \A k \in Rows : Open(J[k]) => J[k].attempts < MaxAttempts,
           NEW j \in Chosen(J, Eligible(J, L)), NEW i \in Rows,
           Open(J[i]), Lane(J[i]) = Lane(J[j]), J[i].order < J[j].order
    PROVE  i \in Chosen(J, Eligible(J, L))
<1> DEFINE E == Eligible(J, L)
<1>1. E \in SUBSET Rows /\ j \in E
  BY DEF Eligible, Chosen
<1>2. \A k \in Rows : J[k] \in Row /\ J[k].order \in Nat
  BY RowsAssumption DEF Row, RowsAssumption
<1>3. ~Blocks(J[i])
  <2>1. Blocks(J[i]) => J[j].order < J[i].order
    BY <1>1 DEF Eligible
  <2> QED BY <1>1, <1>2, <2>1
<1>4. Available(J[i])
  <2>1. J[i].wait \in Nat /\ J[i].age \in Int /\ Lease \in Nat
    BY <1>2, BoundsAssumption DEF Row, BoundsAssumption
  <2> QED BY <1>3, <2>1 DEF Blocks, Available, Open, Leased, Lapsed
<1>5. i \in E
  <2>1. \A b \in Rows : Lane(J[b]) = Lane(J[i]) /\ Blocks(J[b]) => J[i].order < J[b].order
    <3> SUFFICES ASSUME NEW b \in Rows, Lane(J[b]) = Lane(J[i]), Blocks(J[b])
                 PROVE  J[i].order < J[b].order
      OBVIOUS
    <3>1. J[j].order < J[b].order
      BY <1>1 DEF Eligible
    <3> QED BY <1>1, <1>2, <3>1
  <2>2. Lane(J[i]) \in L
    BY <1>1 DEF Eligible
  <2> QED BY <1>4, <2>1, <2>2 DEF Eligible
<1> HIDE DEF E
<1>6. i \in Chosen(J, E)
  BY <1>1, <1>5, ChosenEarlier DEF E
<1> QED BY <1>6 DEF E

\* A running row is not waiting for its retry (claim_reflect_jobs takes due rows only).
RunningIsDue == \A j \in Rows : jobs[j].state = "running" => jobs[j].wait = 0

\* What a claim of the rows C means for their lanes: they are fresh, nothing open is left
\* before them, and when another running row of the lane keeps its claim, the lane was not
\* stale: some lease in it still runs, behind the claimed row.
ClaimLane(C) ==
    /\ \A j \in C : jobs'[j].state = "running" /\ jobs'[j].age = 0 /\ jobs'[j].wait = 0
    /\ \A j \in Rows \ C : jobs'[j].state = "running" => jobs'[j] = jobs[j]
    /\ \A j \in C, i \in Rows :
         Open(jobs'[i]) /\ Lane(jobs[i]) = Lane(jobs[j]) /\ jobs[i].order < jobs[j].order => i \in C
    /\ \A i, u \in Rows \ C :
         Open(jobs'[i]) /\ jobs'[u].state = "running" /\ Lane(jobs[u]) = Lane(jobs[i])
           => jobs'[i] = jobs[i]
    /\ \A j \in C, u \in Rows \ C :
         jobs'[u].state = "running" /\ Lane(jobs[u]) = Lane(jobs[j]) =>
            /\ jobs[j].state = "running" => Lapsed(jobs[j])
            /\ Leased(jobs[u]) => jobs[j].order < jobs[u].order
            /\ \E k \in Rows : /\ Lane(jobs[k]) = Lane(jobs[j]) /\ Leased(jobs[k])
                               /\ jobs[j].order < jobs[k].order

\* The table after the dead letters: what is open is as it was and has attempts left.
LEMMA SweptRows ==
    ASSUME TypeOK
    PROVE  /\ Swept \in [Rows -> Row]
           /\ \A j \in Rows : /\ Lane(Swept[j]) = Lane(jobs[j]) /\ Swept[j].order = jobs[j].order
                              /\ Open(Swept[j]) => /\ Swept[j] = jobs[j]
                                                   /\ Swept[j].attempts < MaxAttempts
<1>1. jobs \in [Rows -> Row]
  BY DEF TypeOK
<1>2. Swept \in [Rows -> Row] /\ \A j \in Rows : SameJob(jobs[j], Swept[j])
  BY <1>1, DeadLetterEffect DEF Swept
<1>3. ASSUME NEW j \in Rows, Open(Swept[j])
      PROVE  Swept[j] = jobs[j] /\ Swept[j].attempts < MaxAttempts
  <2>1. "dead" \in States /\ jobs[j] \in Row
    BY <1>1, <1>3 DEF States
  <2>2. To(jobs[j], "dead").state = "dead"
    BY <2>1, ToType
  <2>3. Swept[j] = jobs[j] /\ ~(Open(jobs[j]) /\ jobs[j].attempts >= MaxAttempts)
    BY <1>3, <2>2 DEF Swept, DeadLetter, Open
  <2>4. jobs[j].attempts \in Int /\ MaxAttempts \in Int
    BY <2>1, BoundsAssumption DEF Row, BoundsAssumption
  <2> QED BY <1>3, <2>3, <2>4
<1> QED BY <1>2, <1>3 DEF SameJob, Lane

\* The table after the lane reset: stale lanes are queued, the others as they were.
LEMMA TakenBackRows ==
    ASSUME TypeOK
    PROVE  /\ TakenBack \in [Rows -> Row]
           /\ \A j \in Rows :
                /\ Lane(TakenBack[j]) = Lane(jobs[j]) /\ TakenBack[j].order = jobs[j].order
                /\ ~Open(Swept[j]) => TakenBack[j] = Swept[j]
                /\ Open(Swept[j]) /\ Lane(jobs[j]) \notin StaleLanes(Swept) =>
                      TakenBack[j] = jobs[j]
                /\ Open(Swept[j]) /\ Lane(jobs[j]) \in StaleLanes(Swept) =>
                      /\ TakenBack[j].state = "queued" /\ TakenBack[j].wait = jobs[j].wait
                /\ Open(TakenBack[j]) => Open(Swept[j]) /\ TakenBack[j].attempts < MaxAttempts
<1>1. /\ Swept \in [Rows -> Row]
      /\ \A j \in Rows : /\ Lane(Swept[j]) = Lane(jobs[j]) /\ Swept[j].order = jobs[j].order
                         /\ Open(Swept[j]) => /\ Swept[j] = jobs[j]
                                              /\ Swept[j].attempts < MaxAttempts
  BY SweptRows
<1>2. /\ TakenBack \in [Rows -> Row]
      /\ \A j \in Rows : /\ SameJob(Swept[j], TakenBack[j])
                         /\ TakenBack[j].attempts = Swept[j].attempts
                         /\ ~Open(Swept[j]) => TakenBack[j] = Swept[j]
  BY <1>1, ResetLanesEffect DEF TakenBack
<1>3. \A j \in Rows : Lane(TakenBack[j]) = Lane(jobs[j]) /\ TakenBack[j].order = jobs[j].order
  BY <1>1, <1>2 DEF SameJob, Lane
<1>4. ASSUME NEW j \in Rows, Open(Swept[j])
      PROVE  /\ Lane(jobs[j]) \notin StaleLanes(Swept) => TakenBack[j] = jobs[j]
             /\ Lane(jobs[j]) \in StaleLanes(Swept) =>
                   TakenBack[j].state = "queued" /\ TakenBack[j].wait = jobs[j].wait
  <2>1. "queued" \in States /\ Swept[j] \in Row /\ To(Swept[j], "queued") \in Row
    BY <1>1, <1>4, ToType DEF States
  <2>2. LET f == Fenced(To(Swept[j], "queued")) IN f.state = "queued" /\ f.wait = Swept[j].wait
    BY <2>1, ToType, FencedType
  <2> QED BY <1>1, <1>4, <2>2 DEF TakenBack, ResetLanes
<1> QED BY <1>1, <1>2, <1>3, <1>4

\* A lane whose leases all ran out has work to hand out after the reset.
LEMMA StaleIsAvailable ==
    ASSUME TypeOK, RunningIsDue, NEW j \in Rows, Lapsed(Swept[j])
    PROVE  Available(TakenBack[j]) /\ Lane(TakenBack[j]) = Lane(Swept[j])
<1>1. Open(Swept[j]) /\ Swept[j].state = "running"
  BY DEF Lapsed, Open
<1>2. /\ Swept[j] = jobs[j] /\ jobs[j].wait = 0 /\ Lane(TakenBack[j]) = Lane(Swept[j])
  BY <1>1, SweptRows, TakenBackRows DEF RunningIsDue
<1>3. CASE Lane(jobs[j]) \in StaleLanes(Swept)
  <2>1. TakenBack[j].state = "queued" /\ TakenBack[j].wait = 0
    BY <1>1, <1>2, <1>3, TakenBackRows
  <2>2. TakenBack[j].attempts < MaxAttempts
    BY <2>1, TakenBackRows DEF Open
  <2> QED BY <1>2, <2>1, <2>2 DEF Available
<1>4. CASE Lane(jobs[j]) \notin StaleLanes(Swept)
  <2>1. TakenBack[j] = jobs[j]
    BY <1>1, <1>4, TakenBackRows
  <2>2. TakenBack[j].attempts < MaxAttempts
    BY <1>1, <1>2, <2>1, SweptRows
  <2> QED BY <1>2, <2>1, <2>2 DEF Available
<1> QED BY <1>3, <1>4

\* A lane that hands out a job and whose leases have all run out is reset in the same
\* transaction: both statements take the first lanes, and stale lanes have work.
LEMMA StaleIsReset ==
    ASSUME TypeOK, RunningIsDue, NEW l \in LockedLanes(TakenBack),
           \E j \in Rows : Lane(Swept[j]) = l /\ Lapsed(Swept[j]),
           \A j \in Rows : Lane(Swept[j]) = l => ~Leased(Swept[j])
    PROVE  l \in StaleLanes(Swept)
<1> DEFINE S == {m \in Lanes : /\ \E j \in Rows : Lane(Swept[j]) = m /\ Lapsed(Swept[j])
                               /\ \A j \in Rows : Lane(Swept[j]) = m => ~Leased(Swept[j])}
           A == {m \in Lanes : \E j \in Rows : Lane(TakenBack[j]) = m /\ Available(TakenBack[j])}
<1>1. LockedLanes(TakenBack) = FirstLanes(A) /\ StaleLanes(Swept) = FirstLanes(S)
  BY DEF LockedLanes, StaleLanes
<1>2. l \in A
  BY DEF LockedLanes, FirstLanes
<1>3. l \in S
  BY <1>2
<1>4. S \in SUBSET A /\ A \in SUBSET Lanes
  BY StaleIsAvailable
<1> HIDE DEF S, A
<1> QED BY <1>1, <1>3, <1>4, FirstLanesShrink

\* The claim transaction, lane by lane.
LEMMA ClaimLanes ==
    ASSUME TypeOK, RunningIsDue, NEW w \in Workers, Claim(w)
    PROVE  ClaimLane(Taken)
<1> DEFINE J == TakenBack
           E == Eligible(J, LockedLanes(J))
           C == Taken
<1>1. /\ J \in [Rows -> Row]
      /\ \A j \in Rows :
           /\ Lane(J[j]) = Lane(jobs[j]) /\ J[j].order = jobs[j].order
           /\ ~Open(Swept[j]) => J[j] = Swept[j]
           /\ Open(Swept[j]) /\ Lane(jobs[j]) \notin StaleLanes(Swept) => J[j] = jobs[j]
           /\ Open(Swept[j]) /\ Lane(jobs[j]) \in StaleLanes(Swept) => J[j].state = "queued"
           /\ Open(J[j]) => Open(Swept[j]) /\ J[j].attempts < MaxAttempts
  BY TakenBackRows
<1>2. \A j \in Rows : Open(Swept[j]) => Swept[j] = jobs[j]
  BY SweptRows
<1>3. \A j \in Rows : Lane(Swept[j]) = Lane(jobs[j])
  BY SweptRows
<1>4. jobs' = Claimed(J, C) /\ C = Chosen(J, E)
  BY DEF Claim, Swept, TakenBack, Taken
<1>5. C \in SUBSET {j \in Rows : Available(J[j])} /\ C \subseteq E
  BY <1>4 DEF Chosen, Eligible
<1>6. \A j \in E : /\ j \in Rows /\ Lane(J[j]) \in LockedLanes(J)
                   /\ \A b \in Rows : Lane(J[b]) = Lane(J[j]) /\ Blocks(J[b])
                                         => J[j].order < J[b].order
  BY DEF Eligible
<1>7. \A j \in Rows \ C : jobs'[j] = J[j]
  BY <1>1, <1>4, <1>5, ClaimedEffect
<1>8. ASSUME NEW j \in Rows, J[j].state = "running"
      PROVE  J[j] = jobs[j] /\ Open(Swept[j]) /\ Lane(jobs[j]) \notin StaleLanes(Swept)
  BY <1>1, <1>2, <1>8 DEF Open
<1>9. ASSUME NEW j \in C
      PROVE  jobs'[j].state = "running" /\ jobs'[j].age = 0 /\ jobs'[j].wait = 0
  <2>1. jobs'[j] = [To(J[j], "running") EXCEPT !.attempts = @ + 1] /\ J[j] \in Row /\ J[j].wait = 0
    BY <1>1, <1>4, <1>5, <1>9 DEF Claimed, Available
  <2>2. /\ To(J[j], "running") \in Row /\ To(J[j], "running").state = "running"
        /\ To(J[j], "running").age = 0 /\ To(J[j], "running").wait = 0
    BY <2>1, ToType DEF States
  <2> HIDE DEF J
  <2> QED BY <2>1, <2>2 DEF Row
<1>10. ASSUME NEW j \in Rows \ C, jobs'[j].state = "running" PROVE jobs'[j] = jobs[j]
  BY <1>7, <1>8, <1>10
<1>11. ASSUME NEW j \in C, NEW i \in Rows, Open(jobs'[i]), Lane(jobs[i]) = Lane(jobs[j]),
              jobs[i].order < jobs[j].order
       PROVE  i \in C
  <2> SUFFICES ASSUME i \notin C PROVE FALSE
    OBVIOUS
  <2>1. Open(J[i])
    BY <1>7, <1>11
  <2>2. j \in Rows /\ Lane(J[i]) = Lane(J[j]) /\ J[i].order < J[j].order
    BY <1>1, <1>5, <1>11
  <2>3. \A k \in Rows : Open(J[k]) => J[k].attempts < MaxAttempts
    BY <1>1
  <2> HIDE DEF J
  <2> QED BY <1>1, <1>4, <2>1, <2>2, <2>3, LaneTakenTogether
<1>12. ASSUME NEW j \in C, NEW u \in Rows \ C, jobs'[u].state = "running",
              Lane(jobs[u]) = Lane(jobs[j])
       PROVE  /\ jobs[j].state = "running" => Lapsed(jobs[j])
              /\ Leased(jobs[u]) => jobs[j].order < jobs[u].order
              /\ \E k \in Rows : /\ Lane(jobs[k]) = Lane(jobs[j]) /\ Leased(jobs[k])
                                 /\ jobs[j].order < jobs[k].order
  <2>1. J[u].state = "running"
    BY <1>7, <1>12
  <2>2. J[u] = jobs[u] /\ Open(Swept[u]) /\ Lane(jobs[j]) \notin StaleLanes(Swept)
    BY <1>8, <1>12, <2>1
  <2>3. j \in Rows /\ j \in E /\ Available(J[j]) /\ Lane(jobs[j]) \in LockedLanes(J)
    BY <1>1, <1>5, <1>6, <1>12
  <2>4. J[j] = jobs[j] /\ Open(Swept[j])
    <3>1. Open(J[j])
      BY <2>3 DEF Available, Open, Lapsed
    <3> QED BY <1>1, <2>2, <2>3, <3>1
  <2>5. \A k \in Rows : Lane(jobs[k]) = Lane(jobs[j]) /\ Leased(Swept[k])
                          => J[k] = jobs[k] /\ Leased(jobs[k]) /\ jobs[j].order < jobs[k].order
    <3> SUFFICES ASSUME NEW k \in Rows, Lane(jobs[k]) = Lane(jobs[j]), Leased(Swept[k])
                 PROVE  J[k] = jobs[k] /\ Leased(jobs[k]) /\ jobs[j].order < jobs[k].order
      OBVIOUS
    <3>1. Open(Swept[k])
      BY DEF Leased, Open
    <3>2. J[k] = jobs[k] /\ Leased(jobs[k])
      BY <1>1, <1>2, <2>2, <3>1
    <3>3. Blocks(J[k])
      BY <3>2 DEF Blocks, Leased, Open
    <3> QED BY <1>1, <1>6, <2>3, <3>2, <3>3
  <2>6. jobs[j].state = "running" => Lapsed(jobs[j])
    BY <2>3, <2>4 DEF Available
  <2>7. Leased(jobs[u]) => jobs[j].order < jobs[u].order
    BY <1>2, <1>12, <2>2, <2>5
  <2>8. \E k \in Rows : Lane(jobs[k]) = Lane(jobs[j]) /\ Leased(Swept[k])
    <3> SUFFICES ASSUME \A k \in Rows : Lane(jobs[k]) = Lane(jobs[j]) => ~Leased(Swept[k])
                 PROVE  FALSE
      OBVIOUS
    <3>1. Swept[u] = jobs[u] /\ Swept[u].state = "running"
      BY <1>2, <2>1, <2>2
    <3>2. Lapsed(Swept[u])
      <4>1. jobs[u].age \in Int /\ Lease \in Int
        BY BoundsAssumption DEF TypeOK, Row, BoundsAssumption
      <4> QED BY <1>12, <3>1, <4>1 DEF Lapsed, Leased
    <3>3. Lane(jobs[j]) \in StaleLanes(Swept)
      BY <1>3, <1>12, <2>3, <3>2, StaleIsReset
    <3> QED BY <2>2, <3>3
  <2> QED BY <2>5, <2>6, <2>7, <2>8
<1>13. ASSUME NEW i \in Rows \ C, NEW u \in Rows \ C, Open(jobs'[i]), jobs'[u].state = "running",
              Lane(jobs[u]) = Lane(jobs[i])
       PROVE  jobs'[i] = jobs[i]
  <2>1. Lane(jobs[i]) \notin StaleLanes(Swept) /\ jobs'[i] = J[i] /\ Open(J[i])
    BY <1>7, <1>8, <1>13
  <2> QED BY <1>1, <2>1
<1> HIDE DEF C
<1>14. ClaimLane(C)
  BY <1>9, <1>10, <1>11, <1>12, <1>13 DEF ClaimLane
<1> QED BY <1>14 DEF C

\* Rows are inserted in the order of their identity values.
InsertedInOrder ==
    \A i, j \in Rows : i < j /\ jobs[j].state # "absent" => jobs[i].state # "absent"

\* A claim knows the lane of its row.
TokensInLane ==
    \A w \in Workers : \A t \in held[w] :
        jobs[t.job].state # "absent" /\ t.lane = Lane(jobs[t.job])

\* A worker still means to work on a job it owns.
Active(w, u) == u \in held[w] /\ Owns(u) /\ stage[w][u.lane] # "blocked"

\* Whoever means to work on a job owns every earlier open job of the lane too, and has
\* them before it in its batch.
Covered ==
    \A w \in Workers : \A u \in held[w] : Active(w, u) =>
        \A i \in Rows :
            Open(jobs[i]) /\ Lane(jobs[i]) = u.lane /\ jobs[i].order < jobs[u.job].order =>
                \E s \in held[w] : s.job = i /\ Owns(s) /\ s.pos < u.pos

\* The jobs of a lane that a worker owns were claimed at the same time.
SameAge ==
    \A w \in Workers : \A s, u \in held[w] :
        Owns(s) /\ Owns(u) /\ s.lane = u.lane => jobs[s.job].age = jobs[u.job].age

\* The lease of a job somebody means to work on does not end before those behind it.
Younger ==
    \A w \in Workers : \A u \in held[w] : Active(w, u) =>
        \A k \in Rows :
            /\ jobs[k].state = "running" /\ Lane(jobs[k]) = u.lane
            /\ jobs[u.job].order < jobs[k].order
            => jobs[u.job].age =< jobs[k].age

LaneTable == InsertedInOrder /\ RunningIsDue /\ TokensInLane
LaneClaims == Covered /\ SameAge /\ Younger
LaneInv == LaneTable /\ LaneClaims

\* A step that inserts nothing, keeps every source and starts no job keeps the table part.
LEMMA LaneTableKept ==
    ASSUME TypeOK, LaneTable,
           \A j \in Rows : /\ jobs'[j].target = jobs[j].target
                           /\ jobs'[j].state = "absent" <=> jobs[j].state = "absent"
                           /\ jobs'[j].state = "running" =>
                                jobs[j].state = "running" /\ jobs'[j].wait = jobs[j].wait,
           \A v \in Workers : held'[v] \subseteq held[v]
    PROVE  LaneTable'
<1>1. InsertedInOrder' /\ RunningIsDue'
  BY DEF LaneTable, InsertedInOrder, RunningIsDue
<1>2. \A w \in Workers : \A t \in held[w] : t.job \in Rows
  BY DEF TypeOK, Token
<1>3. TokensInLane'
  BY <1>2 DEF LaneTable, TokensInLane, Lane
<1> QED BY <1>1, <1>3 DEF LaneTable

\* A step that hands out no claim keeps the claims part, if it keeps queue orders and ages,
\* revives no lane, and takes no open job out of the middle of what a worker owns.
LEMMA LaneClaimsKept ==
    ASSUME TypeOK, LaneClaims,
           \A j \in Rows : /\ jobs'[j].target = jobs[j].target /\ jobs'[j].order = jobs[j].order
                           /\ Open(jobs'[j]) => Open(jobs[j])
                           /\ jobs'[j].state = "running" =>
                                jobs[j].state = "running" /\ jobs'[j].age = jobs[j].age,
           \A v \in Workers : held'[v] \subseteq held[v],
           \A v \in Workers : \A u \in held'[v] :
             /\ Owns(u)' => Owns(u)
             /\ stage[v][u.lane] = "blocked" => stage'[v][u.lane] = "blocked",
           \A v \in Workers : \A s \in held[v] : \A u \in held'[v] :
             Owns(s) /\ Open(jobs'[s.job]) /\ Active(v, u)' /\ s.lane = u.lane
               => s \in held'[v] /\ Owns(s)',
           TokensInLane
    PROVE  LaneClaims'
<1>1. \A v \in Workers : \A u \in held[v] : u.job \in Rows /\ u \in Token
  BY DEF TypeOK, Token
<1>2. ASSUME NEW v \in Workers, NEW u \in held'[v], Active(v, u)'
      PROVE  u \in held[v] /\ Active(v, u) /\ u.job \in Rows
  BY <1>1, <1>2 DEF Active
<1>3. Covered'
  <2> SUFFICES ASSUME NEW v \in Workers, NEW u \in held'[v], Active(v, u)', NEW i \in Rows,
                      Open(jobs'[i]), Lane(jobs'[i]) = u.lane, jobs'[i].order < jobs'[u.job].order
               PROVE  \E s \in held'[v] : s.job = i /\ Owns(s)' /\ s.pos < u.pos
    BY DEF Covered
  <2>1. u \in held[v] /\ Active(v, u) /\ u.job \in Rows
    BY <1>2
  <2>2. Open(jobs[i]) /\ Lane(jobs[i]) = u.lane /\ jobs[i].order < jobs[u.job].order
    BY <2>1 DEF Lane
  <2>3. PICK s \in held[v] : s.job = i /\ Owns(s) /\ s.pos < u.pos
    BY <2>1, <2>2 DEF LaneClaims, Covered
  <2>4. s.lane = u.lane
    BY <2>2, <2>3 DEF TokensInLane
  <2>5. s \in held'[v] /\ Owns(s)'
    BY <2>3, <2>4
  <2> QED BY <2>3, <2>5
<1>4. SameAge'
  <2> SUFFICES ASSUME NEW v \in Workers, NEW s \in held'[v], NEW u \in held'[v],
                      Owns(s)', Owns(u)', s.lane = u.lane
               PROVE  jobs'[s.job].age = jobs'[u.job].age
    BY DEF SameAge
  <2>1. s \in held[v] /\ u \in held[v] /\ Owns(s) /\ Owns(u) /\ s.job \in Rows /\ u.job \in Rows
    BY <1>1
  <2>2. jobs'[s.job].age = jobs[s.job].age /\ jobs'[u.job].age = jobs[u.job].age
    BY <2>1 DEF Owns
  <2> QED BY <2>1, <2>2 DEF LaneClaims, SameAge
<1>5. Younger'
  <2> SUFFICES ASSUME NEW v \in Workers, NEW u \in held'[v], Active(v, u)', NEW k \in Rows,
                      jobs'[k].state = "running", Lane(jobs'[k]) = u.lane,
                      jobs'[u.job].order < jobs'[k].order
               PROVE  jobs'[u.job].age =< jobs'[k].age
    BY DEF Younger
  <2>1. u \in held[v] /\ Active(v, u) /\ u.job \in Rows
    BY <1>2
  <2>2. /\ jobs'[u.job].age = jobs[u.job].age /\ jobs'[k].age = jobs[k].age
        /\ jobs[k].state = "running" /\ Lane(jobs[k]) = u.lane
        /\ jobs[u.job].order < jobs[k].order
    BY <2>1 DEF Active, Owns, Lane
  <2> QED BY <2>1, <2>2 DEF LaneClaims, Younger
<1> QED BY <1>3, <1>4, <1>5 DEF LaneClaims

\* The inserts, in the order of their identity values: a new row is last in its lane.
LEMMA EnqueueLane ==
    ASSUME InOrder, QueueInv, OrderInv, LaneInv,
           NEW j \in Rows, NEW t \in Targets, NEW c \in Compilers, Enqueue(j, t, c)
    PROVE  LaneInv'
<1>1. /\ jobs \in [Rows -> Row] /\ jobs[j].state = "absent" /\ jobs[j].order = j
      /\ jobs'[j] = Queued(jobs[j], t, c) /\ \A i \in Rows \ {j} : jobs'[i] = jobs[i]
      /\ UNCHANGED <<held, stage>>
      /\ \A i \in Rows : i < j => jobs[i].state # "absent"
  BY DEF Enqueue, QueueInv, TypeOK, OrderInv, OrdersUsed
<1>2. jobs'[j].state = "queued" /\ jobs'[j].order = j
  BY <1>1, QueuedType
<1>3. \A v \in Workers : \A u \in held[v] : u.job \in Rows /\ u.job # j /\ jobs'[u.job] = jobs[u.job]
  BY <1>1 DEF QueueInv, TypeOK, Token, LaneInv, LaneTable, TokensInLane
<1>4. \A v \in Workers : \A u \in held[v] : Owns(u)' <=> Owns(u)
  BY <1>3 DEF Owns, Matches, Found, Present
<1>5. InsertedInOrder'
  BY <1>1, <1>2 DEF LaneInv, LaneTable, InsertedInOrder
<1>6. RunningIsDue'
  BY <1>1, <1>2 DEF LaneInv, LaneTable, RunningIsDue
<1>7. TokensInLane'
  BY <1>1, <1>3 DEF LaneInv, LaneTable, TokensInLane, Lane
<1>8. \A v \in Workers : \A u \in held[v] : ~(j < jobs[u.job].order)
  <2> SUFFICES ASSUME NEW v \in Workers, NEW u \in held[v], j < jobs[u.job].order PROVE FALSE
    OBVIOUS
  <2>1. jobs[u.job].order \in Rows /\ jobs[u.job].state # "absent"
    BY <1>1, <1>3 DEF Row, LaneInv, LaneTable, TokensInLane
  <2>2. jobs[jobs[u.job].order].state # "absent"
    BY <1>3, <2>1 DEF OrderInv, OrdersUsed
  <2> QED BY <1>1, <2>1, <2>2 DEF LaneInv, LaneTable, InsertedInOrder
<1>9. Covered'
  <2> SUFFICES ASSUME NEW v \in Workers, NEW u \in held[v], Active(v, u)', NEW i \in Rows,
                      Open(jobs'[i]), Lane(jobs'[i]) = u.lane, jobs'[i].order < jobs'[u.job].order
               PROVE  \E s \in held[v] : s.job = i /\ Owns(s)' /\ s.pos < u.pos
    BY <1>1 DEF Covered
  <2>1. i # j /\ Active(v, u)
    BY <1>1, <1>2, <1>3, <1>4, <1>8 DEF Active
  <2>2. PICK s \in held[v] : s.job = i /\ Owns(s) /\ s.pos < u.pos
    BY <1>1, <1>3, <2>1 DEF LaneInv, LaneClaims, Covered
  <2> QED BY <1>4, <2>2
<1>10. SameAge'
  BY <1>1, <1>3, <1>4 DEF LaneInv, LaneClaims, SameAge
<1>11. Younger'
  <2> SUFFICES ASSUME NEW v \in Workers, NEW u \in held[v], Active(v, u)', NEW k \in Rows,
                      jobs'[k].state = "running", Lane(jobs'[k]) = u.lane,
                      jobs'[u.job].order < jobs'[k].order
               PROVE  jobs'[u.job].age =< jobs'[k].age
    BY <1>1 DEF Younger
  <2>1. k # j /\ Active(v, u)
    BY <1>1, <1>2, <1>4 DEF Active
  <2> QED BY <1>1, <1>3, <2>1 DEF LaneInv, LaneClaims, Younger
<1> QED BY <1>5, <1>6, <1>7, <1>9, <1>10, <1>11 DEF LaneInv, LaneTable, LaneClaims

\* An erased lane has no claims that match any more.
LEMMA EraseLane ==
    ASSUME QueueInv, LaneInv, NEW l \in Lanes, EraseSubject(l)
    PROVE  LaneInv'
<1>1. /\ UNCHANGED <<held, stage>> /\ TypeOK /\ LaneTable /\ LaneClaims /\ TokensInLane
  BY DEF EraseSubject, QueueInv, LaneInv, LaneTable
<1>2. \A j \in Rows : \/ jobs'[j] = jobs[j]
                      \/ /\ jobs'[j].state = "erased" /\ jobs[j].state # "absent"
                         /\ jobs'[j].target = jobs[j].target /\ jobs'[j].order = jobs[j].order
  BY <1>1, ErasedType DEF EraseSubject, TypeOK, Present
<1>3. \A v \in Workers : \A u \in held[v] : u.job \in Rows
  BY <1>1 DEF TypeOK, Token
<1>4. \A v \in Workers : \A u \in held[v] : /\ Owns(u)' => Owns(u)
                                            /\ Owns(u) /\ Open(jobs'[u.job]) => Owns(u)'
  BY <1>2, <1>3 DEF Owns, Matches, Found, Present, Open
<1>5. LaneTable'
  BY <1>1, <1>2, LaneTableKept
<1>6. \A j \in Rows : /\ jobs'[j].target = jobs[j].target /\ jobs'[j].order = jobs[j].order
                      /\ Open(jobs'[j]) => Open(jobs[j])
                      /\ jobs'[j].state = "running" =>
                           jobs[j].state = "running" /\ jobs'[j].age = jobs[j].age
  BY <1>2 DEF Open
<1>7. LaneClaims'
  BY <1>1, <1>4, <1>6, LaneClaimsKept
<1> QED BY <1>5, <1>7 DEF LaneInv

\* A crash and an abandoned lane drop all claims of the lane together.
LEMMA DropLane ==
    ASSUME QueueInv, WorkerInv, LaneInv, NEW w \in Workers,
           Crash(w) \/ \E l \in Lanes : AbandonLane(w, l)
    PROVE  LaneInv'
<1>1. TypeOK /\ LaneTable /\ LaneClaims /\ TokensInLane
  BY DEF QueueInv, LaneInv, LaneTable
<1>2. UNCHANGED <<jobs, erased, writes>> /\ \A v \in Workers : held'[v] \subseteq held[v]
  BY <1>1, DropWorker
<1>3. \A v \in Workers : \A s \in held[v] : \A u \in held'[v] :
         s.lane = u.lane => s \in held'[v] /\ stage'[v][u.lane] = stage[v][u.lane]
  <2>1. CASE Crash(w)
    BY <1>1, <2>1 DEF Crash, TypeOK
  <2>2. ASSUME NEW l \in Lanes, AbandonLane(w, l)
        PROVE  \A v \in Workers : \A s \in held[v] : \A u \in held'[v] :
                  s.lane = u.lane => s \in held'[v] /\ stage'[v][u.lane] = stage[v][u.lane]
    <3>1. \A v \in Workers : \A u \in held[v] : u.lane \in Lanes
      BY <1>1 DEF TypeOK, Token
    <3> QED BY <1>1, <2>2, <3>1 DEF AbandonLane, TypeOK, InLane
  <2> QED BY <2>1, <2>2
<1>4. \A u : Owns(u)' <=> Owns(u)
  BY <1>2 DEF Owns, Matches, Found
<1>5. \A v \in Workers : \A u \in held'[v] : stage'[v][u.lane] = stage[v][u.lane]
  BY <1>2, <1>3
<1> QED BY <1>1, <1>2, <1>3, <1>4, <1>5, LaneTableKept, LaneClaimsKept DEF LaneInv

\* Ages grow alike and stop growing alike.
LEMMA TickLane ==
    ASSUME QueueInv, LaneInv, Tick
    PROVE  LaneInv'
<1>1. /\ TypeOK /\ LaneTable /\ LaneClaims /\ UNCHANGED <<held, stage>>
      /\ jobs' = [j \in Rows |-> Aged(jobs[j])] /\ jobs \in [Rows -> Row]
  BY DEF QueueInv, LaneInv, TypeOK, Tick
<1>2. ASSUME NEW j \in Rows
      PROVE  /\ jobs'[j].state = jobs[j].state /\ jobs'[j].target = jobs[j].target
             /\ jobs'[j].order = jobs[j].order /\ jobs'[j].compiler = jobs[j].compiler
             /\ jobs'[j].gen = jobs[j].gen /\ jobs'[j].attempts = jobs[j].attempts
  BY <1>1, AgedType
<1>3. ASSUME NEW j \in Rows, jobs[j].state = "running"
      PROVE  /\ jobs'[j].wait = jobs[j].wait
             /\ jobs'[j].age = IF jobs[j].age =< Lease THEN jobs[j].age + 1 ELSE jobs[j].age
  <2>1. jobs[j].wait = 0 /\ jobs[j] \in Row /\ jobs'[j] = Aged(jobs[j])
    BY <1>1, <1>3 DEF LaneTable, RunningIsDue
  <2> QED BY <1>3, <2>1 DEF Aged, Row
<1>4. LaneTable'
  BY <1>1, <1>2, <1>3, LaneTableKept
<1>5. \A v \in Workers : \A u \in held[v] : u.job \in Rows /\ (Owns(u)' <=> Owns(u))
  <2>1. \A v \in Workers : \A u \in held[v] : u.job \in Rows
    BY <1>1 DEF TypeOK, Token
  <2> QED BY <1>2, <2>1 DEF Owns, Matches, Found, Present
<1>6. \A v \in Workers : \A u \in held[v] : Active(v, u)' <=> Active(v, u)
  BY <1>1, <1>5 DEF Active
<1>7. Covered'
  BY <1>1, <1>2, <1>5, <1>6 DEF LaneClaims, Covered, Open, Lane
<1>8. SameAge'
  BY <1>1, <1>3, <1>5 DEF LaneClaims, SameAge, Owns
<1>9. Younger'
  <2> SUFFICES ASSUME NEW v \in Workers, NEW u \in held[v], Active(v, u)', NEW k \in Rows,
                      jobs'[k].state = "running", Lane(jobs'[k]) = u.lane,
                      jobs'[u.job].order < jobs'[k].order
               PROVE  jobs'[u.job].age =< jobs'[k].age
    BY <1>1 DEF Younger
  <2>1. u.job \in Rows /\ Active(v, u) /\ jobs[u.job].state = "running"
        /\ jobs[k].state = "running"
    BY <1>2, <1>5, <1>6 DEF Active, Owns
  <2>2. jobs[u.job].age =< jobs[k].age
    BY <1>1, <1>2, <2>1 DEF LaneClaims, Younger, Lane
  <2>3. jobs[u.job].age \in Int /\ jobs[k].age \in Int /\ Lease \in Int
    BY <1>1, <2>1, BoundsAssumption DEF Row, BoundsAssumption
  <2> QED BY <1>3, <2>1, <2>2, <2>3
<1> QED BY <1>4, <1>7, <1>8, <1>9 DEF LaneInv, LaneClaims

\* A claim that another worker still has after a claim transaction is as it was, and its
\* row was not handed out again.
LEMMA ClaimSpares ==
    ASSUME QueueInv, NEW w \in Workers, ClaimRows(w, Taken), ClaimLane(Taken),
           NEW v \in Workers, NEW u \in held[v], Owns(u)'
    PROVE  u.job \in Rows \ Taken /\ jobs'[u.job] = jobs[u.job] /\ Owns(u)
<1>1. /\ u \in Token /\ u.job \in Rows /\ jobs[u.job] \in Row /\ jobs'[u.job] \in Row
      /\ Advanced(u, jobs[u.job])
  BY DEF QueueInv, TypeOK, Token, TokenInv, TokensBehind, ClaimRows
<1>2. /\ jobs'[u.job].gen = u.gen /\ jobs'[u.job].attempts = u.attempts
      /\ jobs'[u.job].state = "running"
  BY DEF Owns, Matches
<1>3. u.job \notin Taken
  <2>1. u.job \in Taken => /\ jobs'[u.job].attempts = jobs[u.job].attempts + 1
                           /\ jobs'[u.job].gen >= jobs[u.job].gen
    BY <1>1 DEF ClaimRows
  <2> QED BY <1>1, <1>2, <2>1 DEF Advanced, Token, Row
<1>4. jobs'[u.job] = jobs[u.job]
  BY <1>1, <1>2, <1>3 DEF ClaimLane
<1>5. Owns(u)
  BY <1>4 DEF Owns, Matches, Found
<1> QED BY <1>1, <1>3, <1>4, <1>5

\* The claim transaction.  The worker gets a prefix of each lane; and it takes nothing from
\* the middle of a lane that another worker is still at work in, since the lease of that
\* worker's first job would have to have ended with a later one still running.
LEMMA ClaimLaneInv ==
    ASSUME QueueInv, OpenOrdersDiffer, LaneInv, NEW w \in Workers, Claim(w)
    PROVE  LaneInv'
<1> DEFINE C == Taken
<1>1. /\ TypeOK /\ LaneTable /\ LaneClaims /\ RunningIsDue /\ TokensInLane
      /\ jobs \in [Rows -> Row] /\ held \in [Workers -> SUBSET Token]
  BY DEF QueueInv, LaneInv, LaneTable, TypeOK
<1>2. C \in SUBSET Rows /\ ClaimRows(w, C) /\ ClaimLane(C)
  BY <1>1, ClaimEffect, ClaimLanes
<1>3. /\ held'[w] = {TokenOf(j, jobs'[j]) : j \in C} /\ held[w] = {} /\ stage' = stage
      /\ \A v \in Workers \ {w} : held'[v] = held[v]
      /\ jobs' \in [Rows -> Row]
  BY <1>1, <1>2 DEF ClaimRows, Claim
<1>4. \A j \in Rows : /\ jobs'[j].target = jobs[j].target /\ jobs'[j].order = jobs[j].order
                      /\ Lane(jobs'[j]) = Lane(jobs[j])
                      /\ Open(jobs'[j]) => Open(jobs[j])
                      /\ ~Open(jobs[j]) => jobs'[j] = jobs[j]
                      /\ Open(jobs[j]) => jobs'[j].state # "absent"
  <2>1. \A j \in Rows : /\ SameJob(jobs[j], jobs'[j])
                        /\ ~Open(jobs[j]) => jobs'[j] = jobs[j]
                        /\ Open(jobs[j]) => jobs'[j].state \in {"queued", "running", "dead"}
    BY <1>2 DEF ClaimRows
  <2> QED BY <2>1 DEF SameJob, Lane
<1>5. \A j \in Rows : jobs[j].order \in Nat /\ jobs[j].age \in Int /\ jobs'[j].age \in Nat
  <2>1. ASSUME NEW r \in Row PROVE r.order \in Nat /\ r.age \in Nat
    <3>1. r.order \in Rows /\ r.age \in 0..Lease + 1
      BY DEF Row
    <3>2. r.order \in Nat
      BY <3>1, RowsAssumption DEF RowsAssumption
    <3>3. r.age \in Nat
      BY <3>1, BoundsAssumption DEF BoundsAssumption
    <3> QED BY <3>2, <3>3
  <2> QED BY <1>1, <1>3, <2>1
<1>6. ASSUME NEW u \in held'[w]
      PROVE  /\ u.job \in C /\ u.lane = Lane(jobs[u.job]) /\ u.pos = jobs[u.job].order
             /\ Owns(u)' /\ jobs'[u.job].age = 0
  <2>1. PICK j \in C : u = TokenOf(j, jobs'[j])
    BY <1>3, <1>6
  <2>2. jobs'[j].state = "running" /\ jobs'[j].age = 0 /\ j \in Rows
    BY <1>2 DEF ClaimLane
  <2> QED BY <1>4, <2>1, <2>2 DEF TokenOf, Owns, Matches, Found, Present
<1>7. ASSUME NEW j \in C PROVE TokenOf(j, jobs'[j]) \in held'[w] /\ TokenOf(j, jobs'[j]).job = j
  BY <1>3, <1>7 DEF TokenOf
<1>8. ASSUME NEW v \in Workers \ {w}, NEW u \in held[v], Owns(u)'
      PROVE  u.job \in Rows \ C /\ jobs'[u.job] = jobs[u.job] /\ Owns(u)
             /\ jobs[u.job].state = "running" /\ u.lane = Lane(jobs[u.job])
  <2>1. u.job \in Rows \ C /\ jobs'[u.job] = jobs[u.job] /\ Owns(u)
    BY <1>2, <1>8, ClaimSpares
  <2> QED BY <1>1, <1>8, <2>1 DEF TokensInLane, Owns
<1>9. ASSUME NEW j \in C, NEW k \in Rows \ C, jobs'[k].state = "running",
             Lane(jobs[k]) = Lane(jobs[j])
      PROVE  /\ jobs[j].state = "running" => Lapsed(jobs[j])
             /\ Leased(jobs[k]) => jobs[j].order < jobs[k].order
             /\ \E m \in Rows : /\ Lane(jobs[m]) = Lane(jobs[j]) /\ Leased(jobs[m])
                                /\ jobs[j].order < jobs[m].order
  BY <1>2, <1>9 DEF ClaimLane
<1>10. LaneTable'
  <2>1. InsertedInOrder'
    <3>1. \A j \in Rows : jobs'[j].state = "absent" <=> jobs[j].state = "absent"
      BY <1>4 DEF Open
    <3> QED BY <1>1, <3>1 DEF LaneTable, InsertedInOrder
  <2>2. RunningIsDue'
    BY <1>1, <1>2 DEF ClaimLane, RunningIsDue
  <2>3. TokensInLane'
    <3> SUFFICES ASSUME NEW v \in Workers, NEW u \in held'[v]
                 PROVE  jobs'[u.job].state # "absent" /\ u.lane = Lane(jobs'[u.job])
      BY DEF TokensInLane
    <3>1. CASE v = w
      BY <1>2, <1>4, <1>6, <3>1 DEF Owns
    <3>2. CASE v # w
      <4>1. u \in held[v] /\ u.job \in Rows
        BY <1>1, <1>3, <3>2 DEF Token
      <4> QED BY <1>1, <1>4, <4>1 DEF TokensInLane
    <3> QED BY <3>1, <3>2
  <2> QED BY <2>1, <2>2, <2>3 DEF LaneTable
<1> HIDE DEF C
<1>11. Covered'
  <2> SUFFICES ASSUME NEW v \in Workers, NEW u \in held'[v], Active(v, u)', NEW i \in Rows,
                      Open(jobs'[i]), Lane(jobs'[i]) = u.lane, jobs'[i].order < jobs'[u.job].order
               PROVE  \E s \in held'[v] : s.job = i /\ Owns(s)' /\ s.pos < u.pos
    BY DEF Covered
  <2>1. CASE v = w
    <3>1. u.job \in C /\ u.lane = Lane(jobs[u.job]) /\ u.pos = jobs[u.job].order
      BY <1>6, <2>1
    <3>2. Lane(jobs[i]) = Lane(jobs[u.job]) /\ jobs[i].order < jobs[u.job].order
      BY <1>2, <1>4, <3>1
    <3>3. i \in C
      BY <1>2, <3>1, <3>2 DEF ClaimLane
    <3>4. PICK s \in held'[w] : s.job = i
      BY <1>7, <3>3
    <3>5. Owns(s)' /\ s.pos = jobs[i].order
      BY <1>6, <3>4
    <3> QED BY <2>1, <3>1, <3>2, <3>4, <3>5
  <2>2. CASE v # w
    <3>1. u \in held[v] /\ Owns(u)'
      BY <1>3, <2>2 DEF Active
    <3>2. /\ u.job \in Rows \ C /\ jobs'[u.job] = jobs[u.job] /\ Owns(u)
          /\ jobs[u.job].state = "running" /\ u.lane = Lane(jobs[u.job])
      BY <1>8, <2>2, <3>1
    <3>3. Active(v, u)
      BY <1>3, <3>1, <3>2 DEF Active
    <3>4. Open(jobs[i]) /\ Lane(jobs[i]) = u.lane /\ jobs[i].order < jobs[u.job].order
      BY <1>4, <3>2
    <3>5. PICK s \in held[v] : s.job = i /\ Owns(s) /\ s.pos < u.pos
      BY <1>1, <3>1, <3>3, <3>4 DEF LaneClaims, Covered
    <3>6. s.lane = u.lane /\ jobs[i].state = "running" /\ jobs[i].age = jobs[u.job].age
      BY <1>1, <3>1, <3>2, <3>4, <3>5 DEF LaneClaims, SameAge, TokensInLane, Owns
    <3>7. i \notin C
      <4> SUFFICES ASSUME i \in C PROVE FALSE
        OBVIOUS
      <4>1. Lapsed(jobs[i])
        BY <1>9, <3>2, <3>4, <3>6
      <4>2. PICK m \in Rows : /\ Lane(jobs[m]) = Lane(jobs[i]) /\ Leased(jobs[m])
                              /\ jobs[i].order < jobs[m].order
        BY <1>9, <3>2, <3>4
      <4>3. CASE jobs[m].order < jobs[u.job].order
        <5>1. PICK x \in held[v] : x.job = m /\ Owns(x)
          BY <1>1, <3>1, <3>3, <3>4, <4>2, <4>3 DEF LaneClaims, Covered, Leased, Open
        <5>2. x.lane = u.lane
          BY <1>1, <3>4, <4>2, <5>1 DEF TokensInLane
        <5>3. jobs[m].age = jobs[u.job].age
          BY <1>1, <3>1, <3>2, <5>1, <5>2 DEF LaneClaims, SameAge
        <5> QED BY <3>6, <4>1, <4>2, <5>3, <1>5, BoundsAssumption
                DEF Lapsed, Leased, BoundsAssumption
      <4>4. CASE jobs[m].order = jobs[u.job].order
        <5>1. m = u.job
          BY <3>2, <4>2, <4>4 DEF OpenOrdersDiffer, Open, Leased
        <5> QED BY <3>6, <4>1, <4>2, <5>1, <1>5, BoundsAssumption
                DEF Lapsed, Leased, BoundsAssumption
      <4>5. CASE jobs[u.job].order < jobs[m].order
        <5>1. jobs[u.job].age =< jobs[m].age
          BY <1>1, <3>1, <3>3, <3>4, <4>2, <4>5 DEF LaneClaims, Younger, Leased
        <5> QED BY <3>2, <3>6, <4>1, <4>2, <5>1, <1>5, BoundsAssumption
                DEF Lapsed, Leased, BoundsAssumption
      <4>6. jobs[m].order \in Nat /\ jobs[u.job].order \in Nat
        BY <1>5, <3>2
      <4> QED BY <4>3, <4>4, <4>5, <4>6
    <3>8. jobs'[i] = jobs[i]
      BY <1>2, <1>4, <3>2, <3>4, <3>7 DEF ClaimLane
    <3>9. s \in held'[v] /\ Owns(s)'
      BY <1>3, <2>2, <3>5, <3>8 DEF Owns, Matches, Found
    <3> QED BY <3>5, <3>9
  <2> QED BY <2>1, <2>2
<1>12. SameAge'
  <2> SUFFICES ASSUME NEW v \in Workers, NEW s \in held'[v], NEW u \in held'[v],
                      Owns(s)', Owns(u)', s.lane = u.lane
               PROVE  jobs'[s.job].age = jobs'[u.job].age
    BY DEF SameAge
  <2>1. CASE v = w
    BY <1>6, <2>1
  <2>2. CASE v # w
    <3>1. s \in held[v] /\ u \in held[v]
      BY <1>3, <2>2
    <3>2. /\ jobs'[s.job] = jobs[s.job] /\ jobs'[u.job] = jobs[u.job] /\ Owns(s) /\ Owns(u)
      BY <1>8, <2>2, <3>1
    <3> QED BY <1>1, <3>1, <3>2 DEF LaneClaims, SameAge
  <2> QED BY <2>1, <2>2
<1>13. Younger'
  <2> SUFFICES ASSUME NEW v \in Workers, NEW u \in held'[v], Active(v, u)', NEW k \in Rows,
                      jobs'[k].state = "running", Lane(jobs'[k]) = u.lane,
                      jobs'[u.job].order < jobs'[k].order
               PROVE  jobs'[u.job].age =< jobs'[k].age
    BY DEF Younger
  <2>1. CASE v = w
    BY <1>5, <1>6, <2>1
  <2>2. CASE v # w
    <3>1. u \in held[v] /\ Owns(u)'
      BY <1>3, <2>2 DEF Active
    <3>2. /\ u.job \in Rows \ C /\ jobs'[u.job] = jobs[u.job] /\ Owns(u)
          /\ jobs[u.job].state = "running" /\ u.lane = Lane(jobs[u.job])
      BY <1>8, <2>2, <3>1
    <3>3. Active(v, u)
      BY <1>3, <3>1, <3>2 DEF Active
    <3>4. Lane(jobs[k]) = u.lane /\ jobs[u.job].order < jobs[k].order
      BY <1>4, <3>2
    <3>5. CASE k \notin C
      <4>1. jobs'[k] = jobs[k]
        BY <1>2, <3>5 DEF ClaimLane
      <4> QED BY <1>1, <3>1, <3>2, <3>3, <3>4, <4>1 DEF LaneClaims, Younger
    <3>6. CASE k \in C
      <4>1. PICK m \in Rows : /\ Lane(jobs[m]) = Lane(jobs[k]) /\ Leased(jobs[m])
                              /\ jobs[k].order < jobs[m].order
        BY <1>9, <3>2, <3>4, <3>6
      <4>2. jobs[u.job].order < jobs[m].order
        BY <1>5, <3>2, <3>4, <4>1
      <4>3. jobs[u.job].age =< jobs[m].age
        BY <1>1, <3>1, <3>3, <3>4, <4>1, <4>2 DEF LaneClaims, Younger, Leased
      <4>4. Leased(jobs[u.job])
        BY <1>5, <3>2, <4>1, <4>3, BoundsAssumption DEF Leased, BoundsAssumption
      <4>5. jobs[k].order < jobs[u.job].order
        BY <1>9, <3>2, <3>4, <3>6, <4>4
      <4> QED BY <1>5, <3>2, <3>4, <4>5
    <3> QED BY <3>5, <3>6
  <2> QED BY <2>1, <2>2
<1> QED BY <1>10, <1>11, <1>12, <1>13 DEF LaneInv, LaneClaims

\* A worker's step on a job either leaves its lane's claims alone, gives up an unowned or
\* settled one, or blocks the lane; and nothing brings a blocked lane back to work.
LEMMA StepStages ==
    ASSUME TypeOK, WorkerInv, NEW w \in Workers, NEW t \in held[w], Step(w, t)
    PROVE  /\ \A v \in Workers : \A u \in held'[v] :
                /\ u \in held[v]
                /\ stage[v][u.lane] = "blocked" => stage'[v][u.lane] = "blocked"
           /\ \A v \in Workers : \A s \in held[v] : s \in held'[v] \/ (v = w /\ s = t)
<1>1. /\ t.lane \in Lanes /\ held \in [Workers -> SUBSET Token]
      /\ stage \in [Workers -> [Lanes -> Stages]]
  BY DEF TypeOK, Token
<1>2. PICK x \in Stages : Goto(w, t, x) \/ Leave(w, t, x)
  BY StepMoves
<1>3. \A v \in Workers : \A s \in held[v] : s \in held'[v] \/ (v = w /\ s = t)
  BY <1>1, <1>2 DEF Goto, Leave
<1>4. ASSUME NEW v \in Workers, NEW u \in held'[v], stage[v][u.lane] = "blocked"
      PROVE  stage'[v][u.lane] = "blocked"
  <2>1. u \in held[v] /\ u.lane \in Lanes
    BY <1>1, <1>2, <1>4 DEF Goto, Leave, Token
  <2>2. CASE v = w /\ u.lane = t.lane
    <3>1. ReleaseBlocked(w, t)
      BY <1>4, <2>2 DEF Step, RequeueWithCompiler, BeginPrepare, StorePrepared, CompileCommit,
         NothingToCompile, Crosschecked, Complete, Release, Fail, StepFails, ProviderFails,
         Failing, At
    <3>2. held'[w] = held[w] \ {t} /\ Leave(w, t, "blocked")
      BY <1>1, <3>1 DEF ReleaseBlocked, Leave
    <3>3. u \in InLane(w, t.lane) /\ u # t
      BY <1>4, <2>1, <2>2, <3>2 DEF InLane
    <3>4. InLane(w, t.lane) # {t}
      BY <3>3
    <3> QED BY <1>1, <2>2, <3>2, <3>4 DEF Leave
  <2>3. CASE ~(v = w /\ u.lane = t.lane)
    BY <1>1, <1>2, <1>4, <2>1, <2>3 DEF Goto, Leave
  <2> QED BY <2>2, <2>3
<1>5. \A v \in Workers : held'[v] \subseteq held[v]
  BY <1>2, MoveType
<1> QED BY <1>3, <1>4, <1>5

\* Giving up a job with its lane blocked leaves nobody of the lane at work.
LEMMA LeaveBlocked ==
    ASSUME TypeOK, NEW w \in Workers, NEW t \in held[w], Leave(w, t, "blocked"),
           NEW u \in held'[w], u.lane = t.lane
    PROVE  stage'[w][u.lane] = "blocked"
<1>1. /\ t.lane \in Lanes /\ held \in [Workers -> SUBSET Token]
      /\ stage \in [Workers -> [Lanes -> Stages]]
  BY DEF TypeOK, Token
<1>2. u \in held[w] /\ u # t
  BY <1>1 DEF Leave
<1>3. InLane(w, t.lane) # {t}
  BY <1>2 DEF InLane
<1> QED BY <1>1, <1>3 DEF Leave

\* The owner of a job writes its own row: what the row keeps, and what becomes of the claim.
OwnRow(w, t) ==
    /\ \A j \in Rows \ {t.job} : jobs'[j] = jobs[j]
    /\ jobs' = jobs \/ Owns(t)
    /\ LET r == jobs[t.job]  s == jobs'[t.job]
       IN  /\ s.target = r.target /\ s.order = r.order /\ s.compiler = r.compiler
           /\ s.gen = r.gen /\ s.attempts = r.attempts
           /\ s.state = "absent" <=> r.state = "absent"
           /\ Open(s) => Open(r)
           /\ s.state = "running" => r.state = "running" /\ s.age = r.age /\ s.wait = r.wait
    /\ \/ ~Owns(t) \/ ~Open(jobs'[t.job])
       \/ t \in held'[w] /\ jobs'[t.job].state = "running"
       \/ Leave(w, t, "blocked")

\* Every step but a requeue writes the row of its own claim.
LEMMA StepOwnRow ==
    ASSUME TypeOK, NEW w \in Workers, NEW t \in held[w], Step(w, t), ~RequeueWithCompiler(w, t)
    PROVE  OwnRow(w, t)
<1>1. t.job \in Rows /\ jobs \in [Rows -> Row] /\ jobs[t.job] \in Row
  BY DEF TypeOK, Token
<1>2. {"queued", "done", "dead"} \subseteq States
  BY DEF States
<1>3. ASSUME jobs' = jobs,
             \/ ~Owns(t)
             \/ t \in held'[w]
             \/ Leave(w, t, "blocked")
      PROVE  OwnRow(w, t)
  BY <1>1, <1>3 DEF OwnRow, Owns
<1>4. CASE QuietStep(w, t)
  BY <1>3, <1>4 DEF QuietStep, BeginPrepare, NothingToCompile, Crosschecked, StepFails,
                    ProviderFails, Failing, Goto
<1>5. CASE StorePrepared(w, t)
  <2>1. t \in held'[w]
    BY <1>5 DEF StorePrepared, Goto
  <2>2. CASE jobs' = jobs
    BY <1>3, <2>1, <2>2
  <2>3. CASE jobs' # jobs
    <3>1. Owns(t) /\ jobs' = [jobs EXCEPT ![t.job] = [@ EXCEPT !.result = "prepared"]]
      BY <1>5, <2>3 DEF StorePrepared
    <3>2. jobs'[t.job] = [jobs[t.job] EXCEPT !.result = "prepared"]
      BY <1>1, <3>1
    <3>3. LET r == jobs[t.job]  s == jobs'[t.job]
          IN  /\ s.target = r.target /\ s.order = r.order /\ s.compiler = r.compiler
              /\ s.gen = r.gen /\ s.attempts = r.attempts /\ s.state = r.state
              /\ s.age = r.age /\ s.wait = r.wait
      BY <1>1, <3>2 DEF Row
    <3> QED BY <1>1, <2>1, <3>1, <3>3 DEF OwnRow, Open, Owns
  <2> QED BY <2>2, <2>3
<1>6. ASSUME Owns(t), NEW x, jobs' = [jobs EXCEPT ![t.job] = x],
             x.target = jobs[t.job].target, x.order = jobs[t.job].order,
             x.compiler = jobs[t.job].compiler, x.gen = jobs[t.job].gen,
             x.attempts = jobs[t.job].attempts,
             x.state \in {"done", "dead"} \/ (x.state = "queued" /\ Leave(w, t, "blocked"))
      PROVE  OwnRow(w, t)
  <2>1. jobs'[t.job] = x /\ \A j \in Rows \ {t.job} : jobs'[j] = jobs[j]
    BY <1>1, <1>6
  <2>2. jobs[t.job].state = "running"
    BY <1>6 DEF Owns
  <2> QED BY <1>6, <2>1, <2>2 DEF OwnRow, Open
<1>7. ASSUME NEW s \in {"done", "dead"}, Owns(t),
             jobs' = [jobs EXCEPT ![t.job] = To(jobs[t.job], s)]
      PROVE  OwnRow(w, t)
  <2> DEFINE x == To(jobs[t.job], s)
  <2>1. /\ x.target = jobs[t.job].target /\ x.order = jobs[t.job].order
        /\ x.compiler = jobs[t.job].compiler /\ x.gen = jobs[t.job].gen
        /\ x.attempts = jobs[t.job].attempts /\ x.state = s
    BY <1>1, <1>2, <1>7, ToType
  <2> HIDE DEF x
  <2>2. jobs' = [jobs EXCEPT ![t.job] = x]
    BY <1>7 DEF x
  <2> QED BY <1>6, <1>7, <2>1, <2>2
<1>8. CASE Complete(w, t) \/ Fail(w, t)
  <2>1. CASE Owns(t)
    <3>1. \/ jobs' = [jobs EXCEPT ![t.job] = To(jobs[t.job], "done")]
          \/ jobs' = [jobs EXCEPT ![t.job] = To(jobs[t.job], "dead")]
      BY <1>8, <2>1 DEF Complete, Fail
    <3> QED BY <1>7, <2>1, <3>1
  <2>2. CASE ~Owns(t)
    BY <1>3, <1>8, <2>2 DEF Complete, Fail
  <2> QED BY <2>1, <2>2
<1>9. CASE CompileCommit(w, t)
  <2>1. t \in held'[w]
    BY <1>9 DEF CompileCommit, Goto
  <2> QED BY <1>1, <1>3, <1>6, <1>9, <2>1, CompiledType DEF CompileCommit
<1>10. ASSUME NEW d, Leave(w, t, "blocked"), jobs' = Released(t, d) PROVE OwnRow(w, t)
  <2>1. CASE ~Owns(t)
    BY <1>3, <1>10, <2>1 DEF Released
  <2>2. CASE Owns(t)
    <3> DEFINE a == To(jobs[t.job], "queued")
               x == [a EXCEPT !.wait = d]
    <3>1. jobs' = [jobs EXCEPT ![t.job] = x]
      BY <1>10, <2>2 DEF Released
    <3>2. /\ a \in Row /\ a.state = "queued" /\ a.target = jobs[t.job].target
          /\ a.order = jobs[t.job].order /\ a.compiler = jobs[t.job].compiler
          /\ a.gen = jobs[t.job].gen /\ a.attempts = jobs[t.job].attempts
      BY <1>1, <1>2, ToType
    <3> HIDE DEF a
    <3>3. /\ x.state = a.state /\ x.target = a.target /\ x.order = a.order
          /\ x.compiler = a.compiler /\ x.gen = a.gen /\ x.attempts = a.attempts
      BY <3>2 DEF Row
    <3> HIDE DEF x
    <3> QED BY <1>6, <1>10, <2>2, <3>1, <3>2, <3>3
  <2> QED BY <2>1, <2>2
<1>11. CASE Release(w, t)
  BY <1>10, <1>11 DEF Release
<1>12. CASE ReleaseBlocked(w, t)
  BY <1>10, <1>12 DEF ReleaseBlocked
<1> QED BY <1>4, <1>5, <1>8, <1>9, <1>11, <1>12 DEF Step, QuietStep

\* The steps of a job other than a requeue keep what is said of the lanes: the row they
\* change is owned by nobody else.
LEMMA StepLane ==
    ASSUME QueueInv, WorkerInv, LaneInv, NEW w \in Workers, NEW t \in held[w], Step(w, t),
           ~RequeueWithCompiler(w, t)
    PROVE  LaneInv'
<1>1. /\ TypeOK /\ LaneTable /\ LaneClaims /\ TokensInLane /\ t.job \in Rows /\ t \in Token
      /\ OwnRow(w, t)
  BY StepOwnRow DEF QueueInv, LaneInv, LaneTable, TypeOK, Token
<1>2. /\ \A v \in Workers : \A u \in held'[v] :
           /\ u \in held[v]
           /\ stage[v][u.lane] = "blocked" => stage'[v][u.lane] = "blocked"
      /\ \A v \in Workers : \A s \in held[v] : s \in held'[v] \/ (v = w /\ s = t)
  BY <1>1, StepStages
<1>3. \A j \in Rows : /\ jobs'[j].target = jobs[j].target /\ jobs'[j].order = jobs[j].order
                      /\ jobs'[j].state = "absent" <=> jobs[j].state = "absent"
                      /\ Open(jobs'[j]) => Open(jobs[j])
                      /\ jobs'[j].state = "running" =>
                           /\ jobs[j].state = "running" /\ jobs'[j].age = jobs[j].age
                           /\ jobs'[j].wait = jobs[j].wait
  BY <1>1 DEF OwnRow
<1>4. \A v \in Workers : \A u \in held[v] : Owns(u)' => Owns(u)
  <2>1. \A v \in Workers : \A u \in held[v] : u.job \in Rows
    BY <1>1 DEF TypeOK, Token
  <2>2. \A j \in Rows : jobs'[j].state = "running" =>
           /\ jobs[j].state = "running" /\ jobs'[j].compiler = jobs[j].compiler
           /\ jobs'[j].gen = jobs[j].gen /\ jobs'[j].attempts = jobs[j].attempts
    BY <1>1 DEF OwnRow
  <2> QED BY <2>1, <2>2 DEF Owns, Matches, Found, Present
<1>5. ASSUME NEW v \in Workers, NEW s \in held[v], NEW u \in held'[v],
             Owns(s), Open(jobs'[s.job]), Active(v, u)', s.lane = u.lane
      PROVE  s \in held'[v] /\ Owns(s)'
  <2>1. s.job \in Rows
    BY <1>1 DEF TypeOK, Token
  <2>2. CASE v = w /\ s = t
    <3>1. ~Leave(w, t, "blocked")
      BY <1>1, <1>5, <2>2, LeaveBlocked DEF Active
    <3>2. t \in held'[w] /\ jobs'[t.job].state = "running"
      BY <1>1, <1>5, <2>2, <3>1 DEF OwnRow
    <3>3. Owns(t)'
      BY <1>1, <1>5, <2>2, <3>2 DEF OwnRow, Owns, Matches, Found, Present
    <3> QED BY <2>2, <3>2, <3>3
  <2>3. CASE ~(v = w /\ s = t)
    <3>1. s \in held'[v]
      BY <1>2, <2>3
    <3>2. Owns(t) => s.job # t.job
      <4>1. CASE v # w
        BY <1>5, <4>1 DEF QueueInv, TokenInv, TokensDiffer, Owns, Matches
      <4>2. CASE v = w
        BY <2>3, <4>2 DEF WorkerInv, ClaimsDiffer
      <4> QED BY <4>1, <4>2
    <3>3. jobs'[s.job] = jobs[s.job]
      BY <1>1, <2>1, <3>2 DEF OwnRow
    <3> QED BY <1>5, <3>1, <3>3 DEF Owns, Matches, Found
  <2> QED BY <2>2, <2>3
<1>6. \A v \in Workers : held'[v] \subseteq held[v]
  BY <1>2
<1>7. LaneTable'
  BY <1>1, <1>3, <1>6, LaneTableKept
<1>8. LaneClaims'
  BY <1>1, <1>2, <1>3, <1>4, <1>5, <1>6, LaneClaimsKept
<1> QED BY <1>7, <1>8 DEF LaneInv

\* A requeue of an owned job: the row leaves the worker's hands, a twin may move up to its
\* place, and nothing else changes.
LEMMA RequeueOrder ==
    ASSUME TypeOK, NEW t \in Token, NEW c \in Compilers, RequeueStep(t, c)
    PROVE  LET o == jobs[t.job].order
           IN  /\ \A j \in Rows \ {t.job} :
                    LET r == jobs[j]  s == jobs'[j]
                    IN  /\ s.target = r.target /\ s.state = r.state /\ s.compiler = r.compiler
                        /\ s.gen = r.gen /\ s.attempts = r.attempts
                        /\ s.age = r.age /\ s.wait = r.wait
                        /\ \/ s.order = r.order
                           \/ s.order = o /\ o < r.order /\ r.target = jobs[t.job].target
               /\ LET r == jobs[t.job]  s == jobs'[t.job]
                  IN  s.target = r.target /\ s.order = r.order /\ s.state \in {"queued", "dead"}
<1>1. /\ t.job \in Rows /\ jobs \in [Rows -> Row] /\ jobs[t.job] \in Row
      /\ jobs[t.job].order \in Rows /\ jobs' = Requeued(t, c)
  BY DEF TypeOK, Token, Row, RequeueStep
<1>2. jobs'[t.job] \in {Superseded(jobs[t.job]), Rebound(jobs[t.job], c)}
  BY <1>1 DEF Requeued
<1>3. /\ jobs'[t.job].target = jobs[t.job].target /\ jobs'[t.job].order = jobs[t.job].order
      /\ jobs'[t.job].state \in {"queued", "dead"}
  BY <1>1, <1>2, SupersededType, ReboundType
<1>4. ASSUME NEW j \in Rows \ {t.job}
      PROVE  LET r == jobs[j]  s == jobs'[j]  o == jobs[t.job].order
             IN  /\ s.target = r.target /\ s.state = r.state /\ s.compiler = r.compiler
                 /\ s.gen = r.gen /\ s.attempts = r.attempts
                 /\ s.age = r.age /\ s.wait = r.wait
                 /\ \/ s.order = r.order
                    \/ s.order = o /\ o < r.order /\ r.target = jobs[t.job].target
  <2>1. jobs[j] \in Row
    BY <1>1, <1>4
  <2>2. CASE j \notin Twins(t, c)
    BY <1>1, <1>4, <2>2 DEF Requeued
  <2>3. CASE j \in Twins(t, c)
    <3>1. jobs'[j] = Promoted(jobs[j], jobs[t.job].order) /\ jobs[j].target = jobs[t.job].target
      BY <1>1, <1>4, <2>3 DEF Requeued, Twins
    <3> QED BY <1>1, <2>1, <3>1 DEF Promoted, Row
  <2> QED BY <2>2, <2>3
<1> QED BY <1>3, <1>4

\* A requeue blocks the lane of the worker, and no other worker is at work behind the
\* requeued job: it would own that job as well.
LEMMA RequeueLane ==
    ASSUME QueueInv, OpenOrdersDiffer, WorkerInv, LaneInv, NEW w \in Workers, NEW t \in held[w],
           RequeueWithCompiler(w, t)
    PROVE  LaneInv'
<1> DEFINE o == jobs[t.job].order
<1>1. /\ TypeOK /\ LaneTable /\ LaneClaims /\ TokensInLane /\ t.job \in Rows /\ t \in Token
      /\ jobs \in [Rows -> Row] /\ Step(w, t) /\ Leave(w, t, "blocked")
      /\ t.lane = Lane(jobs[t.job])
  BY DEF QueueInv, LaneInv, LaneTable, TypeOK, Token, Step, RequeueWithCompiler, TokensInLane
<1>2. /\ \A v \in Workers : \A u \in held'[v] :
           /\ u \in held[v]
           /\ stage[v][u.lane] = "blocked" => stage'[v][u.lane] = "blocked"
      /\ \A v \in Workers : \A s \in held[v] : s \in held'[v] \/ (v = w /\ s = t)
  BY <1>1, StepStages
<1>3. \A v \in Workers : held'[v] \subseteq held[v]
  BY <1>2
<1>4. ASSUME NEW v \in Workers, NEW u \in held'[v], Active(v, u)', v = w PROVE u.lane # t.lane
  BY <1>1, <1>4, LeaveBlocked DEF Active
<1>5. \A v \in Workers : \A u \in held[v] : u.job \in Rows
  BY <1>1 DEF TypeOK, Token
<1>6. CASE ~Owns(t)
  <2>1. jobs' = jobs
    BY <1>6 DEF RequeueWithCompiler
  <2>2. \A u : Owns(u)' <=> Owns(u)
    BY <2>1 DEF Owns, Matches, Found
  <2>3. \A v \in Workers : \A s \in held[v] : Owns(s) => s \in held'[v] /\ Owns(s)'
    BY <1>2, <1>6, <2>2
  <2>4. LaneTable'
    BY <1>1, <1>3, <2>1, LaneTableKept
  <2>5. LaneClaims'
    BY <1>1, <1>2, <1>3, <2>1, <2>2, <2>3, LaneClaimsKept
  <2> QED BY <2>4, <2>5 DEF LaneInv
<1>7. CASE Owns(t)
  <2>1. LiveCompiler[w] \in Compilers
    BY CompilerAssumption DEF RequeueWithCompiler, Outdated, CompilerAssumption
  <2>2. RequeueStep(t, LiveCompiler[w])
    BY <1>7 DEF RequeueWithCompiler, RequeueStep
  <2>3. /\ \A j \in Rows \ {t.job} :
             LET r == jobs[j]  s == jobs'[j]
             IN  /\ s.target = r.target /\ s.state = r.state /\ s.compiler = r.compiler
                 /\ s.gen = r.gen /\ s.attempts = r.attempts
                 /\ s.age = r.age /\ s.wait = r.wait
                 /\ \/ s.order = r.order
                    \/ s.order = o /\ o < r.order /\ r.target = jobs[t.job].target
        /\ jobs'[t.job].target = jobs[t.job].target /\ jobs'[t.job].order = o
        /\ jobs'[t.job].state \in {"queued", "dead"} /\ jobs[t.job].state = "running"
    BY <1>1, <1>7, <2>1, <2>2, RequeueOrder DEF Owns
  <2>4. \A j \in Rows : jobs[j].order \in Nat
    BY <1>1, RowsAssumption DEF Row, RowsAssumption
  <2>5. LaneTable'
    <3>1. \A j \in Rows : /\ jobs'[j].target = jobs[j].target
                          /\ jobs'[j].state = "absent" <=> jobs[j].state = "absent"
                          /\ jobs'[j].state = "running" =>
                               jobs[j].state = "running" /\ jobs'[j].wait = jobs[j].wait
      BY <2>3
    <3> QED BY <1>1, <1>3, <3>1, LaneTableKept
  <2>6. ASSUME NEW v \in Workers, NEW u \in held[v], Owns(u)'
        PROVE  Owns(u) /\ u.job \in Rows \ {t.job} /\ jobs'[u.job].age = jobs[u.job].age
    <3>1. u.job # t.job
      BY <2>3, <2>6 DEF Owns
    <3> QED BY <1>5, <2>3, <2>6, <3>1 DEF Owns, Matches, Found, Present
  <2>7. ASSUME NEW v \in Workers, NEW s \in held[v], Owns(s), s.job # t.job
        PROVE  Owns(s)' /\ s \in held'[v]
    <3>1. s \in held'[v]
      BY <1>2, <2>7
    <3> QED BY <1>5, <2>3, <2>7, <3>1 DEF Owns, Matches, Found, Present
  <2>8. ASSUME NEW v \in Workers, NEW u \in held'[v], Active(v, u)'
        PROVE  /\ u \in held[v] /\ Active(v, u) /\ u.job \in Rows \ {t.job}
               /\ u.lane = Lane(jobs[u.job])
               /\ jobs'[u.job].age = jobs[u.job].age
               /\ u.lane = t.lane => jobs[u.job].order < o
               /\ jobs'[u.job].order = jobs[u.job].order
    <3>1. u \in held[v] /\ Owns(u) /\ Active(v, u) /\ u.job \in Rows \ {t.job}
          /\ jobs'[u.job].age = jobs[u.job].age /\ u.lane = Lane(jobs[u.job])
      BY <1>1, <1>2, <2>6, <2>8 DEF Active, TokensInLane
    <3>2. ASSUME u.lane = t.lane PROVE jobs[u.job].order < o
      <4> SUFFICES ASSUME ~(jobs[u.job].order < o) PROVE FALSE
        OBVIOUS
      <4>1. v # w
        BY <1>4, <2>8, <3>2
      <4>2. jobs[u.job].order # o
        BY <1>1, <1>7, <3>1 DEF OpenOrdersDiffer, Owns, Open
      <4>3. o < jobs[u.job].order
        BY <1>1, <2>4, <3>1, <4>2
      <4>4. PICK s \in held[v] : s.job = t.job /\ Owns(s)
        BY <1>1, <1>7, <3>1, <3>2, <4>3 DEF LaneClaims, Covered, Owns, Open
      <4> QED BY <1>7, <4>1, <4>4 DEF QueueInv, TokenInv, TokensDiffer, Owns, Matches
    <3>3. jobs'[u.job].order = jobs[u.job].order
      <4>1. CASE u.lane = t.lane
        BY <1>1, <2>3, <2>4, <3>1, <3>2, <4>1
      <4>2. CASE u.lane # t.lane
        BY <1>1, <2>3, <3>1, <4>2 DEF Lane
      <4> QED BY <4>1, <4>2
    <3> QED BY <3>1, <3>2, <3>3
  <2>9. Covered'
    <3> SUFFICES ASSUME NEW v \in Workers, NEW u \in held'[v], Active(v, u)', NEW i \in Rows,
                        Open(jobs'[i]), Lane(jobs'[i]) = u.lane,
                        jobs'[i].order < jobs'[u.job].order
                 PROVE  \E s \in held'[v] : s.job = i /\ Owns(s)' /\ s.pos < u.pos
      BY DEF Covered
    <3>1. /\ u \in held[v] /\ Active(v, u) /\ u.job \in Rows
          /\ jobs'[u.job].order = jobs[u.job].order
          /\ u.lane = t.lane => jobs[u.job].order < o
      BY <2>8
    <3>2. Lane(jobs[i]) = u.lane /\ Open(jobs[i])
      BY <2>3 DEF Lane, Open
    <3>3. jobs[i].order < jobs[u.job].order /\ i # t.job
      <4>1. CASE u.lane # t.lane
        <5>1. i # t.job /\ jobs[i].target # jobs[t.job].target
          BY <1>1, <3>2, <4>1 DEF Lane
        <5> QED BY <2>3, <3>1, <5>1
      <4>2. CASE u.lane = t.lane
        <5>1. jobs'[i].order # o
          BY <1>1, <2>4, <3>1, <4>2
        <5> QED BY <2>3, <3>1, <5>1
      <4> QED BY <4>1, <4>2
    <3>4. PICK s \in held[v] : s.job = i /\ Owns(s) /\ s.pos < u.pos
      BY <1>1, <3>1, <3>2, <3>3 DEF LaneClaims, Covered
    <3> QED BY <2>7, <3>3, <3>4
  <2>10. SameAge'
    <3> SUFFICES ASSUME NEW v \in Workers, NEW s \in held'[v], NEW u \in held'[v],
                        Owns(s)', Owns(u)', s.lane = u.lane
                 PROVE  jobs'[s.job].age = jobs'[u.job].age
      BY DEF SameAge
    <3>1. s \in held[v] /\ u \in held[v]
      BY <1>2
    <3> QED BY <1>1, <2>6, <3>1 DEF LaneClaims, SameAge
  <2>11. Younger'
    <3> SUFFICES ASSUME NEW v \in Workers, NEW u \in held'[v], Active(v, u)', NEW k \in Rows,
                        jobs'[k].state = "running", Lane(jobs'[k]) = u.lane,
                        jobs'[u.job].order < jobs'[k].order
                 PROVE  jobs'[u.job].age =< jobs'[k].age
      BY DEF Younger
    <3>1. /\ u \in held[v] /\ Active(v, u) /\ u.job \in Rows
          /\ jobs'[u.job].order = jobs[u.job].order /\ jobs'[u.job].age = jobs[u.job].age
      BY <2>8
    <3>2. /\ k # t.job /\ jobs[k].state = "running" /\ jobs'[k].age = jobs[k].age
          /\ Lane(jobs[k]) = u.lane
      BY <2>3 DEF Lane
    <3>3. jobs[u.job].order < jobs[k].order
      <4>1. jobs'[k].order = jobs[k].order \/ (jobs'[k].order = o /\ o < jobs[k].order)
        BY <2>3, <3>2
      <4> QED BY <1>1, <2>4, <3>1, <4>1
    <3> QED BY <1>1, <3>1, <3>2, <3>3 DEF LaneClaims, Younger
  <2> QED BY <2>5, <2>9, <2>10, <2>11 DEF LaneInv, LaneClaims
<1> QED BY <1>6, <1>7

-----------------------------------------------------------------------------
(***************************************************************************)
(* Lane order.                                                             *)
(***************************************************************************)
LaneOrderInv == PaymentInv /\ LaneInv

\* The invariant holds of the empty table.
LEMMA InitLane == Init => LaneOrderInv
<1> SUFFICES ASSUME Init PROVE LaneInv
  BY InitPayment DEF LaneOrderInv
<1>1. LaneTable
  BY DEF Init, LaneTable, InsertedInOrder, RunningIsDue, TokensInLane
<1>2. LaneClaims
  BY DEF Init, LaneClaims, Covered, SameAge, Younger
<1> QED BY <1>1, <1>2 DEF LaneInv

\* Every step keeps the invariant, if enqueuing transactions do not overlap.
LEMMA NextLane ==
    ASSUME InOrder
    PROVE  LaneOrderInv /\ [Next]_vars => LaneOrderInv'
<1> SUFFICES ASSUME LaneOrderInv, [Next]_vars PROVE LaneInv'
  BY NextPayment DEF LaneOrderInv
<1>1. QueueInv /\ OrderInv /\ OpenOrdersDiffer /\ WorkerInv /\ LaneInv
  BY DEF LaneOrderInv, PaymentInv, OrderInv
<1>2. ASSUME NEW w \in Workers, NEW t \in held[w], Step(w, t) PROVE LaneInv'
  BY <1>1, <1>2, StepLane, RequeueLane
<1>3. CASE UNCHANGED vars
  BY <1>1, <1>3 DEF vars, LaneInv, LaneTable, LaneClaims, InsertedInOrder, RunningIsDue,
     TokensInLane, Covered, SameAge, Younger, Active, Owns, Matches, Found
<1> QED BY <1>1, <1>2, <1>3, EnqueueLane, ClaimLaneInv, DropLane, EraseLane, TickLane DEF Next

\* The invariant implies that nobody else is at work in the lane.
LEMMA LaneSerial == LaneOrderInv => LaneIsSerial
<1> SUFFICES ASSUME LaneOrderInv, NEW v \in Workers, NEW w \in Workers, v # w,
                    NEW s \in held[v], NEW t \in held[w], Working(v, s), Working(w, t),
                    s.lane = t.lane
             PROVE  FALSE
  BY DEF LaneIsSerial
<1>1. /\ TypeOK /\ TokenInv /\ OpenOrdersDiffer /\ LaneTable /\ LaneClaims
  BY DEF LaneOrderInv, PaymentInv, QueueInv, OrderInv, LaneInv
<1>2. /\ Active(v, s) /\ Active(w, t) /\ Owns(s) /\ Owns(t)
      /\ s.job \in Rows /\ t.job \in Rows /\ s.job # t.job
      /\ Lane(jobs[s.job]) = t.lane /\ Lane(jobs[t.job]) = s.lane
      /\ Open(jobs[s.job]) /\ Open(jobs[t.job])
  <2>1. Owns(s) /\ Owns(t) /\ Active(v, s) /\ Active(w, t)
    BY DEF Working, Active
  <2>2. s.job \in Rows /\ t.job \in Rows
    BY <1>1 DEF TypeOK, Token
  <2> QED BY <1>1, <2>1, <2>2 DEF TokenInv, TokensDiffer, LaneTable, TokensInLane, Owns,
                                  Matches, Open
<1>3. jobs[s.job].order \in Nat /\ jobs[t.job].order \in Nat
  BY <1>1, <1>2, RowsAssumption DEF TypeOK, Row, RowsAssumption
<1>4. jobs[s.job].order # jobs[t.job].order
  BY <1>1, <1>2 DEF OpenOrdersDiffer
<1>5. ASSUME NEW x \in Workers, NEW y \in Workers, x # y, NEW a \in held[x], NEW b \in held[y],
             Active(x, a), Owns(b), b.job \in Rows, Open(jobs[b.job]), Lane(jobs[b.job]) = a.lane,
             jobs[b.job].order < jobs[a.job].order
      PROVE  FALSE
  <2>1. PICK c \in held[x] : c.job = b.job /\ Owns(c)
    BY <1>1, <1>5 DEF LaneClaims, Covered
  <2>2. c.gen = b.gen /\ c.attempts = b.attempts
    BY <1>5, <2>1 DEF Owns, Matches
  <2>3. TokensDiffer
    BY <1>1 DEF TokenInv
  <2> QED BY <1>5, <2>1, <2>2, <2>3 DEF TokensDiffer
<1>6. ~(jobs[s.job].order < jobs[t.job].order)
  BY <1>2, <1>5
<1>7. ~(jobs[t.job].order < jobs[s.job].order)
  BY <1>2, <1>5
<1> QED BY <1>3, <1>4, <1>6, <1>7

\* A commit is made by the owner of the first job the worker holds of the lane.
LEMMA CommitInOrder ==
    ASSUME LaneOrderInv, NEW w \in Workers, NEW t \in held[w], CompileCommit(w, t), CommitStep(t),
           NEW i \in Rows, Lane(jobs[i]) = Lane(jobs[t.job]), jobs[i].order < jobs[t.job].order
    PROVE  ~Open(jobs[i])
<1> SUFFICES ASSUME Open(jobs[i]) PROVE FALSE
  OBVIOUS
<1>1. TypeOK /\ LaneTable /\ LaneClaims
  BY DEF LaneOrderInv, PaymentInv, QueueInv, LaneInv
<1>2. t.lane = Lane(jobs[t.job]) /\ IsHead(w, t) /\ Active(w, t)
  BY <1>1 DEF LaneTable, TokensInLane, CompileCommit, At, Active, CommitStep
<1>3. PICK s \in held[w] : s.job = i /\ Owns(s) /\ s.pos < t.pos
  BY <1>1, <1>2 DEF LaneClaims, Covered
<1>4. s.lane = t.lane
  BY <1>1, <1>2, <1>3 DEF LaneTable, TokensInLane
<1>5. t.pos =< s.pos
  BY <1>2, <1>3, <1>4 DEF IsHead, InLane
<1>6. t.pos \in Nat /\ s.pos \in Nat
  <2>1. t \in Token /\ s \in Token
    BY <1>1, <1>3 DEF TypeOK
  <2>2. t.pos \in Rows /\ s.pos \in Rows
    BY <2>1 DEF Token
  <2> QED BY <2>2, RowsAssumption DEF RowsAssumption
<1> QED BY <1>3, <1>5, <1>6

\* Lanes are processed serially (the comment on the advisory lock of claim_reflect_jobs),
\* for any fleet, leases, crashes and upgrades, as long as enqueuing transactions do not
\* overlap.
THEOREM SerialLanes ==
    ASSUME InOrder
    PROVE  Spec => []LaneIsSerial
BY InitLane, NextLane, LaneSerial, PTL DEF Spec

\* Jobs of a lane compile in queue order under the same condition: no commit overtakes an
\* earlier job that is still open, whatever leases run out, workers crash, jobs are
\* released, requeued or handed to a twin (run_worker_tick_scoped, claim_reflect_jobs).
THEOREM LaneOrder ==
    ASSUME InOrder
    PROVE  Spec => CompilesInLaneOrder
<1> DEFINE Ordered == \A j \in Rows :
             jobs[j].result # "completed" /\ jobs'[j].result = "completed" =>
               \A i \in Rows : Lane(jobs[i]) = Lane(jobs[j]) /\ jobs[i].order < jobs[j].order
                                => ~Open(jobs[i])
<1>1. ASSUME MildStep PROVE Ordered
  BY <1>1 DEF MildStep, Mild
<1>2. ASSUME LaneOrderInv, NEW w \in Workers, NEW t \in held[w], Step(w, t)
      PROVE  Ordered
  <2>1. TypeOK /\ t \in Token /\ t.job \in Rows /\ jobs \in [Rows -> Row]
    BY <1>2 DEF LaneOrderInv, PaymentInv, QueueInv, TypeOK, Token
  <2>2. CASE CommitStep(t)
    <3>1. \A j \in Rows \ {t.job} : jobs'[j] = jobs[j]
      BY <2>1, <2>2 DEF CommitStep
    <3>2. CASE CompileCommit(w, t)
      BY <1>2, <2>2, <3>1, <3>2, CommitInOrder
    <3>3. CASE ~CompileCommit(w, t)
      <4>1. UNCHANGED writes
        BY <1>2, <3>3 DEF Step, RequeueWithCompiler, BeginPrepare, StorePrepared,
           NothingToCompile, Crosschecked, Complete, Release, ReleaseBlocked, Fail, StepFails,
           ProviderFails, Failing
      <4>2. <<jobs[t.job].target, t.compiler>> \in Targets \X Compilers
        BY <2>1 DEF Row, Token
      <4>3. writes[<<jobs[t.job].target, t.compiler>>] \in Nat
        BY <2>1, <4>2 DEF TypeOK
      <4>4. writes'[<<jobs[t.job].target, t.compiler>>] = writes[<<jobs[t.job].target, t.compiler>>] + 1
        <5> DEFINE k == <<jobs[t.job].target, t.compiler>>
        <5>1. writes' = [writes EXCEPT ![k] = @ + 1] /\ k \in DOMAIN writes
          BY <2>1, <2>2, <4>2 DEF CommitStep, TypeOK
        <5> HIDE DEF k
        <5>2. writes'[k] = writes[k] + 1
          BY <5>1
        <5> QED BY <5>2 DEF k
      <4> QED BY <4>1, <4>3, <4>4
    <3> QED BY <3>2, <3>3
  <2>3. ASSUME NEW c \in Compilers, RequeueStep(t, c) PROVE Ordered
    <3>1. \A j \in Rows : jobs'[j].result = "completed" => jobs[j].result = "completed"
      BY <2>1, <2>3, RequeueEffect DEF RequeueStep
    <3> QED BY <3>1
  <2> QED BY <1>1, <1>2, <2>1, <2>2, <2>3, StepRows
<1>3. ASSUME TypeOK, NEW j \in Rows, NEW t \in Targets, NEW c \in Compilers, Enqueue(j, t, c)
      PROVE  Ordered
  BY <1>3, QueuedType DEF Enqueue, TypeOK
<1>4. ASSUME TypeOK, NEW l \in Lanes, EraseSubject(l)
      PROVE  Ordered
  BY <1>4, ErasedType DEF EraseSubject, TypeOK
<1>5. ASSUME TypeOK, UNCHANGED <<jobs, erased, writes>>
      PROVE  Ordered
  BY <1>1, <1>5, UnchangedIsMild
<1>6. LaneOrderInv /\ Next => Ordered
  <2> SUFFICES ASSUME LaneOrderInv, Next PROVE Ordered
    OBVIOUS
  <2>1. TypeOK
    BY DEF LaneOrderInv, PaymentInv, QueueInv
  <2>2. ASSUME NEW w \in Workers, Crash(w) PROVE Ordered
    BY <1>5, <2>1, <2>2 DEF Crash
  <2>3. ASSUME NEW w \in Workers, NEW l \in Lanes, AbandonLane(w, l) PROVE Ordered
    BY <1>5, <2>1, <2>3 DEF AbandonLane
  <2>4. ASSUME NEW w \in Workers, Claim(w) PROVE Ordered
    BY <1>1, <2>1, <2>4, ClaimIsMild
  <2>5. CASE Tick
    BY <1>1, <2>1, <2>5, TickIsMild
  <2> HIDE DEF Ordered
  <2> QED BY <1>2, <1>3, <1>4, <2>1, <2>2, <2>3, <2>4, <2>5 DEF Next
<1>7. LaneOrderInv /\ [Next]_vars => [Ordered]_vars
  BY <1>6
<1> QED BY <1>7, InitLane, NextLane, PTL DEF Spec, CompilesInLaneOrder

-----------------------------------------------------------------------------
(***************************************************************************)
(* The drain mode of a worker (ReflectDrain): a drain that reports success *)
(* is honest.  The dead letters it compares are counts, so the invariant   *)
(* follows the rows behind them: those dead when it began, those lost      *)
(* since, and those an erasure took away.                                  *)
(***************************************************************************)

\* Settled rows stay settled or are erased, erased rows stay erased, and no row is
\* uninserted.
StatesMove ==
    \A j \in Rows : /\ jobs[j].state \in {"done", "dead", "erased"} =>
                          jobs'[j].state \in {jobs[j].state, "erased"}
                    /\ jobs'[j].state = "absent" => jobs[j].state = "absent"

\* Every step of the queue moves the states of the rows this way.
LEMMA NextStates ==
    ASSUME TypeOK, [Next]_vars
    PROVE  StatesMove
<1>1. ASSUME MildStep PROVE StatesMove
  BY <1>1 DEF MildStep, Mild, Open, StatesMove
<1>2. ASSUME NEW w \in Workers, NEW t \in held[w], Step(w, t)
      PROVE  StatesMove
  <2>1. t \in Token /\ t.job \in Rows /\ jobs \in [Rows -> Row] /\ jobs[t.job] \in Row
    BY <1>2 DEF TypeOK, Token
  <2>2. CASE CommitStep(t)
    <3>1. Compiled(jobs[t.job]).state = "done" /\ jobs[t.job].state = "running"
      BY <2>1, <2>2, CompiledType DEF CommitStep, Owns
    <3> QED BY <2>1, <2>2, <3>1 DEF CommitStep, StatesMove
  <2>3. ASSUME NEW c \in Compilers, RequeueStep(t, c)
        PROVE  StatesMove
    <3>1. /\ jobs[t.job].state = "running" /\ jobs'[t.job].state \in {"dead", "queued"}
          /\ \A j \in Rows \ {t.job} : jobs'[j].state = jobs[j].state
      BY <2>1, <2>3, RequeueEffect DEF RequeueStep, Owns
    <3> QED BY <3>1 DEF StatesMove
  <2> QED BY <1>1, <1>2, <2>2, <2>3, StepRows
<1>3. ASSUME NEW j \in Rows, NEW t \in Targets, NEW c \in Compilers, Enqueue(j, t, c)
      PROVE  StatesMove
  <2>1. jobs \in [Rows -> Row] /\ jobs[j] \in Row
    BY DEF TypeOK
  <2>2. Queued(jobs[j], t, c).state = "queued" /\ jobs[j].state = "absent"
    BY <1>3, <2>1, QueuedType DEF Enqueue
  <2> QED BY <1>3, <2>1, <2>2 DEF Enqueue, StatesMove
<1>4. ASSUME NEW l \in Lanes, EraseSubject(l)
      PROVE  StatesMove
  <2>1. \A j \in Rows : jobs'[j] = jobs[j] \/ jobs'[j].state = "erased"
    BY <1>4, ErasedType DEF EraseSubject, TypeOK
  <2> QED BY <2>1 DEF StatesMove
<1>5. ASSUME UNCHANGED <<jobs, erased, writes>>
      PROVE  StatesMove
  BY <1>1, <1>5, UnchangedIsMild
<1>6. ASSUME NEW w \in Workers, Crash(w) PROVE StatesMove
  BY <1>5, <1>6 DEF Crash
<1>7. ASSUME NEW w \in Workers, NEW l \in Lanes, AbandonLane(w, l) PROVE StatesMove
  BY <1>5, <1>7 DEF AbandonLane
<1>8. ASSUME NEW w \in Workers, Claim(w) PROVE StatesMove
  BY <1>1, <1>8, ClaimIsMild
<1>9. CASE Tick
  BY <1>1, <1>9, TickIsMild
<1>10. CASE UNCHANGED vars
  BY <1>5, <1>10 DEF vars
<1> QED BY <1>2, <1>3, <1>4, <1>6, <1>7, <1>8, <1>9, <1>10 DEF Next

\* The drain worker and everybody else take steps of the queue, or none.
LEMMA DrainQueue ==
    ASSUME [DrainNext]_allVars
    PROVE  [Next]_vars
<1>1. CASE DrainStep
  BY <1>1, DrainerAssumption
     DEF DrainStep, Baseline, DrainTick, CountPending, Decide, Next, DrainerAssumption
<1>2. CASE Others
  BY <1>2 DEF Others, Next
<1>3. CASE UNCHANGED allVars
  BY <1>3 DEF allVars
<1> QED BY <1>1, <1>2, <1>3 DEF DrainNext

DeadRows == {j \in Rows : jobs[j].state = "dead"}

\* What the drain worker counted, row by row.
DrainRecord ==
    /\ drain = "off" => before = {} /\ lost = {} /\ backlog = {}
    /\ drain # "off" => baseline = Cardinality(before)
    /\ before \cap lost = {}
    /\ \A j \in before \cup lost : jobs[j].state \in {"dead", "erased"}
    /\ Running => DeadRows \subseteq before \cup lost
    /\ \A j \in backlog : jobs[j].state # "absent"
    /\ drain = "counted" /\ pending = 0 => \A j \in backlog : ~Open(jobs[j])

DrainInv == DrainTypeOK /\ DrainRecord /\ DrainedIsHonest

\* Subsets of the table are finite, and counts of disjoint parts add up.
LEMMA CountParts ==
    ASSUME NEW S \in SUBSET Rows, NEW T \in SUBSET Rows, S \cap T = {}
    PROVE  /\ Cardinality(S) \in Nat /\ Cardinality(T) \in Nat
           /\ Cardinality(S \cup T) = Cardinality(S) + Cardinality(T)
<1>1. IsFiniteSet(Rows)
  BY RowsAssumption DEF RowsAssumption
<1>2. IsFiniteSet(S) /\ IsFiniteSet(T)
  BY <1>1, FS_Subset
<1>3. Cardinality(S \cap T) = 0
  BY FS_EmptySet
<1>4. /\ Cardinality(S \cup T) = Cardinality(S) + Cardinality(T) - Cardinality(S \cap T)
      /\ Cardinality(S) \in Nat /\ Cardinality(T) \in Nat
  BY <1>2, FS_Union, FS_CardinalityType
<1> QED BY <1>3, <1>4

\* Totals that agree: as many of the lost rows are left as old dead letters were erased,
\* or fewer.
LEMMA TotalsAgree ==
    ASSUME DrainTypeOK, DrainRecord, Running, dead_letter_count <= baseline
    PROVE  Cardinality(lost \ Erased(lost)) <= Cardinality(Erased(before))
<1> DEFINE kept == before \ Erased(before)
           gone == Erased(before)
           left == lost \ Erased(lost)
<1>1. before \in SUBSET Rows /\ lost \in SUBSET Rows
  BY DEF DrainTypeOK
<1>2. DeadRows = kept \cup left
  BY <1>1 DEF DrainRecord, DeadRows, Erased
<1>3. before = kept \cup gone /\ kept \cap gone = {} /\ kept \cap left = {}
  BY <1>1 DEF DrainRecord, Erased
<1>4. kept \in SUBSET Rows /\ gone \in SUBSET Rows /\ left \in SUBSET Rows
  BY <1>1 DEF Erased
<1>5. Cardinality(DeadRows) <= Cardinality(before)
  BY DEF DrainRecord, Running, dead_letter_count, DeadRows
<1> HIDE DEF kept, gone, left
<1>6. /\ Cardinality(DeadRows) = Cardinality(kept) + Cardinality(left)
      /\ Cardinality(kept) \in Nat /\ Cardinality(left) \in Nat
  BY <1>2, <1>3, <1>4, CountParts
<1>7. /\ Cardinality(before) = Cardinality(kept) + Cardinality(gone)
      /\ Cardinality(gone) \in Nat
  BY <1>3, <1>4, CountParts
<1>8. Cardinality(left) <= Cardinality(gone)
  BY <1>5, <1>6, <1>7
<1> QED BY <1>8 DEF left, gone

\* Later erasures only help: fewer lost rows are left, more old dead letters are gone.
LEMMA ErasuresHelp ==
    ASSUME DrainTypeOK, StatesMove, UNCHANGED <<before, lost>>,
           \A j \in before \cup lost : jobs[j].state \in {"dead", "erased"},
           Cardinality(lost \ Erased(lost)) <= Cardinality(Erased(before))
    PROVE  Cardinality(lost' \ Erased(lost)') <= Cardinality(Erased(before)')
<1>1. before \in SUBSET Rows /\ lost \in SUBSET Rows
  BY DEF DrainTypeOK
<1>2. /\ (lost' \ Erased(lost)') \in SUBSET (lost \ Erased(lost))
      /\ Erased(before) \in SUBSET Erased(before)'
      /\ (lost \ Erased(lost)) \in SUBSET Rows /\ Erased(before)' \in SUBSET Rows
  BY <1>1 DEF StatesMove, Erased
<1>3. /\ Cardinality(lost' \ Erased(lost)') <= Cardinality(lost \ Erased(lost))
      /\ Cardinality(Erased(before)) <= Cardinality(Erased(before)')
      /\ Cardinality(lost' \ Erased(lost)') \in Nat /\ Cardinality(lost \ Erased(lost)) \in Nat
      /\ Cardinality(Erased(before)) \in Nat /\ Cardinality(Erased(before)') \in Nat
  BY <1>2, RowsCount
<1> QED BY <1>3

\* Nothing is recorded before the drain begins.
LEMMA InitDrain == DrainInit => DrainInv
<1> SUFFICES ASSUME DrainInit PROVE DrainInv
  OBVIOUS
<1>1. DrainTypeOK
  BY InitType DEF DrainInit, DrainTypeOK
<1>2. DrainRecord /\ DrainedIsHonest
  BY DEF DrainInit, DrainRecord, DrainedIsHonest, Running
<1> QED BY <1>1, <1>2 DEF DrainInv

\* The types of the drain loop's own variables.
LEMMA DrainTypes ==
    ASSUME DrainTypeOK, [DrainNext]_allVars
    PROVE  DrainTypeOK'
<1>1. TypeOK'
  BY DrainQueue, NextType DEF DrainTypeOK
<1>2. \A S \in SUBSET Rows : Cardinality(S) \in Nat
  BY RowsCount
<1>3. dead_letter_count \in Nat /\ pending_worker_job_count \in Nat
  BY <1>2 DEF dead_letter_count, pending_worker_job_count
<1>4. CASE DrainStep /\ Records
  BY <1>1, <1>3, <1>4 DEF DrainTypeOK, DrainStep, Baseline, DrainTick, CountPending, Decide, Records
<1>5. CASE Others /\ UNCHANGED drainVars /\ Records
  BY <1>1, <1>5 DEF DrainTypeOK, drainVars, Records
<1>6. CASE UNCHANGED allVars
  BY <1>1, <1>6 DEF DrainTypeOK, allVars, drainVars
<1> QED BY <1>4, <1>5, <1>6 DEF DrainNext

\* A step that leaves the drain loop where it is keeps the record: the history takes down
\* the rows that die while it runs.
LEMMA RecordFollows ==
    ASSUME DrainInv, StatesMove, Records, UNCHANGED <<baseline, pending, backlog, before>>,
           drain' \in {drain} \/ (drain = "tick" /\ drain' = "working")
    PROVE  DrainRecord' /\ DrainedIsHonest'
<1>1. /\ DrainTypeOK /\ DrainRecord /\ before \in SUBSET Rows /\ lost \in SUBSET Rows
      /\ backlog \in SUBSET Rows
  BY DEF DrainInv, DrainTypeOK
<1>2. \A j \in backlog : jobs[j].state # "absent" /\ (~Open(jobs[j]) => ~Open(jobs'[j]))
                         /\ jobs'[j].state # "absent"
  <2>1. \A j \in backlog : jobs[j].state \in States
    BY <1>1 DEF DrainTypeOK, TypeOK, Row
  <2> QED BY <1>1, <2>1 DEF DrainRecord, StatesMove, Open, States
<1>3. \A j \in before \cup lost : jobs[j].state \in {"dead", "erased"}
                                  /\ jobs'[j].state \in {"dead", "erased"}
  BY <1>1 DEF DrainRecord, StatesMove
<1>4. CASE Running
  <2>1. lost' = lost \cup {j \in Rows : jobs[j].state # "dead" /\ jobs'[j].state = "dead"}
    BY <1>4 DEF Records
  <2>2. \A j \in before' \cup lost' : jobs'[j].state \in {"dead", "erased"}
    BY <1>3, <2>1
  <2>3. before' \cap lost' = {}
    BY <1>1, <1>3, <2>1 DEF DrainRecord, StatesMove
  <2>4. DeadRows' \subseteq before' \cup lost'
    BY <1>1, <1>4, <2>1 DEF DrainRecord, DeadRows
  <2>5. drain' # "off" /\ drain' # "drained"
    BY <1>4 DEF Running
  <2>6. drain' = "counted" => drain = "counted"
    OBVIOUS
  <2>7. DrainRecord'
    BY <1>1, <1>2, <1>4, <2>2, <2>3, <2>4, <2>5, <2>6 DEF DrainRecord, Running
  <2> QED BY <2>5, <2>7 DEF DrainedIsHonest
<1>5. CASE ~Running
  <2>1. lost' = lost /\ drain' = drain /\ drain # "counted"
    BY <1>5 DEF Records, Running
  <2>2. DrainRecord'
    BY <1>1, <1>2, <1>3, <1>5, <2>1 DEF DrainRecord, Running
  <2>3. ASSUME drain = "drained"
        PROVE  Cardinality(lost' \ Erased(lost)') <= Cardinality(Erased(before)')
    BY <1>1, <1>3, <2>1, <2>3, ErasuresHelp DEF DrainInv, DrainedIsHonest
  <2>4. DrainedIsHonest'
    BY <1>2, <2>1, <2>3 DEF DrainInv, DrainedIsHonest
  <2> QED BY <2>2, <2>4
<1> QED BY <1>4, <1>5

\* Every step keeps the record and the promise.
LEMMA NextDrain == DrainInv /\ [DrainNext]_allVars => DrainInv'
<1> SUFFICES ASSUME DrainInv, [DrainNext]_allVars PROVE DrainInv'
  OBVIOUS
<1>1. DrainTypeOK /\ DrainRecord /\ TypeOK /\ StatesMove /\ DrainTypeOK'
  BY DrainQueue, NextStates, DrainTypes DEF DrainInv, DrainTypeOK
<1> SUFFICES DrainRecord' /\ DrainedIsHonest'
  BY <1>1 DEF DrainInv
<1>2. CASE Baseline /\ Records
  <2>1. /\ drain = "off" /\ drain' = "tick" /\ jobs' = jobs /\ before = {} /\ lost = {}
        /\ baseline' = Cardinality(before') /\ before' = DeadRows
        /\ backlog' = {j \in Rows : Open(jobs[j])} /\ lost' = {}
    BY <1>1, <1>2 DEF Baseline, Records, Running, DrainRecord, dead_letter_count, DeadRows, vars
  <2> QED BY <2>1 DEF DrainRecord, DrainedIsHonest, Running, DeadRows, Open
<1>3. CASE DrainTick /\ Records
  BY <1>1, <1>3, RecordFollows DEF DrainTick
<1>4. CASE CountPending /\ Records
  <2>1. /\ drain = "working" /\ drain' = "counted" /\ jobs' = jobs
        /\ pending' = pending_worker_job_count /\ UNCHANGED <<baseline, backlog, before>>
        /\ lost' = lost
    BY <1>4 DEF CountPending, Records, vars
  <2>2. pending' = 0 => \A j \in Rows : ~Open(jobs[j])
    <3> DEFINE S == {j \in Rows : Open(jobs[j])}
    <3>1. IsFiniteSet(S)
      BY RowsAssumption, FS_Subset DEF RowsAssumption
    <3>2. Cardinality(S) = 0 => S = {}
      BY <3>1, FS_EmptySet
    <3> QED BY <2>1, <3>2 DEF pending_worker_job_count
  <2> QED BY <1>1, <2>1, <2>2 DEF DrainRecord, DrainedIsHonest, Running, DeadRows, DrainTypeOK
<1>5. CASE Decide /\ Records
  <2>1. /\ drain = "counted" /\ jobs' = jobs /\ Running
        /\ drain' = IF dead_letter_count > baseline THEN "failed"
                    ELSE IF pending = 0 THEN "drained" ELSE "tick"
        /\ UNCHANGED <<baseline, pending, backlog, before>> /\ lost' = lost
    BY <1>5 DEF Decide, Records, vars, Running
  <2>2. DrainRecord'
    BY <1>1, <2>1 DEF DrainRecord, Running, DeadRows
  <2>3. DrainedIsHonest'
    <3> SUFFICES ASSUME drain' = "drained" PROVE DrainedIsHonest'
      BY DEF DrainedIsHonest
    <3>1. ~(dead_letter_count > baseline) /\ pending = 0
      BY <2>1
    <3>2. dead_letter_count \in Nat /\ baseline \in Nat
      BY <1>1, RowsCount DEF dead_letter_count, DrainTypeOK
    <3>3. Cardinality(lost \ Erased(lost)) <= Cardinality(Erased(before))
      BY <1>1, <2>1, <3>1, <3>2, TotalsAgree
    <3>4. \A j \in backlog : ~Open(jobs[j])
      BY <1>1, <2>1, <3>1 DEF DrainRecord
    <3> QED BY <2>1, <3>3, <3>4 DEF DrainedIsHonest, Erased
  <2> QED BY <2>2, <2>3
<1>6. CASE Others /\ UNCHANGED drainVars /\ Records
  BY <1>1, <1>6, RecordFollows DEF drainVars
<1>7. CASE UNCHANGED allVars
  BY <1>1, <1>7 DEF allVars, drainVars, vars, DrainInv, DrainRecord, DrainedIsHonest, Running,
                    DeadRows, Erased
<1> QED BY <1>2, <1>3, <1>4, <1>5, <1>6, <1>7 DEF DrainNext, DrainStep

\* A drain that reports success has seen its backlog settled, and hides a dead letter only
\* behind the erasure of an older one (drain_finished), whatever the rest of the fleet,
\* the requests and the erasures do meanwhile.
THEOREM HonestDrain == DrainSpec => []DrainedIsHonest
BY InitDrain, NextDrain, PTL DEF DrainSpec, DrainInv
=============================================================================
