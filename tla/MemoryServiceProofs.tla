------------------------- MODULE MemoryServiceProofs -------------------------
(***************************************************************************)
(* Proofs about the service over the in-memory store, for any requests,    *)
(* contexts, rows and batches: nothing committed is lost, what is          *)
(* forgotten or erased stays so, and every observation counts once.        *)
(***************************************************************************)
EXTENDS MemoryService, FiniteSetTheorems, TLAPS

-----------------------------------------------------------------------------
(***************************************************************************)
(* The invariant of one context's tables.                                  *)
(***************************************************************************)
Partial(S, T) == UNION {[D -> T] : D \in SUBSET S}

Job == [id : Names, source : Names \cup {NoSource}, compiler : {Compiler, "older"}]
JobMeta == [attempts : Nat, generation : Nat, claimed : BOOLEAN, completed : BOOLEAN, terminal : BOOLEAN]

Table ==
  [episodes : Partial(Names, Nat), resources : SUBSET Names, units : Partial(Names, Unit),
   supersedes : SUBSET (Names \X Names), vectors : SUBSET Names, jobs : Seq(Job),
   meta : Partial(Names, JobMeta), compiled : SUBSET Names, traces : Partial(Names, SUBSET Names),
   reviews : SUBSET (Names \X Names), forgotten : SUBSET Names]

Rows(t) == DOMAIN t.episodes \cup t.resources

\* A job of a source has a queue row of its own, and no two of them the current compiler.
IsJob(t, i, s) == i \in DOMAIN t.jobs /\ t.jobs[i].id = s /\ t.jobs[i].source = s
HasHome(t, s) == \E i \in DOMAIN t.jobs : IsJob(t, i, s)
Queue(t) ==
  /\ \A i, j \in DOMAIN t.jobs : t.jobs[i].id = t.jobs[j].id => i = j
  /\ \A s \in Names : \A i, j \in SameJob(t, s) : i = j
  /\ \A i \in DOMAIN t.jobs : t.jobs[i].source # NoSource => HasHome(t, t.jobs[i].source)
  /\ \A s \in Rows(t) : HasHome(t, s)

\* A unit with the name of a job was compiled by it.
Compilations(t) ==
  \A i \in DOMAIN t.jobs : LET j == t.jobs[i] IN
    j.id \in DOMAIN t.units =>
      t.units[j.id].source = j.source /\ j.compiler = Compiler /\ j.id \in t.compiled

\* What restates a source is reached from the units its jobs compiled.
Compiled(t, s) == {u \in DOMAIN t.units \cap JobIds(t) : t.units[u].source = s}
Restating(t, s) == {u \in DOMAIN t.units : s \in t.units[u].stem}
Rooted(t) == \A s \in Names : Restating(t, s) \subseteq Reach(t.supersedes, Compiled(t, s))

\* A forgotten row, and what restates a forgotten source, is closed and has no vector.
Clean(t) ==
  \A u \in DOMAIN t.units :
    (u \in t.forgotten \/ t.units[u].stem \cap t.forgotten # {}) => ~t.units[u].open /\ u \notin t.vectors

\* Units are reinforced less often than their episode was observed, but for the
\* observation that is staged with the reinforcement.
Reinforced(t, observed) ==
  \A e \in DOMAIN t.episodes :
    /\ t.episodes[e] >= 1
    /\ \A u \in DOMAIN t.units : t.units[u].source = e =>
         t.units[u].reinforced <= t.episodes[e] - (IF e = observed THEN 0 ELSE 1)

Used(t) == Rows(t) \cup DOMAIN t.units \cup JobIds(t) \cup t.forgotten

\* A unit was compiled from a source that has a job, or stated directly.
Sourced(t) == \A u \in DOMAIN t.units : t.units[u].source \in JobIds(t) \cup {NoSource}

TableOk(t) == t \in Table /\ Queue(t) /\ Compilations(t) /\ Rooted(t) /\ Sourced(t) /\ Clean(t)

\* What t2 keeps of t.
JobsKept(t, t2) ==
  \A i \in DOMAIN t.jobs : \E k \in DOMAIN t2.jobs :
    /\ t2.jobs[k].id = t.jobs[i].id /\ t2.jobs[k].source = t.jobs[i].source
    /\ t.jobs[i].compiler = Compiler => t2.jobs[k].compiler = Compiler
SettledJobs(t) == {j \in DOMAIN t.meta : t.meta[j].completed \/ t.meta[j].terminal}
Grows(t, t2) ==
  /\ DOMAIN t.units \subseteq DOMAIN t2.units /\ t.compiled \subseteq t2.compiled
  /\ DOMAIN t.traces \subseteq DOMAIN t2.traces /\ t.reviews \subseteq t2.reviews
  /\ t.supersedes \subseteq t2.supersedes /\ SettledJobs(t) \subseteq SettledJobs(t2)
  /\ JobsKept(t, t2)
RowsKept(t, t2) == Rows(t) \subseteq Rows(t2)
RowsForgotten(t, t2) == Rows(t) \ Rows(t2) \subseteq t2.forgotten

-----------------------------------------------------------------------------
(***************************************************************************)
(* The invariant of the service.                                           *)
(***************************************************************************)
Verbs == {"retain", "resource", "unit", "remember", "reflect", "correct", "correct_memory", "invalidate",
          "forget_unit", "forget_source", "erase", "mark", "task", "events", "recall"}
Forgets == {"forget_unit", "forget_source"}
Over == {"done", "failed", "check", "apply"}
Places == {"probe", "prepare", "claim", "stage", "reinforce", "enqueue", "commit", "read", "trace"} \cup Over
Event == [task : Requests, unit : Names, kind : {"shown", "helpful", "silenced"}]

Transaction ==
  [pc : Places, plan : SUBSET Names, target : Names \cup {NoSource},
   base : {<<>>} \cup (Table \X Nat), snapshot : {<<>>} \cup Table, events : SUBSET Event,
   add : BOOLEAN, observe : Names \cup {NoSource}, job : Names \cup {NoSource, Nobody}]

\* The rows of a context are named after its requests that are over.
Old(c) == {r \in Requests : tx[r].pc \in Over /\ Ctx(r) = c}
            \cup (IF c = Home THEN {Seed, Prior} ELSE {})

Shapes ==
  /\ asked \in [Requests -> [verb : Verbs, context : Contexts, key : Requests]]
  /\ tx \in [Requests -> Transaction]
  /\ tables \in [Contexts -> Table] /\ deletion \in Nat /\ erased \in BOOLEAN
  /\ tasks \subseteq Requests /\ events \subseteq Event
  /\ ledger \in [Requests -> Requests \cup {Nobody}]
  /\ told \in [Requests -> Names \cup {NoSource}]
  /\ DOMAIN runner = Contexts

\* What a snapshot makes of the tables it was taken from.
Staged(t, base, forgets, observed, names) ==
  /\ TableOk(t) /\ t.jobs = base.jobs /\ Grows(base, t)
  /\ IF forgets THEN RowsForgotten(base, t) ELSE RowsKept(base, t)
  /\ DOMAIN t.episodes \subseteq DOMAIN base.episodes
  /\ \A e \in DOMAIN t.episodes : t.episodes[e] = base.episodes[e]
  /\ Reinforced(t, observed) /\ Used(t) \subseteq names

SnapshotOk(r) ==
  tx[r].base # <<>> =>
    /\ tx[r].pc \in {"enqueue", "commit"} /\ Verb(r) \notin {"resource", "reflect", "task", "events", "erase"}
    /\ Staged(tx[r].snapshot, tx[r].base[1], Verb(r) \in Forgets, tx[r].observe, Old(Ctx(r)) \cup {r})
    /\ Verb(r) = "retain" => r \notin Used(tx[r].snapshot)
    /\ erased \/ JobsKept(tx[r].base[1], Live(r))

\* A retain adds its episode and a job for it, or observes an episode again.
RetainOk(r) ==
  Verb(r) = "retain" =>
    \/ tx[r].pc \in {"claim", "stage"} \cup Over /\ ~tx[r].add /\ tx[r].observe = NoSource
    \/ /\ tx[r].pc \in {"enqueue", "commit"} /\ tx[r].add /\ tx[r].target = r
       /\ tx[r].observe = NoSource /\ tx[r].base = <<>> /\ (tx[r].pc = "commit" => tx[r].job = r)
    \/ /\ tx[r].pc \in {"reinforce", "enqueue", "commit"} /\ ~tx[r].add
       /\ tx[r].target \in Names /\ tx[r].observe = tx[r].target
       /\ erased \/ HasHome(Live(r), tx[r].target)
       /\ tx[r].pc # "reinforce" => tx[r].base # <<>>
       /\ tx[r].pc = "commit" =>
            \/ tx[r].job = Nobody
            \/ tx[r].job = tx[r].target /\ SameJob(tx[r].base[1], tx[r].target) = {}

\* What the other verbs add.
OthersOk(r) ==
  /\ tx[r].pc \in {"reinforce", "enqueue"} => Verb(r) = "retain"
  /\ Verb(r) # "retain" => tx[r].target = NoSource /\ tx[r].observe = NoSource
  /\ tx[r].pc = "commit" /\ Verb(r) = "resource" => tx[r].add /\ tx[r].job = r
  /\ Verb(r) = "reflect" => ~tx[r].add /\ tx[r].job \in {Nobody, NoSource}
  /\ Verb(r) \notin {"retain", "resource", "reflect"} => tx[r].job = Nobody
  /\ tx[r].events # {} => Verb(r) \in {"task", "events"}
  /\ \A e \in tx[r].events : Verb(r) = "task" => e.task = r /\ e.kind = "shown"
  /\ \A e \in tx[r].events : Verb(r) = "events" =>
       erased \/ (e.task \in tasks /\ (e.kind = "helpful" => [e EXCEPT !.kind = "shown"] \in events))

RunnerOk(c) ==
  /\ DOMAIN runner[c] = DOMAIN Idle
  /\ runner[c].pc = "stage" => Head1(c).job.compiler = Compiler /\ runner[c].plan \subseteq Names
  /\ runner[c].pc = "commit" =>
       /\ runner[c].base \in Table \X Nat
       /\ Staged(runner[c].snapshot, runner[c].base[1], FALSE, NoSource, Old(c))

\* An erased subject has nothing; evidence keeps its exposure.
Erased ==
  erased => /\ \A c \in Contexts : tables[c] = EmptyTables
            /\ tasks = {} /\ events = {}
            /\ \A k \in Requests : ledger[k] # Nobody => Verb(ledger[k]) = "erase"
Evidence ==
  \A e \in events : /\ e.task \in tasks
                    /\ e.kind = "helpful" => [e EXCEPT !.kind = "shown"] \in events

\* Who was told of an episode.
Tellers(e) == {r \in Requests : told[r] = e}
Counted ==
  /\ \A r \in Requests : told[r] # NoSource =>
       tx[r].pc \in Over /\ \E c \in Contexts : told[r] \in Old(c)
  /\ \A c \in Contexts : \A e \in DOMAIN tables[c].episodes :
       tables[c].episodes[e] = Cardinality(Tellers(e)) + (IF e = Seed THEN 1 ELSE 0)

TablesOk(c) == TableOk(tables[c]) /\ Used(tables[c]) \subseteq Old(c) /\ Reinforced(tables[c], NoSource)

ServiceInv ==
  /\ Shapes
  /\ \A c \in Contexts : TablesOk(c) /\ RunnerOk(c)
  /\ \A r \in Requests : SnapshotOk(r) /\ RetainOk(r) /\ OthersOk(r)
  /\ Erased /\ Evidence /\ Counted

-----------------------------------------------------------------------------
(***************************************************************************)
(* Functions of rows.                                                      *)
(***************************************************************************)
LEMMA PartialIs ==
  ASSUME NEW S, NEW T, NEW f
  PROVE  f \in Partial(S, T) <=>
           /\ f = [x \in DOMAIN f |-> f[x]] /\ DOMAIN f \subseteq S
           /\ \A x \in DOMAIN f : f[x] \in T
<1>1. ASSUME f \in Partial(S, T)
      PROVE  f = [x \in DOMAIN f |-> f[x]] /\ DOMAIN f \subseteq S /\ \A x \in DOMAIN f : f[x] \in T
  <2>1. PICK D \in SUBSET S : f \in [D -> T]
    BY <1>1 DEF Partial
  <2> QED BY <2>1
<1>2. ASSUME f = [x \in DOMAIN f |-> f[x]], DOMAIN f \subseteq S, \A x \in DOMAIN f : f[x] \in T
      PROVE  f \in Partial(S, T)
  <2>1. f \in [DOMAIN f -> T]
    BY <1>2
  <2> QED BY <1>2, <2>1 DEF Partial
<1> QED BY <1>1, <1>2

LEMMA PartialHas ==
  ASSUME NEW S, NEW T, NEW f \in Partial(S, T)
  PROVE  DOMAIN f \subseteq S /\ \A x \in DOMAIN f : f[x] \in T
BY PartialIs

LEMMA EmptyPartial ==
  ASSUME NEW S, NEW T
  PROVE  <<>> \in Partial(S, T) /\ DOMAIN <<>> = {}
<1>1. <<>> = [x \in {} |-> TRUE] /\ DOMAIN <<>> = {}
  OBVIOUS
<1>2. <<>> \in [{} -> T]
  BY <1>1
<1> QED BY <1>1, <1>2 DEF Partial

LEMMA ExtendIs ==
  ASSUME NEW S, NEW T, NEW f \in Partial(S, T), NEW x \in S, NEW v \in T
  PROVE  /\ Extend(f, x, v) \in Partial(S, T)
         /\ DOMAIN Extend(f, x, v) = DOMAIN f \cup {x}
         /\ Extend(f, x, v)[x] = v
         /\ \A y \in DOMAIN f : y # x => Extend(f, x, v)[y] = f[y]
<1>1. DOMAIN f \subseteq S /\ \A y \in DOMAIN f : f[y] \in T
  BY PartialIs
<1>2. Extend(f, x, v) \in [DOMAIN f \cup {x} -> T]
  BY <1>1 DEF Extend
<1> QED BY <1>1, <1>2 DEF Extend, Partial

LEMMA ExtendUnits ==
  ASSUME NEW f \in Partial(Names, Unit), NEW x \in Names, NEW v \in Unit
  PROVE  /\ Extend(f, x, v) \in Partial(Names, Unit)
         /\ DOMAIN Extend(f, x, v) = DOMAIN f \cup {x}
         /\ Extend(f, x, v)[x] = v
         /\ \A y \in DOMAIN f : y # x => Extend(f, x, v)[y] = f[y]
BY ExtendIs

LEMMA ExtendMeta ==
  ASSUME NEW f \in Partial(Names, JobMeta), NEW x \in Names, NEW v \in JobMeta
  PROVE  /\ Extend(f, x, v) \in Partial(Names, JobMeta)
         /\ DOMAIN Extend(f, x, v) = DOMAIN f \cup {x}
         /\ Extend(f, x, v)[x] = v
         /\ \A y \in DOMAIN f : y # x => Extend(f, x, v)[y] = f[y]
BY ExtendIs

\* A map over the rows of a table.
LEMMA MapIs ==
  ASSUME NEW S, NEW T, NEW f \in Partial(S, T), NEW g, DOMAIN g = DOMAIN f,
         g = [x \in DOMAIN g |-> g[x]], \A x \in DOMAIN f : g[x] \in T
  PROVE  g \in Partial(S, T)
BY PartialIs

LEMMA EmptyIsTable == EmptyTables \in Table
<1>1. <<>> \in Partial(Names, Nat) /\ <<>> \in Partial(Names, Unit) /\ <<>> \in Partial(Names, JobMeta)
        /\ <<>> \in Partial(Names, SUBSET Names)
  BY EmptyPartial
<1>2. <<>> \in Seq(Job)
  OBVIOUS
<1> QED BY <1>1, <1>2 DEF EmptyTables, Table

\* The parts of a table.
LEMMA TableParts ==
  ASSUME NEW t \in Table
  PROVE  /\ DOMAIN t.episodes \subseteq Names /\ \A e \in DOMAIN t.episodes : t.episodes[e] \in Nat
         /\ DOMAIN t.units \subseteq Names /\ \A u \in DOMAIN t.units : t.units[u] \in Unit
         /\ DOMAIN t.meta \subseteq Names /\ \A j \in DOMAIN t.meta : t.meta[j] \in JobMeta
         /\ DOMAIN t.traces \subseteq Names
         /\ \A i \in DOMAIN t.jobs : t.jobs[i] \in Job
         /\ t.resources \subseteq Names /\ t.vectors \subseteq Names /\ t.compiled \subseteq Names
         /\ t.forgotten \subseteq Names /\ t.supersedes \subseteq Names \X Names
         /\ t.jobs \in Seq(Job) /\ DOMAIN t.jobs = 1..Len(t.jobs) /\ Len(t.jobs) \in Nat
         /\ t.episodes \in Partial(Names, Nat) /\ t.units \in Partial(Names, Unit)
         /\ t.meta \in Partial(Names, JobMeta) /\ t.traces \in Partial(Names, SUBSET Names)
<1>1. /\ t.episodes \in Partial(Names, Nat) /\ t.units \in Partial(Names, Unit)
      /\ t.meta \in Partial(Names, JobMeta) /\ t.traces \in Partial(Names, SUBSET Names)
      /\ t.jobs \in Seq(Job) /\ t.resources \subseteq Names /\ t.vectors \subseteq Names /\ t.compiled \subseteq Names
      /\ t.forgotten \subseteq Names /\ t.supersedes \subseteq Names \X Names
  BY DEF Table
<1>2. DOMAIN t.episodes \subseteq Names /\ \A e \in DOMAIN t.episodes : t.episodes[e] \in Nat
  BY <1>1, PartialHas
<1>3. DOMAIN t.units \subseteq Names /\ \A u \in DOMAIN t.units : t.units[u] \in Unit
  BY <1>1, PartialHas
<1>4. DOMAIN t.meta \subseteq Names /\ \A j \in DOMAIN t.meta : t.meta[j] \in JobMeta
  BY <1>1, PartialHas
<1>5. DOMAIN t.traces \subseteq Names
  BY <1>1, PartialHas
<1>6. DOMAIN t.jobs = 1..Len(t.jobs) /\ Len(t.jobs) \in Nat /\ \A i \in DOMAIN t.jobs : t.jobs[i] \in Job
  BY <1>1
<1> QED BY <1>1, <1>2, <1>3, <1>4, <1>5, <1>6

-----------------------------------------------------------------------------
(***************************************************************************)
(* What reaches what.                                                      *)
(***************************************************************************)
LEMMA ReachHas ==
  ASSUME NEW edges, NEW some \in SUBSET Names
  PROVE  some \subseteq Reach(edges, some) /\ Reach(edges, some) \subseteq Names
BY DEF Reach

LEMMA ReachMonotone ==
  ASSUME NEW edges, NEW more, edges \subseteq more, NEW some, NEW others, some \subseteq others
  PROVE  Reach(edges, some) \subseteq Reach(more, others)
BY DEF Reach, ClosedUnder

LEMMA ReachStep ==
  ASSUME NEW edges, NEW some, NEW v \in Reach(edges, some), NEW u \in Names, <<u, v>> \in edges
  PROVE  u \in Reach(edges, some)
<1> SUFFICES ASSUME NEW S \in SUBSET Names, some \subseteq S, ClosedUnder(edges, S)
             PROVE  u \in S
  BY DEF Reach
<1>1. v \in S
  BY DEF Reach
<1>2. <<u, v>>[2] \in S => <<u, v>>[1] \in S
  BY DEF ClosedUnder
<1> QED BY <1>1, <1>2

-----------------------------------------------------------------------------
(***************************************************************************)
(* A call that changes units, and leaves the queue and the sources alone.  *)
(***************************************************************************)
Keeps(t, t2) ==
  /\ t2 \in Table /\ t2.jobs = t.jobs /\ t2.episodes = t.episodes /\ t2.resources = t.resources
  /\ t2.forgotten = t.forgotten /\ t.compiled \subseteq t2.compiled /\ t.supersedes \subseteq t2.supersedes
  /\ DOMAIN t.units \subseteq DOMAIN t2.units
  /\ \A u \in DOMAIN t.units :
       /\ t2.units[u].stem = t.units[u].stem /\ t2.units[u].source = t.units[u].source
       /\ t2.units[u].open => t.units[u].open
       /\ u \in t2.vectors => u \in t.vectors

\* A new unit is not forgotten; it was compiled from its source, or takes the place
\* of a unit that restates the same.
Kin(t, t2, u) ==
  /\ u \notin t.forgotten /\ t2.units[u].stem \cap t.forgotten = {}
  /\ t2.units[u].source \in JobIds(t) \cup {NoSource}
  /\ \A i \in DOMAIN t.jobs : t.jobs[i].id = u =>
       t2.units[u].source = t.jobs[i].source /\ t.jobs[i].compiler = Compiler /\ u \in t2.compiled
  /\ \/ u \in JobIds(t) /\ t2.units[u].stem \subseteq {t2.units[u].source}
     \/ t2.units[u].stem = {}
     \/ \E v \in DOMAIN t.units : <<u, v>> \in t2.supersedes /\ t2.units[u].stem = t.units[v].stem

LEMMA SameQueue ==
  ASSUME NEW t, NEW t2, t2.jobs = t.jobs
  PROVE  /\ JobIds(t2) = JobIds(t) /\ \A s : SameJob(t2, s) = SameJob(t, s) /\ (HasHome(t2, s) <=> HasHome(t, s))
BY DEF JobIds, SameJob, HasHome, IsJob

LEMMA QueueStays ==
  ASSUME NEW t, NEW t2, Queue(t), t2.jobs = t.jobs, Rows(t2) \subseteq Rows(t)
  PROVE  Queue(t2)
<1>1. /\ \A i, j \in DOMAIN t.jobs : t.jobs[i].id = t.jobs[j].id => i = j
      /\ \A s \in Names : \A i, j \in SameJob(t, s) : i = j
      /\ \A i \in DOMAIN t.jobs : t.jobs[i].source # NoSource => HasHome(t, t.jobs[i].source)
      /\ \A s \in Rows(t) : HasHome(t, s)
  BY DEF Queue
<1>2. \A s : SameJob(t2, s) = SameJob(t, s) /\ (HasHome(t2, s) <=> HasHome(t, s))
  BY SameQueue, Zenon
<1>3. /\ \A i, j \in DOMAIN t2.jobs : t2.jobs[i].id = t2.jobs[j].id => i = j
      /\ \A i \in DOMAIN t2.jobs : t2.jobs[i].source # NoSource => HasHome(t2, t2.jobs[i].source)
  BY <1>1, <1>2
<1>4. /\ \A s \in Names : \A i, j \in SameJob(t2, s) : i = j
      /\ \A s \in Rows(t2) : HasHome(t2, s)
  BY <1>1, <1>2
<1> QED BY <1>3, <1>4 DEF Queue

LEMMA UnitsStep ==
  ASSUME NEW t, NEW t2, TableOk(t), Keeps(t, t2),
         \A u \in DOMAIN t2.units \ DOMAIN t.units : Kin(t, t2, u)
  PROVE  TableOk(t2)
<1>1. Queue(t2)
  <2>1. Rows(t2) = Rows(t)
    BY DEF Keeps, Rows
  <2>2. Queue(t) /\ t2.jobs = t.jobs
    BY DEF TableOk, Keeps
  <2> QED BY <2>1, <2>2, QueueStays
<1>2. JobIds(t2) = JobIds(t)
  BY SameQueue DEF Keeps
<1>3. Compilations(t2)
  <2> SUFFICES ASSUME NEW i \in DOMAIN t2.jobs, t2.jobs[i].id \in DOMAIN t2.units
               PROVE  /\ t2.units[t2.jobs[i].id].source = t2.jobs[i].source
                      /\ t2.jobs[i].compiler = Compiler /\ t2.jobs[i].id \in t2.compiled
    BY DEF Compilations
  <2> DEFINE u == t.jobs[i].id
  <2>1. i \in DOMAIN t.jobs /\ t2.jobs[i] = t.jobs[i]
    BY DEF Keeps
  <2>2. CASE u \in DOMAIN t.units
    <3>1. t.units[u].source = t.jobs[i].source /\ t.jobs[i].compiler = Compiler /\ u \in t.compiled
      BY <2>1, <2>2 DEF TableOk, Compilations
    <3>2. t2.units[u].source = t.units[u].source /\ t.compiled \subseteq t2.compiled
      BY <2>2 DEF Keeps
    <3> QED BY <2>1, <3>1, <3>2
  <2>3. CASE u \notin DOMAIN t.units
    <3>1. Kin(t, t2, u)
      BY <2>1, <2>3
    <3> QED BY <2>1, <3>1 DEF Kin
  <2> QED BY <2>2, <2>3
<1>4. Rooted(t2)
  <2> SUFFICES ASSUME NEW s \in Names, NEW u \in Restating(t2, s)
               PROVE  u \in Reach(t2.supersedes, Compiled(t2, s))
    BY DEF Rooted
  <2>1. u \in DOMAIN t2.units /\ s \in t2.units[u].stem /\ u \in Names
    BY TableParts DEF Restating, Keeps
  <2>2. Compiled(t, s) \subseteq Compiled(t2, s) /\ Compiled(t2, s) \subseteq Names
    <3>1. \A v \in DOMAIN t.units : v \in DOMAIN t2.units /\ t2.units[v].source = t.units[v].source
      BY DEF Keeps
    <3>2. DOMAIN t2.units \subseteq Names
      BY TableParts DEF Keeps
    <3> QED BY <1>2, <3>1, <3>2 DEF Compiled
  <2>3. Reach(t.supersedes, Compiled(t, s)) \subseteq Reach(t2.supersedes, Compiled(t2, s))
    BY <2>2, ReachMonotone DEF Keeps
  <2>4. \A v \in DOMAIN t.units : s \in t.units[v].stem => v \in Reach(t2.supersedes, Compiled(t2, s))
    BY <2>3 DEF TableOk, Rooted, Restating
  <2>5. CASE u \in DOMAIN t.units
    BY <2>1, <2>4, <2>5 DEF Keeps
  <2>6. CASE u \notin DOMAIN t.units
    <3>1. Kin(t, t2, u)
      BY <2>1, <2>6
    <3>2. CASE u \in JobIds(t) /\ t2.units[u].stem \subseteq {t2.units[u].source}
      <4>1. u \in Compiled(t2, s)
        BY <1>2, <2>1, <3>2 DEF Compiled
      <4> QED BY <2>2, <4>1, ReachHas
    <3>3. CASE \E v \in DOMAIN t.units : <<u, v>> \in t2.supersedes /\ t2.units[u].stem = t.units[v].stem
      <4>1. PICK v \in DOMAIN t.units : <<u, v>> \in t2.supersedes /\ t2.units[u].stem = t.units[v].stem
        BY <3>3
      <4>2. v \in Reach(t2.supersedes, Compiled(t2, s))
        BY <2>1, <2>4, <4>1
      <4> QED BY <2>1, <4>1, <4>2, ReachStep
    <3> QED BY <2>1, <3>1, <3>2, <3>3 DEF Kin
  <2> QED BY <2>5, <2>6
<1>5. Clean(t2)
  <2> SUFFICES ASSUME NEW u \in DOMAIN t2.units,
                      u \in t2.forgotten \/ t2.units[u].stem \cap t2.forgotten # {}
               PROVE  ~t2.units[u].open /\ u \notin t2.vectors
    BY DEF Clean
  <2>1. u \in t.forgotten \/ t2.units[u].stem \cap t.forgotten # {}
    BY DEF Keeps
  <2>2. u \in DOMAIN t.units
    BY <2>1 DEF Kin
  <2>3. /\ t2.units[u].stem = t.units[u].stem /\ (t2.units[u].open => t.units[u].open)
        /\ (u \in t2.vectors => u \in t.vectors)
    BY <2>2 DEF Keeps
  <2>4. ~t.units[u].open /\ u \notin t.vectors
    BY <2>1, <2>2, <2>3 DEF TableOk, Clean
  <2> QED BY <2>3, <2>4
<1>6. Sourced(t2)
  <2> SUFFICES ASSUME NEW u \in DOMAIN t2.units
               PROVE  t2.units[u].source \in JobIds(t) \cup {NoSource}
    BY <1>2 DEF Sourced
  <2>1. CASE u \in DOMAIN t.units
    BY <2>1 DEF TableOk, Sourced, Keeps
  <2>2. CASE u \notin DOMAIN t.units
    BY <2>2 DEF Kin
  <2> QED BY <2>1, <2>2
<1> QED BY <1>1, <1>3, <1>4, <1>5, <1>6 DEF TableOk, Keeps

\* What such a call keeps, and how often units are reinforced.
Leaves(t, t2) ==
  /\ SettledJobs(t) \subseteq SettledJobs(t2) /\ DOMAIN t.traces \subseteq DOMAIN t2.traces
  /\ t.reviews \subseteq t2.reviews

LEMMA SameJobsKept ==
  ASSUME NEW t, NEW t2, t2.jobs = t.jobs
  PROVE  JobsKept(t, t2)
BY DEF JobsKept

LEMMA UnitsGrow ==
  ASSUME NEW t, NEW t2, Keeps(t, t2), Leaves(t, t2)
  PROVE  Grows(t, t2) /\ RowsKept(t, t2)
<1>1. JobsKept(t, t2)
  BY SameJobsKept DEF Keeps
<1> QED BY <1>1 DEF Grows, RowsKept, Rows, Keeps, Leaves

\* A unit is reinforced as often as one of the same source was, or once more for
\* the observed episode.
LEMMA ReinforcedStays ==
  ASSUME NEW t, NEW t2, NEW observed, t \in Table, t2 \in Table, Reinforced(t, NoSource),
         DOMAIN t2.episodes \subseteq DOMAIN t.episodes,
         \A e \in DOMAIN t2.episodes : t2.episodes[e] = t.episodes[e],
         \A u \in DOMAIN t2.units :
            \/ t2.units[u].reinforced = 0
            \/ \E v \in DOMAIN t.units :
                 /\ t.units[v].source = t2.units[u].source
                 /\ \/ t2.units[u].reinforced = t.units[v].reinforced
                    \/ t2.units[u].source = observed /\ t2.units[u].reinforced = t.units[v].reinforced + 1
  PROVE  Reinforced(t2, observed)
<1> SUFFICES ASSUME NEW e \in DOMAIN t2.episodes
             PROVE  /\ t2.episodes[e] >= 1
                    /\ \A u \in DOMAIN t2.units : t2.units[u].source = e =>
                         t2.units[u].reinforced <= t2.episodes[e] - (IF e = observed THEN 0 ELSE 1)
  BY DEF Reinforced
<1>1. /\ e \in DOMAIN t.episodes /\ t2.episodes[e] = t.episodes[e] /\ t.episodes[e] \in Nat /\ e # NoSource
  BY TableParts, NamesAssumption
<1>2. /\ t.episodes[e] >= 1
      /\ \A v \in DOMAIN t.units : t.units[v].source = e => t.units[v].reinforced <= t.episodes[e] - 1
  BY <1>1 DEF Reinforced
<1>3. ASSUME NEW u \in DOMAIN t2.units, t2.units[u].source = e
      PROVE  t2.units[u].reinforced <= t2.episodes[e] - (IF e = observed THEN 0 ELSE 1)
  <2>1. CASE t2.units[u].reinforced = 0
    BY <1>1, <1>2, <2>1
  <2>2. CASE \E v \in DOMAIN t.units :
                 /\ t.units[v].source = t2.units[u].source
                 /\ \/ t2.units[u].reinforced = t.units[v].reinforced
                    \/ t2.units[u].source = observed /\ t2.units[u].reinforced = t.units[v].reinforced + 1
    <3>1. PICK v \in DOMAIN t.units :
                 /\ t.units[v].source = t2.units[u].source
                 /\ \/ t2.units[u].reinforced = t.units[v].reinforced
                    \/ t2.units[u].source = observed /\ t2.units[u].reinforced = t.units[v].reinforced + 1
      BY <2>2
    <3>2. t.units[v].reinforced \in Nat /\ t.units[v].reinforced <= t.episodes[e] - 1
      BY <1>2, <1>3, <3>1, TableParts DEF Unit
    <3> QED BY <1>1, <1>3, <3>1, <3>2
  <2> QED BY <2>1, <2>2
<1> QED BY <1>1, <1>2, <1>3

LEMMA ClosedIs ==
  ASSUME NEW unit \in Unit
  PROVE  /\ Closed(unit) \in Unit /\ ~Closed(unit).open /\ Closed(unit).stem = unit.stem
         /\ Closed(unit).source = unit.source /\ Closed(unit).reinforced = unit.reinforced
BY DEF Closed, Unit

LEMMA ReplaceIs ==
  ASSUME NEW t \in Table, NEW u \in DOMAIN t.units, NEW new \in Names, new \notin DOMAIN t.units, NEW unit \in Unit
  PROVE  LET t2 == Replace(t, u, new, unit) IN
         /\ t2 \in Table /\ DOMAIN t2.units = DOMAIN t.units \cup {new} /\ t2.units[new] = unit
         /\ \A v \in DOMAIN t.units : t2.units[v] = IF v = u THEN Closed(t.units[u]) ELSE t.units[v]
         /\ t2.supersedes = t.supersedes \cup {<<new, u>>}
         /\ t2.jobs = t.jobs /\ t2.episodes = t.episodes /\ t2.resources = t.resources
         /\ t2.forgotten = t.forgotten /\ t2.compiled = t.compiled /\ t2.vectors = t.vectors
         /\ t2.meta = t.meta /\ t2.traces = t.traces /\ t2.reviews = t.reviews
<1> DEFINE f == [t.units EXCEPT ![u] = Closed(t.units[u])]
           g == Extend(f, new, unit)
           t2 == Replace(t, u, new, unit)
<1>1. t.units \in Partial(Names, Unit) /\ u \in Names /\ t.units[u] \in Unit
  BY TableParts
<1>2. Closed(t.units[u]) \in Unit
  BY <1>1, ClosedIs
<1>3. /\ DOMAIN f = DOMAIN t.units /\ f = [x \in DOMAIN f |-> f[x]]
      /\ \A v \in DOMAIN t.units : f[v] = IF v = u THEN Closed(t.units[u]) ELSE t.units[v]
  OBVIOUS
<1>4. f \in Partial(Names, Unit)
  <2>1. \A v \in DOMAIN t.units : f[v] \in Unit
    BY <1>2, <1>3, TableParts
  <2> HIDE DEF f
  <2> QED BY <1>1, <1>3, <2>1, MapIs
<1>5. /\ g \in Partial(Names, Unit) /\ DOMAIN g = DOMAIN t.units \cup {new} /\ g[new] = unit
      /\ \A v \in DOMAIN t.units : g[v] = f[v]
  <2>1. unit \in Unit /\ new \in Names /\ new \notin DOMAIN t.units
    OBVIOUS
  <2> HIDE DEF f
  <2>2. /\ g \in Partial(Names, Unit) /\ DOMAIN g = DOMAIN f \cup {new} /\ g[new] = unit
        /\ \A v \in DOMAIN f : v # new => g[v] = f[v]
    BY <1>4, <2>1, ExtendUnits
  <2> HIDE DEF g
  <2> QED BY <1>3, <2>1, <2>2
<1>6. t2 = [t EXCEPT !.units = g, !.supersedes = @ \cup {<<new, u>>}]
  BY DEF Replace
<1>7. t.supersedes \cup {<<new, u>>} \in SUBSET (Names \X Names)
  BY <1>1, TableParts
<1> HIDE DEF f, g
<1>8. /\ t2 \in Table /\ t2.units = g /\ t2.supersedes = t.supersedes \cup {<<new, u>>}
      /\ t2.jobs = t.jobs /\ t2.episodes = t.episodes /\ t2.resources = t.resources
      /\ t2.forgotten = t.forgotten /\ t2.compiled = t.compiled /\ t2.vectors = t.vectors
      /\ t2.meta = t.meta /\ t2.traces = t.traces /\ t2.reviews = t.reviews
  BY <1>5, <1>6, <1>7 DEF Table
<1> HIDE DEF t2
<1>9. /\ DOMAIN t2.units = DOMAIN t.units \cup {new} /\ t2.units[new] = unit
      /\ \A v \in DOMAIN t.units : t2.units[v] = IF v = u THEN Closed(t.units[u]) ELSE t.units[v]
  BY <1>3, <1>5, <1>8
<1> QED BY <1>8, <1>9 DEF t2

\* A unit of t2 is reinforced as one of t, once more for the observed episode, or not.
AsBefore(t, t2, observed) ==
  \A u \in DOMAIN t2.units :
    \/ t2.units[u].reinforced = 0
    \/ \E v \in DOMAIN t.units :
         /\ t.units[v].source = t2.units[u].source
         /\ \/ t2.units[u].reinforced = t.units[v].reinforced
            \/ t2.units[u].source = observed /\ t2.units[u].reinforced = t.units[v].reinforced + 1

LEMMA StagedByUnits ==
  ASSUME NEW t, NEW t2, NEW observed, NEW new, TableOk(t), Reinforced(t, NoSource), Keeps(t, t2), Leaves(t, t2),
         \A u \in DOMAIN t2.units \ DOMAIN t.units : Kin(t, t2, u),
         AsBefore(t, t2, observed), DOMAIN t2.units \subseteq DOMAIN t.units \cup {new}
  PROVE  Staged(t2, t, FALSE, observed, Used(t) \cup {new})
<1>1. TableOk(t2) /\ t2.jobs = t.jobs /\ t2.episodes = t.episodes /\ t2.resources = t.resources
        /\ t2.forgotten = t.forgotten /\ t \in Table /\ t2 \in Table
  BY UnitsStep DEF Keeps, TableOk
<1>2. Grows(t, t2) /\ RowsKept(t, t2)
  BY UnitsGrow
<1>3. Reinforced(t2, observed)
  BY <1>1, ReinforcedStays DEF AsBefore
<1>4. Used(t2) \subseteq Used(t) \cup {new}
  BY <1>1, SameQueue DEF Used, Rows
<1> QED BY <1>1, <1>2, <1>3, <1>4 DEF Staged

\* A call that changes nothing.
LEMMA StagedSelf ==
  ASSUME NEW t, NEW new, TableOk(t), Reinforced(t, NoSource)
  PROVE  Staged(t, t, FALSE, NoSource, Used(t) \cup {new})
<1>1. Keeps(t, t) /\ Leaves(t, t)
  BY DEF Keeps, Leaves, TableOk
<1>2. AsBefore(t, t, NoSource)
  BY DEF AsBefore
<1> QED BY <1>1, <1>2, StagedByUnits

LEMMA ReplaceStaged ==
  ASSUME NEW t, TableOk(t), Reinforced(t, NoSource), NEW u \in DOMAIN t.units, t.units[u].open,
         NEW new \in Names \ Used(t), NEW unit \in Unit, unit.stem = t.units[u].stem,
         \/ unit.source = t.units[u].source /\ unit.reinforced = t.units[u].reinforced
         \/ unit.source = NoSource /\ unit.reinforced = 0,
         NEW t2, NEW r2, r2 = Replace(t, u, new, unit), t2 \in Table,
         t2.units = r2.units, t2.supersedes = r2.supersedes, t2.compiled = r2.compiled,
         t2.jobs = r2.jobs, t2.episodes = r2.episodes, t2.resources = r2.resources,
         t2.forgotten = r2.forgotten, t2.meta = r2.meta, t2.traces = r2.traces, t2.reviews = r2.reviews,
         t2.vectors \subseteq r2.vectors \cup {new}
  PROVE  Staged(t2, t, FALSE, NoSource, Used(t) \cup {new})
<1>1. t \in Table /\ new \notin DOMAIN t.units /\ new \notin t.forgotten /\ new \notin JobIds(t)
  BY DEF TableOk, Used
<1>2. /\ DOMAIN t2.units = DOMAIN t.units \cup {new} /\ t2.units[new] = unit
      /\ \A v \in DOMAIN t.units : t2.units[v] = IF v = u THEN Closed(t.units[u]) ELSE t.units[v]
      /\ t2.supersedes = t.supersedes \cup {<<new, u>>} /\ t2.vectors \subseteq t.vectors \cup {new}
      /\ t2.jobs = t.jobs /\ t2.episodes = t.episodes /\ t2.resources = t.resources
      /\ t2.forgotten = t.forgotten /\ t2.compiled = t.compiled
      /\ t2.meta = t.meta /\ t2.traces = t.traces /\ t2.reviews = t.reviews
  BY <1>1, ReplaceIs
<1>3. t.units[u] \in Unit
  BY <1>1, TableParts
<1>4. \A v \in DOMAIN t.units :
        /\ t2.units[v].stem = t.units[v].stem /\ t2.units[v].source = t.units[v].source
        /\ (t2.units[v].open => t.units[v].open) /\ t2.units[v].reinforced = t.units[v].reinforced
  BY <1>2, <1>3, ClosedIs
<1>5. Keeps(t, t2)
  BY <1>1, <1>2, <1>4 DEF Keeps
<1>6. Leaves(t, t2)
  BY <1>2 DEF Leaves, SettledJobs
<1>7. Kin(t, t2, new)
  <2>1. t.units[u].stem \cap t.forgotten = {}
    BY DEF TableOk, Clean
  <2>2. \A i \in DOMAIN t.jobs : t.jobs[i].id # new
    BY <1>1 DEF JobIds
  <2>3. unit.source \in JobIds(t) \cup {NoSource}
    BY DEF TableOk, Sourced
  <2> QED BY <1>1, <1>2, <2>1, <2>2, <2>3 DEF Kin
<1>8. AsBefore(t, t2, NoSource)
  BY <1>2, <1>4 DEF AsBefore
<1> QED BY <1>2, <1>5, <1>6, <1>7, <1>8, StagedByUnits

LEMMA CorrectStaged ==
  ASSUME NEW t, TableOk(t), Reinforced(t, NoSource), NEW u, NEW new \in Names \ Used(t), Correct(t, u, new) # Refused
  PROVE  Staged(Correct(t, u, new), t, FALSE, NoSource, Used(t) \cup {new})
<1> DEFINE unit == [state |-> "active", open |-> TRUE, source |-> NoSource,
                    stem |-> t.units[u].stem, reinforced |-> 0]
           r2 == Replace(t, u, new, unit)
           t2 == [r2 EXCEPT !.vectors = @ \cup {new}]
<1>1. u \in DOMAIN t.units /\ t.units[u].open /\ Correct(t, u, new) = t2
  BY DEF Correct, Correctable, OpenUnits
<1>2. t \in Table /\ t.units[u] \in Unit /\ new \notin DOMAIN t.units
  BY <1>1, TableParts DEF TableOk, Used
<1>3. unit \in Unit /\ unit.stem = t.units[u].stem /\ unit.reinforced = 0 /\ unit.source = NoSource
  BY <1>2 DEF Unit
<1> HIDE DEF unit
<1>4. r2 \in Table
  BY <1>1, <1>2, <1>3, ReplaceIs
<1> HIDE DEF r2
<1>5. /\ t2 \in Table /\ t2.units = r2.units /\ t2.supersedes = r2.supersedes /\ t2.compiled = r2.compiled
      /\ t2.jobs = r2.jobs /\ t2.episodes = r2.episodes /\ t2.resources = r2.resources
      /\ t2.forgotten = r2.forgotten /\ t2.meta = r2.meta /\ t2.traces = r2.traces /\ t2.reviews = r2.reviews
      /\ t2.vectors \subseteq r2.vectors \cup {new}
  BY <1>4 DEF Table
<1> HIDE DEF t2
<1> QED BY <1>1, <1>3, <1>5, ReplaceStaged DEF r2

LEMMA InvalidateStaged ==
  ASSUME NEW t, TableOk(t), Reinforced(t, NoSource), NEW u, NEW new \in Names \ Used(t), Invalidate(t, u, new) # Refused
  PROVE  Staged(Invalidate(t, u, new), t, FALSE, NoSource, Used(t) \cup {new})
<1> DEFINE unit == [t.units[u] EXCEPT !.state = "invalidated"]
           t2 == Replace(t, u, new, unit)
<1>1. u \in DOMAIN t.units /\ t.units[u].open /\ Invalidate(t, u, new) = t2
  BY DEF Invalidate, Correctable, OpenUnits
<1>2. t \in Table /\ t.units[u] \in Unit /\ new \notin DOMAIN t.units
  BY <1>1, TableParts DEF TableOk, Used
<1>3. /\ unit \in Unit /\ unit.stem = t.units[u].stem /\ unit.source = t.units[u].source
      /\ unit.reinforced = t.units[u].reinforced
  BY <1>2 DEF Unit
<1> HIDE DEF unit
<1>4. t2 \in Table
  BY <1>1, <1>2, <1>3, ReplaceIs
<1> HIDE DEF t2
<1>5. t2.vectors \subseteq t2.vectors \cup {new}
  OBVIOUS
<1> QED BY <1>1, <1>3, <1>4, <1>5, ReplaceStaged DEF t2

\* A map over the units that keeps what they restate and opens none.
LEMMA MapStaged ==
  ASSUME NEW t, NEW t2, NEW observed, NEW new, TableOk(t), Reinforced(t, NoSource), t2 \in Table,
         DOMAIN t2.units = DOMAIN t.units,
         \A u \in DOMAIN t.units :
           /\ t2.units[u].stem = t.units[u].stem /\ t2.units[u].source = t.units[u].source
           /\ t2.units[u].open => t.units[u].open
           /\ \/ t2.units[u].reinforced = t.units[u].reinforced
              \/ t2.units[u].source = observed /\ t2.units[u].reinforced = t.units[u].reinforced + 1,
         t2.vectors = t.vectors, t2.supersedes = t.supersedes, t.compiled \subseteq t2.compiled,
         t2.jobs = t.jobs, t2.episodes = t.episodes, t2.resources = t.resources, t2.forgotten = t.forgotten,
         t2.meta = t.meta, t2.traces = t.traces, t.reviews \subseteq t2.reviews
  PROVE  Staged(t2, t, FALSE, observed, Used(t) \cup {new})
<1>1. Keeps(t, t2)
  BY DEF Keeps
<1>2. Leaves(t, t2)
  BY DEF Leaves, SettledJobs
<1>3. AsBefore(t, t2, observed)
  BY DEF AsBefore
<1> QED BY <1>1, <1>2, <1>3, StagedByUnits

LEMMA ReviewStaged ==
  ASSUME NEW t, TableOk(t), Reinforced(t, NoSource), NEW trace \in Names, NEW r \in Names, Review(t, trace, r) # Refused
  PROVE  Staged(Review(t, trace, r), t, FALSE, NoSource, Used(t) \cup {r})
<1> DEFINE t2 == [t EXCEPT !.reviews = @ \cup {<<trace, r>>}]
<1>1. Review(t, trace, r) = t2
  BY DEF Review
<1>2. t \in Table
  BY DEF TableOk
<1>3. /\ t2 \in Table /\ t2.units = t.units /\ t2.vectors = t.vectors /\ t2.supersedes = t.supersedes
      /\ t2.compiled = t.compiled /\ t2.jobs = t.jobs /\ t2.episodes = t.episodes
      /\ t2.resources = t.resources /\ t2.forgotten = t.forgotten /\ t2.meta = t.meta
      /\ t2.traces = t.traces /\ t.reviews \subseteq t2.reviews
  BY <1>2 DEF Table
<1> HIDE DEF t2
<1> QED BY <1>1, <1>3, MapStaged

LEMMA ReinforceStaged ==
  ASSUME NEW t, TableOk(t), Reinforced(t, NoSource), NEW e, NEW r \in Names, NEW new
  PROVE  Staged(Reinforce(t, e, r), t, FALSE, e, Used(t) \cup {new})
<1> DEFINE g == [u \in DOMAIN t.units |->
                   IF u \in Captured(t, e) THEN [t.units[u] EXCEPT !.reinforced = t.units[u].reinforced + 1]
                   ELSE t.units[u]]
           t2 == [t EXCEPT !.units = g, !.compiled = @ \cup {r}]
<1>1. t \in Table
  BY DEF TableOk
<1>2. CASE Captured(t, e) = {}
  <2>1. Reinforce(t, e, r) = t
    BY <1>2 DEF Reinforce
  <2> QED BY <1>1, <2>1, MapStaged
<1>3. CASE Captured(t, e) # {}
  <2>1. Reinforce(t, e, r) = t2
    BY <1>3 DEF Reinforce
  <2>2. \A u \in DOMAIN t.units : t.units[u] \in Unit /\ (u \in Captured(t, e) => t.units[u].source = e)
    BY <1>1, TableParts DEF Captured
  <2>3. \A u \in DOMAIN t.units :
           /\ g[u] \in Unit /\ g[u].stem = t.units[u].stem /\ g[u].source = t.units[u].source
           /\ g[u].open => t.units[u].open
           /\ g[u].reinforced = t.units[u].reinforced
                \/ (g[u].source = e /\ g[u].reinforced = t.units[u].reinforced + 1)
    <3> SUFFICES ASSUME NEW u \in DOMAIN t.units
                 PROVE  /\ g[u] \in Unit /\ g[u].stem = t.units[u].stem /\ g[u].source = t.units[u].source
                        /\ g[u].open => t.units[u].open
                        /\ g[u].reinforced = t.units[u].reinforced
                             \/ (g[u].source = e /\ g[u].reinforced = t.units[u].reinforced + 1)
      OBVIOUS
    <3>1. CASE u \in Captured(t, e)
      <4>1. g[u] = [t.units[u] EXCEPT !.reinforced = t.units[u].reinforced + 1]
        BY <3>1
      <4> QED BY <2>2, <3>1, <4>1 DEF Unit
    <3>2. CASE u \notin Captured(t, e)
      BY <2>2, <3>2
    <3> QED BY <3>1, <3>2
  <2>4. g \in Partial(Names, Unit) /\ DOMAIN g = DOMAIN t.units
    <3>1. DOMAIN g = DOMAIN t.units /\ g = [x \in DOMAIN g |-> g[x]] /\ t.units \in Partial(Names, Unit)
      BY <1>1, TableParts
    <3> HIDE DEF g
    <3> QED BY <2>3, <3>1, MapIs
  <2> HIDE DEF g
  <2>5. /\ t2 \in Table /\ t2.units = g /\ t2.vectors = t.vectors /\ t2.supersedes = t.supersedes
        /\ t.compiled \subseteq t2.compiled /\ t2.jobs = t.jobs /\ t2.episodes = t.episodes
        /\ t2.resources = t.resources /\ t2.forgotten = t.forgotten /\ t2.meta = t.meta
        /\ t2.traces = t.traces /\ t.reviews \subseteq t2.reviews
    BY <1>1, <2>4 DEF Table
  <2> HIDE DEF t2
  <2> QED BY <2>1, <2>3, <2>4, <2>5, MapStaged
<1> QED BY <1>2, <1>3

LEMMA PromotedStaged ==
  ASSUME NEW t, TableOk(t), Reinforced(t, NoSource), NEW promoted, NEW new, Promoted(t, promoted) # Refused
  PROVE  Staged(Promoted(t, promoted), t, FALSE, NoSource, Used(t) \cup {new})
<1> DEFINE g == [u \in DOMAIN t.units |->
                   IF u \in promoted THEN [t.units[u] EXCEPT !.state = "active"] ELSE t.units[u]]
           t2 == [t EXCEPT !.units = g]
<1>1. t \in Table /\ Promoted(t, promoted) = t2
  BY DEF TableOk, Promoted
<1>2. \A u \in DOMAIN t.units : t.units[u] \in Unit
  BY <1>1, TableParts
<1>3. \A u \in DOMAIN t.units :
         /\ g[u] \in Unit /\ g[u].stem = t.units[u].stem /\ g[u].source = t.units[u].source
         /\ g[u].open = t.units[u].open /\ g[u].reinforced = t.units[u].reinforced
  BY <1>2 DEF Unit
<1>4. g \in Partial(Names, Unit) /\ DOMAIN g = DOMAIN t.units
  <2>1. DOMAIN g = DOMAIN t.units /\ g = [x \in DOMAIN g |-> g[x]] /\ t.units \in Partial(Names, Unit)
    BY <1>1, TableParts
  <2> HIDE DEF g
  <2> QED BY <1>3, <2>1, MapIs
<1> HIDE DEF g
<1>5. /\ t2 \in Table /\ t2.units = g /\ t2.vectors = t.vectors /\ t2.supersedes = t.supersedes
      /\ t2.compiled = t.compiled /\ t2.jobs = t.jobs /\ t2.episodes = t.episodes
      /\ t2.resources = t.resources /\ t2.forgotten = t.forgotten /\ t2.meta = t.meta
      /\ t2.traces = t.traces /\ t2.reviews = t.reviews
  BY <1>1, <1>4 DEF Table
<1> HIDE DEF t2
<1> QED BY <1>1, <1>3, <1>4, <1>5, MapStaged

\* stage_compiled_units.  The new row is the job's: of the job's source, or a direct
\* statement that no job shares its name with.
LEMMA CompileStaged ==
  ASSUME NEW t, TableOk(t), Reinforced(t, NoSource), NEW job \in Names, NEW plan \in SUBSET Names,
         NEW source \in Names \cup {NoSource}, NEW state \in {"none", "candidate", "active"},
         job \notin DOMAIN t.units \/ job \in t.compiled,
         state # "none" =>
           /\ source = NoSource \/ job \in JobIds(t)
           /\ \A i \in DOMAIN t.jobs : t.jobs[i].id = job =>
                t.jobs[i].source = source /\ t.jobs[i].compiler = Compiler,
         Compile(t, job, plan, job, source, state) # Refused
  PROVE  /\ Staged(Compile(t, job, plan, job, source, state), t, FALSE, NoSource, Used(t) \cup {job})
         /\ Compile(t, job, plan, job, source, state).meta = t.meta
<1> DEFINE f == [u \in DOMAIN t.units |-> IF u \in plan THEN Closed(t.units[u]) ELSE t.units[u]]
           closed == [t EXCEPT !.units = f, !.compiled = @ \cup {job}]
           unit == [state |-> state, open |-> TRUE, source |-> source,
                    stem |-> {source} \ {NoSource}, reinforced |-> 0]
           edges == {<<job, u>> : u \in plan}
           t2 == [closed EXCEPT !.units = Extend(@, job, unit), !.supersedes = @ \cup edges,
                                !.vectors = @ \cup {job}]
<1>1. t \in Table /\ t.units \in Partial(Names, Unit) /\ \A u \in DOMAIN t.units : t.units[u] \in Unit
  BY TableParts DEF TableOk
<1>2. CASE job \in t.compiled
  <2>1. Compile(t, job, plan, job, source, state) = t
    BY <1>2 DEF Compile
  <2> QED BY <2>1, StagedSelf
<1>3. CASE job \notin t.compiled
  <2>1. \/ Compile(t, job, plan, job, source, state) = closed
        \/ Admits(t, job, source) /\ state # "none" /\ Compile(t, job, plan, job, source, state) = t2
    BY <1>3 DEF Compile
  <2>2. \A u \in DOMAIN t.units :
          /\ f[u] \in Unit /\ f[u].stem = t.units[u].stem /\ f[u].source = t.units[u].source
          /\ (f[u].open => t.units[u].open) /\ f[u].reinforced = t.units[u].reinforced
    <3> SUFFICES ASSUME NEW u \in DOMAIN t.units
                 PROVE  /\ f[u] \in Unit /\ f[u].stem = t.units[u].stem /\ f[u].source = t.units[u].source
                        /\ (f[u].open => t.units[u].open) /\ f[u].reinforced = t.units[u].reinforced
      OBVIOUS
    <3>1. f[u] = Closed(t.units[u]) \/ f[u] = t.units[u]
      OBVIOUS
    <3> QED BY <1>1, <3>1, ClosedIs
  <2>3. f \in Partial(Names, Unit) /\ DOMAIN f = DOMAIN t.units
    <3>1. DOMAIN f = DOMAIN t.units /\ f = [x \in DOMAIN f |-> f[x]]
      OBVIOUS
    <3> HIDE DEF f
    <3> QED BY <1>1, <2>2, <3>1, MapIs
  <2> HIDE DEF f
  <2>4. /\ closed \in Table /\ closed.units = f /\ closed.vectors = t.vectors /\ closed.supersedes = t.supersedes
        /\ closed.compiled = t.compiled \cup {job} /\ closed.jobs = t.jobs /\ closed.episodes = t.episodes
        /\ closed.resources = t.resources /\ closed.forgotten = t.forgotten /\ closed.meta = t.meta
        /\ closed.traces = t.traces /\ closed.reviews = t.reviews
    BY <1>1, <2>3 DEF Table
  <2> HIDE DEF closed
  <2>5. CASE Compile(t, job, plan, job, source, state) = closed
    BY <2>2, <2>3, <2>4, <2>5, MapStaged
  <2>6. CASE Admits(t, job, source) /\ state # "none" /\ Compile(t, job, plan, job, source, state) = t2
    <3>1. job \notin t.forgotten /\ source \notin t.forgotten
      BY <2>6 DEF Admits, IsForgotten
    <3>2. unit \in Unit /\ unit.reinforced = 0 /\ unit.source = source /\ unit.stem = {source} \ {NoSource}
      BY <2>6 DEF Unit
    <3> HIDE DEF unit
    <3> DEFINE g == Extend(f, job, unit)
    <3>3. /\ g \in Partial(Names, Unit) /\ DOMAIN g = DOMAIN f \cup {job} /\ g[job] = unit
          /\ \A u \in DOMAIN f : u # job => g[u] = f[u]
      <4>1. f \in Partial(Names, Unit) /\ job \in Names /\ unit \in Unit
        BY <2>3, <3>2
      <4>2. DOMAIN f \subseteq Names /\ \A u \in DOMAIN f : f[u] \in Unit
        BY <4>1, PartialHas
      <4>3. g \in [DOMAIN f \cup {job} -> Unit] /\ DOMAIN f \cup {job} \in SUBSET Names
        BY <4>1, <4>2 DEF Extend
      <4>4. g[job] = unit /\ \A u \in DOMAIN f : u # job => g[u] = f[u]
        BY DEF Extend
      <4> HIDE DEF g
      <4> QED BY <4>3, <4>4 DEF Partial
    <3>4. t2 = [closed EXCEPT !.units = g, !.supersedes = @ \cup edges, !.vectors = @ \cup {job}]
      BY <2>4
    <3>5. edges \in SUBSET (Names \X Names)
      OBVIOUS
    <3> HIDE DEF g, edges
    <3>6. /\ t2 \in Table /\ t2.units = g /\ t2.vectors = t.vectors \cup {job}
          /\ t2.supersedes = t.supersedes \cup edges
          /\ t2.compiled = t.compiled \cup {job} /\ t2.jobs = t.jobs /\ t2.episodes = t.episodes
          /\ t2.resources = t.resources /\ t2.forgotten = t.forgotten /\ t2.meta = t.meta
          /\ t2.traces = t.traces /\ t2.reviews = t.reviews
      BY <2>4, <3>3, <3>4, <3>5 DEF Table
    <3> HIDE DEF t2
    <3>7. job \notin DOMAIN t.units
      BY <1>3
    <3>8. \A u \in DOMAIN t.units : t2.units[u] = f[u] /\ (u \in t2.vectors => u \in t.vectors)
      BY <2>3, <3>3, <3>6, <3>7
    <3>9. Keeps(t, t2)
      BY <2>2, <2>3, <3>3, <3>6, <3>8 DEF Keeps
    <3>10. Leaves(t, t2)
      BY <3>6 DEF Leaves, SettledJobs
    <3>11. Kin(t, t2, job)
      <4>1. source \in JobIds(t) \cup {NoSource}
        <5>1. ASSUME source # NoSource
              PROVE  source \in JobIds(t)
          <6>1. PICK i \in DOMAIN t.jobs : t.jobs[i].id = job
            BY <2>6, <5>1 DEF JobIds
          <6>2. t.jobs[i].source = source
            BY <2>6, <6>1
          <6>3. HasHome(t, source)
            BY <5>1, <6>2 DEF TableOk, Queue
          <6> QED BY <6>3 DEF HasHome, IsJob, JobIds
        <5> QED BY <5>1
      <4> QED BY <2>6, <3>1, <3>2, <3>3, <3>6, <4>1 DEF Kin
    <3>12. AsBefore(t, t2, NoSource)
      BY <2>2, <2>3, <3>2, <3>3, <3>6, <3>8 DEF AsBefore
    <3>13. Staged(t2, t, FALSE, NoSource, Used(t) \cup {job})
      BY <2>3, <3>3, <3>6, <3>9, <3>10, <3>11, <3>12, StagedByUnits
    <3> QED BY <2>6, <3>6, <3>13
  <2> QED BY <2>1, <2>5, <2>6
<1> QED BY <1>2, <1>3

LEMMA MetaType ==
  ASSUME NEW t \in Table, NEW j
  PROVE  MetaOf(t, j) \in JobMeta
BY TableParts DEF MetaOf, NewMeta, JobMeta

\* With a claim that is current: the job is settled with it.
LEMMA CompileClaimedStaged ==
  ASSUME NEW t, TableOk(t), Reinforced(t, NoSource), NEW claim, ClaimIsCurrent(t, claim), NEW plan \in SUBSET Names,
         claim.job.compiler = Compiler,
         CompileClaimed(t, claim, plan) # Refused
  PROVE  Staged(CompileClaimed(t, claim, plan), t, FALSE, NoSource, Used(t))
<1> DEFINE job == claim.job.id
           source == claim.job.source
           state == IF source = NoSource THEN "none" ELSE IF plan = {} THEN "candidate" ELSE "active"
           done == Compile(t, job, plan, job, source, state)
           m == [MetaOf(t, job) EXCEPT !.completed = TRUE, !.claimed = FALSE]
           t2 == [done EXCEPT !.meta = Extend(t.meta, job, m)]
<1>1. t \in Table /\ t.meta \in Partial(Names, JobMeta)
  BY TableParts DEF TableOk
<1>2. PICK k \in DOMAIN t.jobs : t.jobs[k] = claim.job
  BY DEF ClaimIsCurrent
<1>3. job \in Names /\ source \in Names \cup {NoSource} /\ job \in JobIds(t) /\ claim.job.compiler = Compiler
  BY <1>1, <1>2, TableParts DEF Job, JobIds
<1>4. \A i \in DOMAIN t.jobs : t.jobs[i].id = job => t.jobs[i] = claim.job
  BY <1>2 DEF TableOk, Queue
<1>5. job \notin DOMAIN t.units \/ job \in t.compiled
  BY <1>2 DEF TableOk, Compilations
<1>6. state \in {"none", "candidate", "active"}
  OBVIOUS
<1>7. done # Refused
  BY DEF CompileClaimed
<1>8. Used(t) \cup {job} = Used(t)
  BY <1>3 DEF Used
<1>9. Staged(done, t, FALSE, NoSource, Used(t)) /\ done.meta = t.meta
  <2>1. state # "none" =>
          /\ source = NoSource \/ job \in JobIds(t)
          /\ \A i \in DOMAIN t.jobs : t.jobs[i].id = job =>
                t.jobs[i].source = source /\ t.jobs[i].compiler = Compiler
    BY <1>3, <1>4
  <2> HIDE DEF state, job, source
  <2>2. Staged(done, t, FALSE, NoSource, Used(t) \cup {job}) /\ done.meta = t.meta
    BY <1>3, <1>5, <1>6, <1>7, <2>1, CompileStaged
  <2> QED BY <1>8, <2>2
<1> HIDE DEF state
<1>10. CASE job \in t.compiled
  <2>1. CompileClaimed(t, claim, plan) = done
    BY <1>10 DEF CompileClaimed, state
  <2> QED BY <1>9, <2>1
<1>11. CASE job \notin t.compiled
  <2>1. CompileClaimed(t, claim, plan) = t2
    BY <1>7, <1>11 DEF CompileClaimed, state
  <2>2. m \in JobMeta /\ m.completed
    BY <1>1, MetaType DEF JobMeta
  <2> HIDE DEF m, done
  <2> DEFINE g == Extend(t.meta, job, m)
  <2>3. /\ g \in Partial(Names, JobMeta) /\ DOMAIN g = DOMAIN t.meta \cup {job} /\ g[job] = m
        /\ \A j \in DOMAIN t.meta : j # job => g[j] = t.meta[j]
    <3>1. t.meta \in Partial(Names, JobMeta) /\ job \in Names /\ m \in JobMeta
      BY <1>1, <1>3, <2>2
    <3> HIDE DEF job
    <3> QED BY <3>1, ExtendMeta
  <2> HIDE DEF g
  <2>4. t2 = [done EXCEPT !.meta = g] /\ done \in Table
    BY <1>9 DEF Staged, TableOk, g
  <2>5. /\ t2 \in Table /\ t2.meta = g /\ t2.units = done.units /\ t2.vectors = done.vectors
        /\ t2.supersedes = done.supersedes /\ t2.compiled = done.compiled /\ t2.jobs = done.jobs
        /\ t2.episodes = done.episodes /\ t2.resources = done.resources /\ t2.forgotten = done.forgotten
        /\ t2.traces = done.traces /\ t2.reviews = done.reviews
    BY <2>3, <2>4 DEF Table
  <2> HIDE DEF t2
  <2>6. SettledJobs(t) \subseteq SettledJobs(t2)
    BY <2>2, <2>3, <2>5 DEF SettledJobs
  <2>7. TableOk(t2)
    <3>1. Queue(t2)
      BY <1>9, <2>5, QueueStays DEF Staged, TableOk, Rows
    <3>2. JobIds(t2) = JobIds(done)
      BY <2>5, SameQueue
    <3>3. Compilations(t2) /\ Clean(t2) /\ Sourced(t2)
      BY <1>9, <2>5, <3>2 DEF Staged, TableOk, Compilations, Clean, Sourced
    <3>4. Rooted(t2)
      BY <1>9, <2>5, <3>2 DEF Staged, TableOk, Rooted, Restating, Compiled
    <3> QED BY <2>5, <3>1, <3>3, <3>4 DEF TableOk
  <2>8. Grows(t, t2) /\ RowsKept(t, t2)
    BY <1>9, <2>5, <2>6 DEF Staged, Grows, RowsKept, Rows, JobsKept
  <2>9. Reinforced(t2, NoSource)
    BY <1>9, <2>5 DEF Staged, Reinforced
  <2>10. Used(t2) = Used(done)
    BY <2>5, SameQueue DEF Used, Rows
  <2>11. Staged(t2, t, FALSE, NoSource, Used(t))
    BY <1>9, <2>5, <2>7, <2>8, <2>9, <2>10 DEF Staged
  <2> QED BY <2>1, <2>11
<1> QED BY <1>10, <1>11

-----------------------------------------------------------------------------
(***************************************************************************)
(* Forgetting: whatever restates x is among the rows that go.              *)
(***************************************************************************)
LEMMA DeletedIs ==
  ASSUME NEW t \in Table, NEW gone
  PROVE  LET t2 == Deleted(t, gone) IN
         /\ t2 \in Table /\ DOMAIN t2.units = DOMAIN t.units /\ t2.vectors = t.vectors \ gone
         /\ \A u \in DOMAIN t.units :
              /\ t2.units[u].stem = t.units[u].stem /\ t2.units[u].source = t.units[u].source
              /\ t2.units[u].reinforced = t.units[u].reinforced
              /\ t2.units[u].open <=> t.units[u].open /\ u \notin gone
         /\ t2.jobs = t.jobs /\ t2.episodes = t.episodes /\ t2.resources = t.resources
         /\ t2.forgotten = t.forgotten /\ t2.compiled = t.compiled /\ t2.supersedes = t.supersedes
         /\ t2.meta = t.meta /\ t2.traces = t.traces /\ t2.reviews = t.reviews
<1> DEFINE f == [u \in DOMAIN t.units |->
                   IF u \in gone THEN [t.units[u] EXCEPT !.state = "deleted", !.open = FALSE] ELSE t.units[u]]
           t2 == Deleted(t, gone)
<1>1. t.units \in Partial(Names, Unit) /\ \A u \in DOMAIN t.units : t.units[u] \in Unit
  BY TableParts
<1>2. \A u \in DOMAIN t.units :
        /\ f[u] \in Unit /\ f[u].stem = t.units[u].stem /\ f[u].source = t.units[u].source
        /\ f[u].reinforced = t.units[u].reinforced
        /\ f[u].open <=> t.units[u].open /\ u \notin gone
  <2> SUFFICES ASSUME NEW u \in DOMAIN t.units
               PROVE  /\ f[u] \in Unit /\ f[u].stem = t.units[u].stem /\ f[u].source = t.units[u].source
                      /\ f[u].reinforced = t.units[u].reinforced
                      /\ f[u].open <=> t.units[u].open /\ u \notin gone
    OBVIOUS
  <2>1. CASE u \in gone
    <3>1. f[u] = [t.units[u] EXCEPT !.state = "deleted", !.open = FALSE]
      BY <2>1
    <3> QED BY <1>1, <2>1, <3>1 DEF Unit
  <2>2. CASE u \notin gone
    BY <1>1, <2>2
  <2> QED BY <2>1, <2>2
<1>3. f \in Partial(Names, Unit) /\ DOMAIN f = DOMAIN t.units
  <2>1. DOMAIN f = DOMAIN t.units /\ f = [x \in DOMAIN f |-> f[x]]
    OBVIOUS
  <2> HIDE DEF f
  <2> QED BY <1>1, <1>2, <2>1, MapIs
<1>4. t2 = [t EXCEPT !.units = f, !.vectors = @ \ gone]
  BY DEF Deleted
<1> HIDE DEF f
<1>5. /\ t2 \in Table /\ t2.units = f /\ t2.vectors = t.vectors \ gone
      /\ t2.jobs = t.jobs /\ t2.episodes = t.episodes /\ t2.resources = t.resources
      /\ t2.forgotten = t.forgotten /\ t2.compiled = t.compiled /\ t2.supersedes = t.supersedes
      /\ t2.meta = t.meta /\ t2.traces = t.traces /\ t2.reviews = t.reviews
  BY <1>3, <1>4 DEF Table
<1> HIDE DEF t2
<1> QED BY <1>2, <1>3, <1>5 DEF t2

\* The tables d of a deletion, with x forgotten and perhaps its episode gone.
Forgetting(t, d, t2, x) ==
  /\ t2 \in Table /\ t2.units = d.units /\ t2.vectors = d.vectors /\ t2.jobs = d.jobs
  /\ t2.resources = d.resources /\ t2.compiled = d.compiled /\ t2.supersedes = d.supersedes
  /\ t2.meta = d.meta /\ t2.traces = d.traces /\ t2.reviews = d.reviews
  /\ t2.forgotten = t.forgotten \cup {x}
  /\ DOMAIN t2.episodes \in {DOMAIN t.episodes, DOMAIN t.episodes \ {x}}
  /\ \A e \in DOMAIN t2.episodes : t2.episodes[e] = t.episodes[e]

LEMMA ForgetStaged ==
  ASSUME NEW t, TableOk(t), Reinforced(t, NoSource), NEW gone, NEW x \in Used(t), NEW new,
         Restating(t, x) \subseteq gone, x \in DOMAIN t.units => x \in gone,
         NEW t2, Forgetting(t, Deleted(t, gone), t2, x)
  PROVE  Staged(t2, t, TRUE, NoSource, Used(t) \cup {new})
<1>0. /\ t2 \in Table /\ t2.forgotten = t.forgotten \cup {x}
      /\ DOMAIN t2.episodes \in {DOMAIN t.episodes, DOMAIN t.episodes \ {x}}
      /\ \A e \in DOMAIN t2.episodes : t2.episodes[e] = t.episodes[e]
  BY DEF Forgetting
<1>1. t \in Table
  BY DEF TableOk
<1>2. /\ DOMAIN t2.units = DOMAIN t.units /\ t2.vectors = t.vectors \ gone
      /\ \A u \in DOMAIN t.units :
           /\ t2.units[u].stem = t.units[u].stem /\ t2.units[u].source = t.units[u].source
           /\ t2.units[u].reinforced = t.units[u].reinforced
           /\ t2.units[u].open <=> t.units[u].open /\ u \notin gone
      /\ t2.jobs = t.jobs /\ t2.resources = t.resources /\ t2.compiled = t.compiled
      /\ t2.supersedes = t.supersedes /\ t2.meta = t.meta /\ t2.traces = t.traces /\ t2.reviews = t.reviews
  <2>1. PICK d : d = Deleted(t, gone)
    OBVIOUS
  <2>2. /\ DOMAIN d.units = DOMAIN t.units /\ d.vectors = t.vectors \ gone
        /\ \A u \in DOMAIN t.units :
             /\ d.units[u].stem = t.units[u].stem /\ d.units[u].source = t.units[u].source
             /\ d.units[u].reinforced = t.units[u].reinforced
             /\ d.units[u].open <=> t.units[u].open /\ u \notin gone
        /\ d.jobs = t.jobs /\ d.resources = t.resources /\ d.compiled = t.compiled
        /\ d.supersedes = t.supersedes /\ d.meta = t.meta /\ d.traces = t.traces /\ d.reviews = t.reviews
    BY <1>1, <2>1, DeletedIs
  <2> QED BY <2>1, <2>2 DEF Forgetting
<1>3. Rows(t2) \subseteq Rows(t) /\ Rows(t) \ Rows(t2) \subseteq {x}
  BY <1>0, <1>2 DEF Rows
<1>4. JobIds(t2) = JobIds(t)
  BY <1>2, SameQueue
<1>5. TableOk(t2)
  <2>1. Queue(t2)
    BY <1>0, <1>2, <1>3, QueueStays DEF TableOk
  <2>2. Compilations(t2)
    BY <1>2 DEF TableOk, Compilations
  <2>3. Rooted(t2)
    <3>1. \A s : Restating(t2, s) = Restating(t, s) /\ Compiled(t2, s) = Compiled(t, s)
      BY <1>2, <1>4 DEF Restating, Compiled
    <3> QED BY <1>2, <3>1 DEF TableOk, Rooted
  <2>4. Clean(t2)
    <3> SUFFICES ASSUME NEW u \in DOMAIN t2.units, u \in t2.forgotten \/ t2.units[u].stem \cap t2.forgotten # {},
                        u \notin gone
                 PROVE  ~t2.units[u].open /\ u \notin t2.vectors
      BY <1>2 DEF Clean
    <3>1. u # x /\ x \notin t.units[u].stem
      BY <1>2 DEF Restating
    <3>2. u \in t.forgotten \/ t.units[u].stem \cap t.forgotten # {}
      BY <1>0, <1>2, <3>1
    <3>3. ~t.units[u].open /\ u \notin t.vectors
      BY <1>2, <3>2 DEF TableOk, Clean
    <3> QED BY <1>2, <3>3
  <2>5. Sourced(t2)
    BY <1>2, <1>4 DEF TableOk, Sourced
  <2> QED BY <1>0, <2>1, <2>2, <2>3, <2>4, <2>5 DEF TableOk
<1>6. Grows(t, t2)
  <2>1. JobsKept(t, t2)
    BY <1>2, SameJobsKept
  <2> QED BY <1>2, <2>1 DEF Grows, SettledJobs
<1>7. RowsForgotten(t, t2)
  BY <1>0, <1>3 DEF RowsForgotten
<1>8. Reinforced(t2, NoSource)
  <2>1. \A u \in DOMAIN t2.units : \E v \in DOMAIN t.units :
          t.units[v].source = t2.units[u].source /\ t2.units[u].reinforced = t.units[v].reinforced
    BY <1>2
  <2>2. DOMAIN t2.episodes \subseteq DOMAIN t.episodes
    BY <1>0
  <2> QED BY <1>0, <1>1, <2>1, <2>2, ReinforcedStays
<1>9. Used(t2) \subseteq Used(t) \cup {new}
  BY <1>0, <1>2, <1>3, <1>4 DEF Used
<1>10. DOMAIN t2.episodes \subseteq DOMAIN t.episodes
  BY <1>0
<1> QED BY <1>0, <1>10, <1>2, <1>5, <1>6, <1>7, <1>8, <1>9 DEF Staged

LEMMA ForgetUnitStaged ==
  ASSUME NEW t, TableOk(t), Reinforced(t, NoSource), NEW u \in Names, NEW new, ForgetUnit(t, u) # Refused
  PROVE  Staged(ForgetUnit(t, u), t, TRUE, NoSource, Used(t) \cup {new})
<1> DEFINE both == t.supersedes \cup {<<e[2], e[1]>> : e \in t.supersedes}
           gone == Lineage(t, u)
           d == Deleted(t, gone)
           t2 == [d EXCEPT !.forgotten = @ \cup {u}]
<1>1. t \in Table /\ u \in DOMAIN t.units /\ ForgetUnit(t, u) = t2
  BY DEF TableOk, ForgetUnit
<1>2. u \in gone
  BY ReachHas DEF Lineage
<1>3. Compiled(t, u) \subseteq {u}
  <2> SUFFICES ASSUME NEW v \in DOMAIN t.units, NEW i \in DOMAIN t.jobs, t.jobs[i].id = v, t.units[v].source = u
               PROVE  v = u
    BY DEF Compiled, JobIds
  <2>1. t.jobs[i].source = u /\ t.jobs[i].compiler = Compiler
    BY DEF TableOk, Compilations
  <2>2. HasHome(t, t.jobs[i].source)
    BY <2>1, NamesAssumption DEF TableOk, Queue
  <2>3. PICK k \in DOMAIN t.jobs : t.jobs[k].id = u /\ t.jobs[k].source = u
    BY <2>1, <2>2 DEF HasHome, IsJob
  <2>4. t.jobs[k].compiler = Compiler
    BY <1>1, <2>3 DEF TableOk, Compilations
  <2>5. i \in SameJob(t, u) /\ k \in SameJob(t, u)
    BY <2>1, <2>3, <2>4 DEF SameJob
  <2>6. i = k
    BY <2>5 DEF TableOk, Queue
  <2> QED BY <2>3, <2>6
<1>4. Restating(t, u) \subseteq gone
  <2>1. Restating(t, u) \subseteq Reach(t.supersedes, Compiled(t, u))
    BY DEF TableOk, Rooted
  <2>2. Reach(t.supersedes, Compiled(t, u)) \subseteq Reach(both, {u})
    BY <1>3, ReachMonotone
  <2> QED BY <2>1, <2>2 DEF Lineage
<1>5. /\ d \in Table /\ d.forgotten = t.forgotten /\ d.episodes = t.episodes
  BY <1>1, DeletedIs
<1> HIDE DEF d
<1>6. /\ t2 \in Table /\ t2.units = d.units /\ t2.vectors = d.vectors /\ t2.episodes = d.episodes
      /\ t2.jobs = d.jobs /\ t2.resources = d.resources /\ t2.compiled = d.compiled
      /\ t2.supersedes = d.supersedes /\ t2.meta = d.meta /\ t2.traces = d.traces /\ t2.reviews = d.reviews
      /\ t2.forgotten = t.forgotten \cup {u}
  BY <1>5 DEF Table
<1>7. u \in Used(t)
  BY <1>1 DEF Used
<1> HIDE DEF t2, gone
<1>8. Forgetting(t, d, t2, u)
  BY <1>5, <1>6 DEF Forgetting
<1>9. Forgetting(t, Deleted(t, gone), t2, u)
  BY <1>8 DEF d
<1>10. Staged(t2, t, TRUE, NoSource, Used(t) \cup {new})
  BY <1>2, <1>4, <1>7, <1>9, ForgetStaged
<1> QED BY <1>1, <1>10

LEMMA ForgetSourceStaged ==
  ASSUME NEW t, TableOk(t), Reinforced(t, NoSource), NEW s \in Names, NEW new, ForgetSource(t, s) # Refused
  PROVE  Staged(ForgetSource(t, s), t, TRUE, NoSource, Used(t) \cup {new})
<1> DEFINE made == {u \in DOMAIN t.units : t.units[u].source = s}
           gone == Descendants(t, s)
           d == Deleted(t, gone)
           left == [e \in DOMAIN t.episodes \ {s} |-> t.episodes[e]]
           t2 == [d EXCEPT !.forgotten = @ \cup {s}, !.episodes = left]
<1>1. t \in Table /\ s \in Rows(t) /\ ForgetSource(t, s) = t2
  BY DEF TableOk, ForgetSource, Rows
<1>2. made \subseteq gone
  <2>1. made \in SUBSET Names
    BY <1>1, TableParts
  <2> QED BY <2>1, ReachHas DEF Descendants
<1>3. s \in DOMAIN t.units => s \in gone
  <2>1. HasHome(t, s)
    BY <1>1 DEF TableOk, Queue
  <2>2. PICK k \in DOMAIN t.jobs : t.jobs[k].id = s /\ t.jobs[k].source = s
    BY <2>1 DEF HasHome, IsJob
  <2>3. s \in DOMAIN t.units => t.units[s].source = s
    BY <2>2 DEF TableOk, Compilations
  <2> QED BY <1>2, <2>3
<1>4. Restating(t, s) \subseteq gone
  <2>1. Restating(t, s) \subseteq Reach(t.supersedes, Compiled(t, s))
    BY DEF TableOk, Rooted
  <2>2. Compiled(t, s) \subseteq made
    BY DEF Compiled
  <2>3. Reach(t.supersedes, Compiled(t, s)) \subseteq Reach(t.supersedes, made)
    BY <2>2, ReachMonotone
  <2> QED BY <2>1, <2>3 DEF Descendants
<1>5. /\ d \in Table /\ d.forgotten = t.forgotten
  BY <1>1, DeletedIs
<1>6. left \in Partial(Names, Nat)
  <2>1. left \in [DOMAIN t.episodes \ {s} -> Nat] /\ DOMAIN t.episodes \ {s} \in SUBSET Names
    BY <1>1, TableParts
  <2> HIDE DEF left
  <2> QED BY <2>1 DEF Partial
<1>7. DOMAIN left = DOMAIN t.episodes \ {s} /\ \A e \in DOMAIN left : left[e] = t.episodes[e]
  OBVIOUS
<1> HIDE DEF d, left, made
<1>8. /\ t2 \in Table /\ t2.units = d.units /\ t2.vectors = d.vectors /\ t2.episodes = left
      /\ t2.jobs = d.jobs /\ t2.resources = d.resources /\ t2.compiled = d.compiled
      /\ t2.supersedes = d.supersedes /\ t2.meta = d.meta /\ t2.traces = d.traces /\ t2.reviews = d.reviews
      /\ t2.forgotten = t.forgotten \cup {s}
  BY <1>5, <1>6 DEF Table
<1>9. s \in Used(t)
  BY <1>1 DEF Used
<1> HIDE DEF t2
<1>10. Staged(t2, t, TRUE, NoSource, Used(t) \cup {new})
  <2> HIDE DEF gone
  <2>1. Forgetting(t, d, t2, s)
    BY <1>7, <1>8 DEF Forgetting
  <2>2. Forgetting(t, Deleted(t, gone), t2, s)
    BY <2>1 DEF d
  <2> QED BY <1>3, <1>4, <1>9, <2>2, ForgetStaged
<1> QED BY <1>1, <1>10

-----------------------------------------------------------------------------
(***************************************************************************)
(* Steps on the live tables that name no new row.                          *)
(***************************************************************************)
Quiet(t, t2) ==
  /\ TableOk(t2) /\ Grows(t, t2) /\ RowsKept(t, t2) /\ Reinforced(t2, NoSource) /\ Used(t2) \subseteq Used(t)
  /\ DOMAIN t2.episodes \subseteq DOMAIN t.episodes
  /\ \A e \in DOMAIN t2.episodes : t2.episodes[e] = t.episodes[e]

LEMMA UsedNames ==
  ASSUME NEW t, TableOk(t)
  PROVE  Used(t) \subseteq Names
<1>1. t \in Table
  BY DEF TableOk
<1>2. JobIds(t) \subseteq Names
  BY <1>1, TableParts DEF JobIds, Job
<1> QED BY <1>1, <1>2, TableParts DEF Used, Rows

LEMMA StagedQuiet ==
  ASSUME NEW t, NEW t2, Staged(t2, t, FALSE, NoSource, Used(t) \cup {NoSource})
  PROVE  Quiet(t, t2)
<1>1. TableOk(t2) /\ Used(t2) \subseteq Used(t) \cup {NoSource}
  BY DEF Staged
<1>2. NoSource \notin Used(t2)
  BY <1>1, UsedNames, NamesAssumption
<1> QED BY <1>1, <1>2 DEF Staged, Quiet

LEMMA QuietSelf ==
  ASSUME NEW t, TableOk(t), Reinforced(t, NoSource)
  PROVE  Quiet(t, t)
BY StagedSelf, StagedQuiet

LEMMA PromotedQuiet ==
  ASSUME NEW t, TableOk(t), Reinforced(t, NoSource), NEW promoted, Promoted(t, promoted) # Refused
  PROVE  Quiet(t, Promoted(t, promoted))
BY PromotedStaged, StagedQuiet

LEMMA TracesQuiet ==
  ASSUME NEW t, TableOk(t), Reinforced(t, NoSource), NEW r \in Names, NEW plan \in SUBSET Names
  PROVE  Quiet(t, [t EXCEPT !.traces = Extend(t.traces, r, plan)])
<1> DEFINE g == Extend(t.traces, r, plan)
           t2 == [t EXCEPT !.traces = g]
<1>1. t \in Table /\ t.traces \in Partial(Names, SUBSET Names)
  BY TableParts DEF TableOk
<1>2. g \in Partial(Names, SUBSET Names) /\ DOMAIN t.traces \subseteq DOMAIN g
  <2>1. DOMAIN t.traces \subseteq Names /\ \A x \in DOMAIN t.traces : t.traces[x] \in SUBSET Names
    BY <1>1, PartialHas
  <2>2. g \in [DOMAIN t.traces \cup {r} -> SUBSET Names] /\ DOMAIN t.traces \cup {r} \in SUBSET Names
    BY <2>1 DEF Extend
  <2> HIDE DEF g
  <2> QED BY <2>2 DEF Partial
<1> HIDE DEF g
<1>3. /\ t2 \in Table /\ t2.units = t.units /\ t2.vectors = t.vectors /\ t2.supersedes = t.supersedes
      /\ t2.compiled = t.compiled /\ t2.jobs = t.jobs /\ t2.episodes = t.episodes
      /\ t2.resources = t.resources /\ t2.forgotten = t.forgotten /\ t2.meta = t.meta
      /\ t2.traces = g /\ t2.reviews = t.reviews
  BY <1>1, <1>2 DEF Table
<1> HIDE DEF t2
<1>4. Keeps(t, t2) /\ Leaves(t, t2)
  BY <1>2, <1>3 DEF Keeps, Leaves, SettledJobs
<1>5. AsBefore(t, t2, NoSource)
  BY <1>3 DEF AsBefore
<1>6. Staged(t2, t, FALSE, NoSource, Used(t) \cup {NoSource})
  BY <1>3, <1>4, <1>5, StagedByUnits
<1>7. Quiet(t, t2)
  BY <1>6, StagedQuiet
<1> QED BY <1>7 DEF t2, g

\* A step on the queue and on what is known of its jobs.
SameRows(t, t2) ==
  /\ t2 \in Table /\ t2.units = t.units /\ t2.vectors = t.vectors /\ t2.supersedes = t.supersedes
  /\ t2.compiled = t.compiled /\ t2.episodes = t.episodes /\ t2.resources = t.resources
  /\ t2.forgotten = t.forgotten /\ t2.traces = t.traces /\ t2.reviews = t.reviews

LEMMA QueueQuiet ==
  ASSUME NEW t, TableOk(t), Reinforced(t, NoSource), NEW t2, SameRows(t, t2), Queue(t2), Compilations(t2),
         JobIds(t2) = JobIds(t), JobsKept(t, t2), SettledJobs(t) \subseteq SettledJobs(t2)
  PROVE  Quiet(t, t2)
<1>1. Rooted(t2) /\ Clean(t2) /\ Sourced(t2)
  <2>1. \A s : Restating(t2, s) = Restating(t, s) /\ Compiled(t2, s) = Compiled(t, s)
    BY DEF Restating, Compiled, SameRows
  <2>2. Rooted(t2)
    BY <2>1 DEF Rooted, TableOk, SameRows
  <2> QED BY <2>2 DEF Clean, Sourced, TableOk, SameRows
<1>2. TableOk(t2)
  BY <1>1 DEF TableOk, SameRows
<1>3. Grows(t, t2) /\ RowsKept(t, t2)
  BY DEF Grows, RowsKept, Rows, SameRows
<1>4. Reinforced(t2, NoSource)
  BY DEF Reinforced, SameRows
<1>5. Used(t2) = Used(t)
  BY DEF Used, Rows, SameRows
<1> QED BY <1>2, <1>3, <1>4, <1>5 DEF Quiet, SameRows

LEMMA MetaQuiet ==
  ASSUME NEW t, TableOk(t), Reinforced(t, NoSource), NEW meta \in Partial(Names, JobMeta),
         \A j \in SettledJobs(t) : j \in DOMAIN meta /\ (meta[j].completed \/ meta[j].terminal)
  PROVE  Quiet(t, [t EXCEPT !.meta = meta])
<1> DEFINE t2 == [t EXCEPT !.meta = meta]
<1>1. SameRows(t, t2) /\ t2.jobs = t.jobs /\ t2.meta = meta
  BY DEF SameRows, Table, TableOk
<1> HIDE DEF t2
<1>2. Queue(t2) /\ JobIds(t2) = JobIds(t) /\ JobsKept(t, t2)
  <2>1. Rows(t2) = Rows(t)
    BY <1>1 DEF Rows, SameRows
  <2>2. Queue(t)
    BY DEF TableOk
  <2> QED BY <1>1, <2>1, <2>2, QueueStays, SameQueue, SameJobsKept
<1>3. Compilations(t2)
  BY <1>1 DEF Compilations, TableOk, SameRows
<1>4. SettledJobs(t) \subseteq SettledJobs(t2)
  BY <1>1 DEF SettledJobs
<1>5. Quiet(t, t2)
  BY <1>1, <1>2, <1>3, <1>4, QueueQuiet
<1> QED BY <1>5 DEF t2

\* The job of a current claim is in the queue and is not settled.
LEMMA CurrentJob ==
  ASSUME NEW t, TableOk(t), NEW claim, ClaimIsCurrent(t, claim)
  PROVE  /\ claim.job \in Job /\ claim.job.id \notin SettledJobs(t)
         /\ \E i \in DOMAIN t.jobs : t.jobs[i] = claim.job
         /\ \A i \in DOMAIN t.jobs : t.jobs[i].id = claim.job.id => t.jobs[i] = claim.job
<1>1. PICK i \in DOMAIN t.jobs : t.jobs[i] = claim.job
  BY DEF ClaimIsCurrent
<1>2. t.jobs[i] \in Job
  BY TableParts DEF TableOk
<1>3. ~MetaOf(t, claim.job.id).completed /\ ~MetaOf(t, claim.job.id).terminal
  BY DEF ClaimIsCurrent
<1>4. claim.job.id \notin SettledJobs(t)
  BY <1>3 DEF SettledJobs, MetaOf
<1>5. \A k \in DOMAIN t.jobs : t.jobs[k].id = claim.job.id => k = i
  BY <1>1 DEF TableOk, Queue
<1> QED BY <1>1, <1>2, <1>4, <1>5

LEMMA SetMetaIs ==
  ASSUME NEW t, TableOk(t), NEW j \in Names, NEW m \in JobMeta, j \notin SettledJobs(t)
  PROVE  /\ Extend(t.meta, j, m) \in Partial(Names, JobMeta)
         /\ SetMeta(t, j, m) = [t EXCEPT !.meta = Extend(t.meta, j, m)]
         /\ \A k \in SettledJobs(t) :
              k \in DOMAIN Extend(t.meta, j, m) /\ (Extend(t.meta, j, m)[k].completed \/ Extend(t.meta, j, m)[k].terminal)
<1> DEFINE g == Extend(t.meta, j, m)
<1>1. t.meta \in Partial(Names, JobMeta)
  BY TableParts DEF TableOk
<1>2. /\ g \in Partial(Names, JobMeta) /\ DOMAIN g = DOMAIN t.meta \cup {j}
      /\ \A k \in DOMAIN t.meta : k # j => g[k] = t.meta[k]
  BY <1>1, ExtendMeta
<1>3. SetMeta(t, j, m) = [t EXCEPT !.meta = g]
  BY DEF SetMeta
<1> HIDE DEF g
<1>4. \A k \in SettledJobs(t) : k \in DOMAIN g /\ (g[k].completed \/ g[k].terminal)
  BY <1>2 DEF SettledJobs
<1> QED BY <1>2, <1>3, <1>4 DEF g

LEMMA SetMetaQuiet ==
  ASSUME NEW t, TableOk(t), Reinforced(t, NoSource), NEW claim, ClaimIsCurrent(t, claim), NEW m \in JobMeta
  PROVE  Quiet(t, SetMeta(t, claim.job.id, m))
<1> DEFINE j == claim.job.id
<1>1. j \in Names /\ j \notin SettledJobs(t)
  BY CurrentJob DEF Job
<1> HIDE DEF j
<1> DEFINE g == Extend(t.meta, j, m)
<1>2. /\ g \in Partial(Names, JobMeta) /\ SetMeta(t, j, m) = [t EXCEPT !.meta = g]
      /\ \A k \in SettledJobs(t) : k \in DOMAIN g /\ (g[k].completed \/ g[k].terminal)
  BY <1>1, SetMetaIs
<1> HIDE DEF g
<1>3. Quiet(t, [t EXCEPT !.meta = g])
  BY <1>2, MetaQuiet
<1> QED BY <1>2, <1>3 DEF j

LEMMA ClaimSettledQuiet ==
  ASSUME NEW t, TableOk(t), Reinforced(t, NoSource), NEW claim
  PROVE  Quiet(t, Completed(t, claim)) /\ Quiet(t, Released(t, claim)) /\ Quiet(t, Failed(t, claim))
<1> DEFINE m == MetaOf(t, claim.job.id)
<1>1. m \in JobMeta
  BY MetaType DEF TableOk
<1>2. /\ [m EXCEPT !.completed = TRUE, !.claimed = FALSE] \in JobMeta
      /\ [m EXCEPT !.claimed = FALSE] \in JobMeta
      /\ [m EXCEPT !.claimed = FALSE, !.terminal = TRUE] \in JobMeta
  BY <1>1 DEF JobMeta
<1>3. CASE ClaimIsCurrent(t, claim)
  <2>1. /\ Quiet(t, SetMeta(t, claim.job.id, [m EXCEPT !.completed = TRUE, !.claimed = FALSE]))
        /\ Quiet(t, SetMeta(t, claim.job.id, [m EXCEPT !.claimed = FALSE]))
        /\ Quiet(t, SetMeta(t, claim.job.id, [m EXCEPT !.claimed = FALSE, !.terminal = TRUE]))
    <3> HIDE DEF m
    <3> QED BY <1>2, <1>3, SetMetaQuiet
  <2> QED BY <1>3, <2>1 DEF Completed, Released, Failed
<1>4. CASE ~ClaimIsCurrent(t, claim)
  BY <1>4, QuietSelf DEF Completed, Released, Failed
<1> QED BY <1>3, <1>4

LEMMA ClaimedQuiet ==
  ASSUME NEW t, TableOk(t), Reinforced(t, NoSource), NEW ids \in SUBSET Names
  PROVE  Quiet(t, Claimed(t, ids))
<1> DEFINE next(j) == [MetaOf(t, j) EXCEPT !.claimed = TRUE, !.attempts = MetaOf(t, j).attempts + 1]
           g == [j \in DOMAIN t.meta \cup ids |-> IF j \in ids THEN next(j) ELSE t.meta[j]]
<1>1. t \in Table /\ DOMAIN t.meta \subseteq Names /\ \A j \in DOMAIN t.meta : t.meta[j] \in JobMeta
  BY TableParts DEF TableOk
<1>2. \A j : /\ next(j) \in JobMeta
             /\ MetaOf(t, j).completed \/ MetaOf(t, j).terminal => next(j).completed \/ next(j).terminal
  <2>1. ASSUME NEW m \in JobMeta
        PROVE  LET n == [m EXCEPT !.claimed = TRUE, !.attempts = m.attempts + 1]
               IN  n \in JobMeta /\ (m.completed \/ m.terminal => n.completed \/ n.terminal)
    <3> DEFINE n == [m EXCEPT !.claimed = TRUE, !.attempts = m.attempts + 1]
    <3>1. m.attempts \in Nat /\ m.attempts + 1 \in Nat
      BY DEF JobMeta
    <3>2. n \in JobMeta
      BY <3>1 DEF JobMeta
    <3>3. n.completed = m.completed /\ n.terminal = m.terminal
      BY DEF JobMeta
    <3> QED BY <3>2, <3>3, Zenon
  <2>2. \A j : MetaOf(t, j) \in JobMeta
    BY <1>1, MetaType
  <2> QED BY <2>1, <2>2, Zenon
<1> HIDE DEF next
<1>3. g \in Partial(Names, JobMeta)
  <2>1. g \in [DOMAIN t.meta \cup ids -> JobMeta] /\ DOMAIN t.meta \cup ids \in SUBSET Names
    BY <1>1, <1>2
  <2> HIDE DEF g
  <2> QED BY <2>1 DEF Partial
<1>4. \A j \in SettledJobs(t) : j \in DOMAIN g /\ (g[j].completed \/ g[j].terminal)
  BY <1>2 DEF SettledJobs, MetaOf
<1>5. Claimed(t, ids) = [t EXCEPT !.meta = g]
  BY DEF Claimed, next
<1> HIDE DEF g
<1> QED BY <1>3, <1>4, <1>5, MetaQuiet

\* Two jobs of the queue change places.
LEMMA SwapQueue ==
  ASSUME NEW t, TableOk(t), NEW a \in DOMAIN t.jobs, NEW b \in DOMAIN t.jobs, a # b,
         NEW t2, SameRows(t, t2), t2.jobs = [t.jobs EXCEPT ![a] = t.jobs[b], ![b] = t.jobs[a]]
  PROVE  Queue(t2) /\ Compilations(t2) /\ JobIds(t2) = JobIds(t) /\ JobsKept(t, t2)
<1> DEFINE at(i) == IF i = a THEN b ELSE IF i = b THEN a ELSE i
<1>1. DOMAIN t2.jobs = DOMAIN t.jobs /\ \A i \in DOMAIN t.jobs : t2.jobs[i] = t.jobs[at(i)]
  OBVIOUS
<1>2. \A i \in DOMAIN t.jobs : at(i) \in DOMAIN t.jobs /\ at(at(i)) = i
  OBVIOUS
<1>3. \A i, k \in DOMAIN t.jobs : at(i) = at(k) => i = k
  OBVIOUS
<1> HIDE DEF at
<1>4. \A i \in DOMAIN t.jobs : \E k \in DOMAIN t2.jobs : t2.jobs[k] = t.jobs[i]
  <2> TAKE i \in DOMAIN t.jobs
  <2>1. at(i) \in DOMAIN t2.jobs /\ t2.jobs[at(i)] = t.jobs[i]
    BY <1>1, <1>2
  <2> QED BY <2>1
<1>5. \A k \in DOMAIN t2.jobs : \E i \in DOMAIN t.jobs : t2.jobs[k] = t.jobs[i]
  BY <1>1, <1>2
<1>6. JobIds(t2) = JobIds(t)
  <2>1. ASSUME NEW i \in DOMAIN t.jobs
        PROVE  t.jobs[i].id \in JobIds(t2)
    <3>1. PICK k \in DOMAIN t2.jobs : t2.jobs[k] = t.jobs[i]
      BY <1>4
    <3>2. t2.jobs[k].id \in JobIds(t2)
      BY DEF JobIds
    <3> QED BY <3>1, <3>2
  <2>2. ASSUME NEW k \in DOMAIN t2.jobs
        PROVE  t2.jobs[k].id \in JobIds(t)
    <3>1. PICK i \in DOMAIN t.jobs : t2.jobs[k] = t.jobs[i]
      BY <1>5
    <3>2. t.jobs[i].id \in JobIds(t)
      BY DEF JobIds
    <3> QED BY <3>1, <3>2
  <2>3. JobIds(t) \subseteq JobIds(t2)
    BY <2>1 DEF JobIds
  <2>4. JobIds(t2) \subseteq JobIds(t)
    BY <2>2 DEF JobIds
  <2> QED BY <2>3, <2>4
<1>7. \A s : HasHome(t, s) => HasHome(t2, s)
  BY <1>4 DEF HasHome, IsJob
<1>8. Queue(t2)
  <2>1. \A i, k \in DOMAIN t2.jobs : t2.jobs[i].id = t2.jobs[k].id => i = k
    BY <1>1, <1>2, <1>3 DEF TableOk, Queue
  <2>2. ASSUME NEW s \in Names, NEW i \in SameJob(t2, s), NEW k \in SameJob(t2, s)
        PROVE  i = k
    <3>1. i \in DOMAIN t.jobs /\ k \in DOMAIN t.jobs /\ at(i) \in SameJob(t, s) /\ at(k) \in SameJob(t, s)
      BY <1>1, <1>2 DEF SameJob
    <3>2. at(i) = at(k)
      BY <3>1 DEF TableOk, Queue
    <3> QED BY <1>3, <3>1, <3>2
  <2>3. \A k \in DOMAIN t2.jobs : t2.jobs[k].source # NoSource => HasHome(t2, t2.jobs[k].source)
    BY <1>5, <1>7 DEF TableOk, Queue
  <2>4. \A s \in Rows(t2) : HasHome(t2, s)
    BY <1>7 DEF TableOk, Queue, Rows, SameRows
  <2> QED BY <2>1, <2>2, <2>3, <2>4 DEF Queue
<1>9. Compilations(t2)
  <2>1. t2.units = t.units /\ t2.compiled = t.compiled /\ Compilations(t)
    BY DEF SameRows, TableOk
  <2> SUFFICES ASSUME NEW k \in DOMAIN t2.jobs, t2.jobs[k].id \in DOMAIN t2.units
               PROVE  /\ t2.units[t2.jobs[k].id].source = t2.jobs[k].source /\ t2.jobs[k].compiler = Compiler
                      /\ t2.jobs[k].id \in t2.compiled
    BY DEF Compilations
  <2>2. PICK i \in DOMAIN t.jobs : t2.jobs[k] = t.jobs[i]
    BY <1>5
  <2> QED BY <2>1, <2>2 DEF Compilations
<1>10. JobsKept(t, t2)
  BY <1>4 DEF JobsKept
<1> QED BY <1>6, <1>8, <1>9, <1>10

\* A job takes the identity of this build, of which no other job of its source is.
LEMMA UpgradeQueue ==
  ASSUME NEW t, TableOk(t), NEW a \in DOMAIN t.jobs,
         \A i \in SameJob(t, t.jobs[a].source) : t.jobs[i].id = t.jobs[a].id,
         NEW t2, SameRows(t, t2), t2.jobs = [t.jobs EXCEPT ![a].compiler = Compiler]
  PROVE  Queue(t2) /\ Compilations(t2) /\ JobIds(t2) = JobIds(t) /\ JobsKept(t, t2)
<1>1. t.jobs[a] \in Job
  BY TableParts DEF TableOk
<1>2. /\ DOMAIN t2.jobs = DOMAIN t.jobs
      /\ \A i \in DOMAIN t.jobs :
           /\ t2.jobs[i].id = t.jobs[i].id /\ t2.jobs[i].source = t.jobs[i].source
           /\ t2.jobs[i].compiler = IF i = a THEN Compiler ELSE t.jobs[i].compiler
  BY <1>1 DEF Job
<1>3. JobIds(t2) = JobIds(t)
  BY <1>2 DEF JobIds
<1>4. \A s : HasHome(t, s) => HasHome(t2, s)
  BY <1>2 DEF HasHome, IsJob
<1>5. Queue(t2)
  <2>1. \A i, k \in DOMAIN t2.jobs : t2.jobs[i].id = t2.jobs[k].id => i = k
    BY <1>2 DEF TableOk, Queue
  <2>2. ASSUME NEW s \in Names, NEW i \in SameJob(t2, s), NEW k \in SameJob(t2, s)
        PROVE  i = k
    <3>1. CASE s = t.jobs[a].source
      <4>1. \A n \in SameJob(t2, s) : n \in DOMAIN t.jobs /\ t.jobs[n].id = t.jobs[a].id
        BY <1>2, <3>1 DEF SameJob
      <4> QED BY <4>1 DEF TableOk, Queue
    <3>2. CASE s # t.jobs[a].source
      <4>1. i \in SameJob(t, s) /\ k \in SameJob(t, s)
        BY <1>2, <3>2 DEF SameJob
      <4> QED BY <4>1 DEF TableOk, Queue
    <3> QED BY <3>1, <3>2
  <2>3. \A k \in DOMAIN t2.jobs : t2.jobs[k].source # NoSource => HasHome(t2, t2.jobs[k].source)
    BY <1>2, <1>4 DEF TableOk, Queue
  <2>4. \A s \in Rows(t2) : HasHome(t2, s)
    BY <1>4 DEF TableOk, Queue, Rows, SameRows
  <2> QED BY <2>1, <2>2, <2>3, <2>4 DEF Queue
<1>6. Compilations(t2)
  BY <1>2 DEF TableOk, Compilations, SameRows
<1>7. JobsKept(t, t2)
  BY <1>2 DEF JobsKept
<1> QED BY <1>3, <1>5, <1>6, <1>7

LEMMA RequeuedQuiet ==
  ASSUME NEW t, TableOk(t), Reinforced(t, NoSource), NEW claim
  PROVE  Quiet(t, Requeued(t, claim))
<1> DEFINE j == claim.job.id
           at == CHOOSE i \in DOMAIN t.jobs : t.jobs[i].id = j
           twins == {i \in SameJob(t, claim.job.source) : t.jobs[i].id # j}
           twin == CHOOSE i \in twins : TRUE
           m == MetaOf(t, j)
           given == [m EXCEPT !.claimed = FALSE, !.terminal = TRUE, !.generation = m.generation + 1]
           anew == [NewMeta EXCEPT !.generation = m.generation + 1]
           swapped == [t.jobs EXCEPT ![at] = t.jobs[twin], ![twin] = t.jobs[at]]
           upgraded == [t.jobs EXCEPT ![at].compiler = Compiler]
<1>1. CASE ~ClaimIsCurrent(t, claim)
  BY <1>1, QuietSelf DEF Requeued
<1>2. CASE ClaimIsCurrent(t, claim)
  <2>1. j \in Names /\ j \notin SettledJobs(t)
    BY <1>2, CurrentJob DEF Job
  <2>2. at \in DOMAIN t.jobs /\ t.jobs[at] = claim.job
    BY <1>2, CurrentJob
  <2>3. m \in JobMeta
    BY MetaType DEF TableOk
  <2>4. given \in JobMeta /\ anew \in JobMeta
    <3> HIDE DEF m
    <3>1. m.generation \in Nat /\ m.generation + 1 \in Nat
      BY <2>3 DEF JobMeta
    <3> QED BY <2>3, <3>1 DEF JobMeta, NewMeta
  <2>5. t \in Table /\ \A i \in DOMAIN t.jobs : t.jobs[i] \in Job
    BY TableParts DEF TableOk
  <2>6. t.jobs \in Seq(Job)
    BY <2>5, TableParts
  <2>7. CASE twins # {}
    <3>1. twin \in DOMAIN t.jobs /\ twin # at
      <4>1. twin \in twins
        BY <2>7
      <4> QED BY <2>2, <4>1 DEF SameJob
    <3> HIDE DEF twin, at
    <3>2. swapped \in Seq(Job)
      BY <2>2, <2>5, <2>6, <3>1
    <3> DEFINE g == Extend(t.meta, j, given)
               t2 == [t EXCEPT !.meta = g, !.jobs = swapped]
    <3>3. Requeued(t, claim) = t2
      BY <1>2, <2>7 DEF Requeued, SetMeta, at, twin
    <3>4. /\ g \in Partial(Names, JobMeta)
          /\ \A k \in SettledJobs(t) : k \in DOMAIN g /\ (g[k].completed \/ g[k].terminal)
      <4> HIDE DEF j, given
      <4> QED BY <2>1, <2>4, SetMetaIs
    <3> HIDE DEF g, j
    <3>5. SameRows(t, t2) /\ t2.jobs = swapped /\ t2.meta = g
      <4> HIDE DEF swapped
      <4> QED BY <2>5, <3>2, <3>4 DEF SameRows, Table
    <3> HIDE DEF t2
    <3>6. Queue(t2) /\ Compilations(t2) /\ JobIds(t2) = JobIds(t) /\ JobsKept(t, t2)
      BY <2>2, <3>1, <3>5, SwapQueue
    <3>7. SettledJobs(t) \subseteq SettledJobs(t2)
      BY <3>4, <3>5 DEF SettledJobs
    <3> QED BY <3>3, <3>5, <3>6, <3>7, QueueQuiet
  <2>8. CASE twins = {}
    <3> HIDE DEF at
    <3>1. upgraded \in Seq(Job)
      <4>1. [t.jobs[at] EXCEPT !.compiler = Compiler] \in Job
        BY <2>2, <2>5 DEF Job
      <4> QED BY <2>2, <2>5, <2>6, <4>1
    <3> DEFINE g == Extend(t.meta, j, anew)
               t2 == [t EXCEPT !.meta = g, !.jobs = upgraded]
    <3>2. Requeued(t, claim) = t2
      BY <1>2, <2>8 DEF Requeued, SetMeta, at
    <3>3. /\ g \in Partial(Names, JobMeta)
          /\ \A k \in SettledJobs(t) : k \in DOMAIN g /\ (g[k].completed \/ g[k].terminal)
      <4> HIDE DEF j, anew
      <4> QED BY <2>1, <2>4, SetMetaIs
    <3>4. \A i \in SameJob(t, t.jobs[at].source) : t.jobs[i].id = t.jobs[at].id
      BY <2>2, <2>8
    <3> HIDE DEF g, j
    <3>5. SameRows(t, t2) /\ t2.jobs = upgraded /\ t2.meta = g
      <4> HIDE DEF upgraded
      <4> QED BY <2>5, <3>1, <3>3 DEF SameRows, Table
    <3> HIDE DEF t2
    <3>6. Queue(t2) /\ Compilations(t2) /\ JobIds(t2) = JobIds(t) /\ JobsKept(t, t2)
      BY <2>2, <3>4, <3>5, UpgradeQueue
    <3>7. SettledJobs(t) \subseteq SettledJobs(t2)
      BY <3>3, <3>5 DEF SettledJobs
    <3> QED BY <3>2, <3>5, <3>6, <3>7, QueueQuiet
  <2> QED BY <2>7, <2>8
<1> QED BY <1>1, <1>2

-----------------------------------------------------------------------------
(***************************************************************************)
(* What a commit adds to the tables.                                       *)
(***************************************************************************)
SameUnits(t, t2) ==
  /\ t2 \in Table /\ t2.units = t.units /\ t2.vectors = t.vectors /\ t2.supersedes = t.supersedes
  /\ t2.compiled = t.compiled /\ t2.forgotten = t.forgotten

LEMMA UnitsSame ==
  ASSUME NEW t, TableOk(t), NEW t2, SameUnits(t, t2), Queue(t2), Compilations(t2),
         JobIds(t) \subseteq JobIds(t2), DOMAIN t.units \cap JobIds(t2) \subseteq JobIds(t)
  PROVE  TableOk(t2)
<1>1. \A s : Restating(t2, s) = Restating(t, s) /\ Compiled(t2, s) = Compiled(t, s)
  BY DEF Restating, Compiled, SameUnits
<1>2. Rooted(t2)
  BY <1>1 DEF Rooted, TableOk, SameUnits
<1>3. Clean(t2)
  BY DEF Clean, TableOk, SameUnits
<1>4. Sourced(t2)
  BY DEF Sourced, TableOk, SameUnits
<1> QED BY <1>2, <1>3, <1>4 DEF TableOk, SameUnits

\* A job is queued: for the row of its name, for the scope, or for a source that has
\* no job of this build.
LEMMA AppendQueue ==
  ASSUME NEW t, TableOk(t), NEW r \in Names, r \notin Used(t), NEW s \in Names \cup {NoSource},
         \/ s \in {r, NoSource}
         \/ SameJob(t, s) = {} /\ HasHome(t, s),
         NEW t2, SameUnits(t, t2),
         t2.jobs = Append(t.jobs, [id |-> r, source |-> s, compiler |-> Compiler]),
         Rows(t2) \subseteq Rows(t) \cup (IF s = r THEN {r} ELSE {})
  PROVE  TableOk(t2) /\ JobsKept(t, t2) /\ JobIds(t2) = JobIds(t) \cup {r}
<1> DEFINE n == Len(t.jobs) + 1
           new == [id |-> r, source |-> s, compiler |-> Compiler]
<1>1. t \in Table /\ t.jobs \in Seq(Job) /\ Len(t.jobs) \in Nat /\ DOMAIN t.jobs = 1..Len(t.jobs)
  BY TableParts DEF TableOk
<1>2. /\ DOMAIN t2.jobs = DOMAIN t.jobs \cup {n} /\ n \notin DOMAIN t.jobs
      /\ t2.jobs[n] = new /\ \A i \in DOMAIN t.jobs : t2.jobs[i] = t.jobs[i]
  BY <1>1
<1>3. new.id = r /\ new.source = s /\ new.compiler = Compiler
  OBVIOUS
<1> HIDE DEF n, new
<1>4. JobIds(t2) = JobIds(t) \cup {r}
  BY <1>2, <1>3 DEF JobIds
<1>5. \A i \in DOMAIN t.jobs : t.jobs[i].id # r
  BY DEF Used, JobIds
<1>6. \A x : HasHome(t, x) => HasHome(t2, x)
  BY <1>2 DEF HasHome, IsJob
<1>7. s = r => HasHome(t2, r)
  BY <1>2, <1>3 DEF HasHome, IsJob
<1>8. s # NoSource => SameJob(t, s) = {}
  <2> SUFFICES ASSUME s = r, s # NoSource, NEW i \in SameJob(t, r)
               PROVE  FALSE
    OBVIOUS
  <2>1. i \in DOMAIN t.jobs /\ t.jobs[i].source = r
    BY DEF SameJob
  <2>2. HasHome(t, r)
    BY <2>1 DEF TableOk, Queue
  <2> QED BY <1>5, <2>2 DEF HasHome, IsJob
<1>9. Queue(t2)
  <2>1. \A i, k \in DOMAIN t2.jobs : t2.jobs[i].id = t2.jobs[k].id => i = k
    BY <1>2, <1>3, <1>5 DEF TableOk, Queue
  <2>2. ASSUME NEW x \in Names, NEW i \in SameJob(t2, x), NEW k \in SameJob(t2, x)
        PROVE  i = k
    <3>1. CASE x = s
      <4>1. \A a \in SameJob(t2, x) : a = n
        BY <1>2, <1>8, <3>1, NamesAssumption DEF SameJob
      <4> QED BY <4>1
    <3>2. CASE x # s
      <4>1. i \in SameJob(t, x) /\ k \in SameJob(t, x)
        BY <1>2, <1>3, <3>2 DEF SameJob
      <4> QED BY <4>1 DEF TableOk, Queue
    <3> QED BY <3>1, <3>2
  <2>3. \A k \in DOMAIN t2.jobs : t2.jobs[k].source # NoSource => HasHome(t2, t2.jobs[k].source)
    BY <1>2, <1>3, <1>6, <1>7 DEF TableOk, Queue
  <2>4. \A x \in Rows(t2) : HasHome(t2, x)
    BY <1>6, <1>7 DEF TableOk, Queue
  <2> QED BY <2>1, <2>2, <2>3, <2>4 DEF Queue
<1>10. r \notin DOMAIN t.units
  BY DEF Used
<1>11. Compilations(t2)
  BY <1>2, <1>3, <1>10 DEF TableOk, Compilations, SameUnits
<1>12. TableOk(t2)
  BY <1>4, <1>9, <1>10, <1>11, UnitsSame
<1>13. JobsKept(t, t2)
  BY <1>2 DEF JobsKept
<1> QED BY <1>4, <1>12, <1>13

\* What a commit makes of the live tables.
Result(t2, t, r, target, forgets, names) ==
  /\ TableOk(t2) /\ Reinforced(t2, NoSource) /\ Grows(t, t2)
  /\ IF forgets THEN RowsForgotten(t, t2) ELSE RowsKept(t, t2)
  /\ Used(t2) \subseteq names
  /\ \A e \in DOMAIN t2.episodes :
       \/ e \in DOMAIN t.episodes /\ t2.episodes[e] = t.episodes[e] + (IF e = target THEN 1 ELSE 0)
       \/ e = r /\ target = r /\ t2.episodes[e] = 1

LEMMA StagedResult ==
  ASSUME NEW t, NEW t2, NEW r, NEW names, NEW forgets \in BOOLEAN, t \in Table,
         Staged(t2, t, forgets, NoSource, names)
  PROVE  Result(t2, t, r, NoSource, forgets, names)
<1>1. \A e \in DOMAIN t.episodes : t.episodes[e] \in Nat /\ e # NoSource
  BY TableParts, NamesAssumption
<1>2. \A e \in DOMAIN t2.episodes : e \in DOMAIN t.episodes /\ t2.episodes[e] = t.episodes[e] + 0
  BY <1>1 DEF Staged
<1>3. \A e \in DOMAIN t2.episodes :
        e \in DOMAIN t.episodes /\ t2.episodes[e] = t.episodes[e] + (IF e = NoSource THEN 1 ELSE 0)
  BY <1>1, <1>2
<1>4. /\ TableOk(t2) /\ Reinforced(t2, NoSource) /\ Grows(t, t2)
      /\ IF forgets THEN RowsForgotten(t, t2) ELSE RowsKept(t, t2)
      /\ Used(t2) \subseteq names
  BY DEF Staged
<1> QED BY <1>3, <1>4 DEF Result

\* A new episode or resource, with its job.
LEMMA AddedResult ==
  ASSUME NEW t, TableOk(t), Reinforced(t, NoSource), NEW r \in Names, r \notin Used(t), NEW names,
         Used(t) \cup {r} \subseteq names, NEW target, NEW t2, SameUnits(t, t2),
         t2.meta = t.meta, t2.traces = t.traces, t2.reviews = t.reviews,
         NEW s \in {r, NoSource},
         t2.jobs = Append(t.jobs, [id |-> r, source |-> s, compiler |-> Compiler]),
         \/ /\ target = r /\ s = r /\ t2.resources = t.resources
            /\ DOMAIN t2.episodes = DOMAIN t.episodes \cup {r} /\ t2.episodes[r] = 1
            /\ \A e \in DOMAIN t.episodes : t2.episodes[e] = t.episodes[e]
         \/ /\ target = NoSource /\ t2.episodes = t.episodes
            /\ t2.resources \in {t.resources, t.resources \cup (IF s = r THEN {r} ELSE {})}
  PROVE  Result(t2, t, r, target, FALSE, names)
<1>1. t \in Table /\ r \notin JobIds(t) /\ r \notin Rows(t) /\ r # NoSource
  BY NamesAssumption DEF TableOk, Used
<1>2. /\ \A e \in DOMAIN t.episodes : t.episodes[e] \in Nat /\ e # NoSource /\ e # r
  BY <1>1, TableParts, NamesAssumption DEF Rows
<1>3. Rows(t2) \subseteq Rows(t) \cup (IF s = r THEN {r} ELSE {}) /\ Rows(t) \subseteq Rows(t2)
  BY DEF Rows
<1>4. TableOk(t2) /\ JobsKept(t, t2) /\ JobIds(t2) = JobIds(t) \cup {r}
  BY <1>3, AppendQueue
<1>5. Grows(t, t2) /\ RowsKept(t, t2)
  BY <1>3, <1>4 DEF Grows, RowsKept, SameUnits, SettledJobs
<1>6. Used(t2) \subseteq names
  BY <1>3, <1>4 DEF Used, SameUnits
<1>7. \A e \in DOMAIN t2.episodes :
       \/ e \in DOMAIN t.episodes /\ t2.episodes[e] = t.episodes[e] + (IF e = target THEN 1 ELSE 0)
       \/ e = r /\ target = r /\ t2.episodes[e] = 1
  <2>1. ASSUME NEW e \in DOMAIN t2.episodes, e # r \/ target # r
        PROVE  e \in DOMAIN t.episodes /\ t2.episodes[e] = t.episodes[e] + (IF e = target THEN 1 ELSE 0)
    <3>1. e \in DOMAIN t.episodes /\ t2.episodes[e] = t.episodes[e] /\ e # target
      BY <1>2, <2>1
    <3> QED BY <1>2, <3>1
  <2>2. ASSUME NEW e \in DOMAIN t2.episodes, e = r, target = r
        PROVE  t2.episodes[e] = 1
    BY <1>1, <2>2
  <2> QED BY <2>1, <2>2
<1>8. Reinforced(t2, NoSource)
  <2> SUFFICES ASSUME NEW e \in DOMAIN t2.episodes
               PROVE  /\ t2.episodes[e] >= 1
                      /\ \A u \in DOMAIN t2.units : t2.units[u].source = e =>
                           t2.units[u].reinforced <= t2.episodes[e] - (IF e = NoSource THEN 0 ELSE 1)
    BY DEF Reinforced
  <2>1. CASE e \in DOMAIN t.episodes
    <3>1. t2.episodes[e] = t.episodes[e] /\ t2.units = t.units
      BY <2>1 DEF SameUnits
    <3> QED BY <2>1, <3>1 DEF Reinforced
  <2>2. CASE e \notin DOMAIN t.episodes
    <3>1. e = r /\ t2.episodes[e] = 1
      BY <2>2
    <3>2. \A u \in DOMAIN t2.units : t2.units[u].source # r
      BY <1>1 DEF SameUnits, TableOk, Sourced
    <3> QED BY <3>1, <3>2
  <2> QED BY <2>1, <2>2
<1> QED BY <1>4, <1>5, <1>6, <1>7, <1>8 DEF Result

\* The episode that was observed again, if it is still there, counts once more.
LEMMA ObservedIs ==
  ASSUME NEW t, TableOk(t), NEW e \in Names, Reinforced(t, e)
  PROVE  LET t1 == Observed(t, e) IN
         /\ TableOk(t1) /\ SameUnits(t, t1) /\ t1.jobs = t.jobs /\ t1.resources = t.resources
         /\ t1.meta = t.meta /\ t1.traces = t.traces /\ t1.reviews = t.reviews
         /\ DOMAIN t1.episodes = DOMAIN t.episodes /\ Reinforced(t1, NoSource)
         /\ \A x \in DOMAIN t.episodes : t1.episodes[x] = t.episodes[x] + (IF x = e THEN 1 ELSE 0)
<1> DEFINE t1 == Observed(t, e)
           f == [t.episodes EXCEPT ![e] = t.episodes[e] + 1]
<1>1. t \in Table /\ t.episodes \in Partial(Names, Nat)
  BY TableParts DEF TableOk
<1>2. \A x \in DOMAIN t.episodes : t.episodes[x] \in Nat /\ x # NoSource
  BY <1>1, TableParts, NamesAssumption
<1>3. CASE e \notin DOMAIN t.episodes
  <2>1. t1 = t
    BY <1>3 DEF Observed
  <2> HIDE DEF t1
  <2>2. Reinforced(t, NoSource)
    BY <1>2, <1>3 DEF Reinforced
  <2>3. \A x \in DOMAIN t.episodes : t.episodes[x] = t.episodes[x] + (IF x = e THEN 1 ELSE 0)
    BY <1>2, <1>3
  <2> QED BY <1>1, <2>1, <2>2, <2>3 DEF SameUnits, t1
<1>4. CASE e \in DOMAIN t.episodes
  <2>1. t1 = [t EXCEPT !.episodes = f]
    BY <1>4 DEF Observed
  <2>2. /\ DOMAIN f = DOMAIN t.episodes /\ f = [x \in DOMAIN f |-> f[x]]
        /\ \A x \in DOMAIN t.episodes : f[x] = t.episodes[x] + (IF x = e THEN 1 ELSE 0)
    BY <1>2, <1>4
  <2> HIDE DEF f
  <2>3. f \in Partial(Names, Nat)
    <3>1. \A x \in DOMAIN t.episodes : f[x] \in Nat
      BY <1>2, <2>2
    <3> QED BY <1>1, <2>2, <3>1, MapIs
  <2>4. /\ SameUnits(t, t1) /\ t1.jobs = t.jobs /\ t1.resources = t.resources /\ t1.episodes = f
        /\ t1.meta = t.meta /\ t1.traces = t.traces /\ t1.reviews = t.reviews
    BY <1>1, <2>1, <2>3 DEF SameUnits, Table
  <2> HIDE DEF t1
  <2>5. Rows(t1) = Rows(t)
    BY <2>2, <2>4 DEF Rows
  <2>6. TableOk(t1)
    <3>1. Queue(t1)
      BY <2>4, <2>5, QueueStays DEF TableOk
    <3>2. JobIds(t1) = JobIds(t)
      BY <2>4, SameQueue
    <3>3. Compilations(t1)
      BY <2>4 DEF TableOk, Compilations, SameUnits
    <3> QED BY <2>4, <3>1, <3>2, <3>3, UnitsSame
  <2>7. Reinforced(t1, NoSource)
    <3> SUFFICES ASSUME NEW x \in DOMAIN t.episodes
                 PROVE  /\ t1.episodes[x] >= 1
                        /\ \A u \in DOMAIN t1.units : t1.units[u].source = x =>
                             t1.units[u].reinforced <= t1.episodes[x] - (IF x = NoSource THEN 0 ELSE 1)
      BY <2>2, <2>4 DEF Reinforced
    <3>1. t.episodes[x] \in Nat /\ x # NoSource /\ t1.episodes[x] = t.episodes[x] + (IF x = e THEN 1 ELSE 0)
      BY <1>2, <2>2, <2>4
    <3>2. t.episodes[x] >= 1 /\ \A u \in DOMAIN t.units : t.units[u].source = x =>
             t.units[u].reinforced <= t.episodes[x] - (IF x = e THEN 0 ELSE 1)
      BY DEF Reinforced
    <3>3. \A u \in DOMAIN t.units : t.units[u].reinforced \in Nat
      BY <1>1, TableParts DEF Unit
    <3>4. t1.units = t.units
      BY <2>4 DEF SameUnits
    <3> QED BY <3>1, <3>2, <3>3, <3>4
  <2> QED BY <2>2, <2>4, <2>6, <2>7 DEF t1
<1> QED BY <1>3, <1>4

LEMMA ObservedResult ==
  ASSUME NEW t \in Table, NEW t0, NEW e \in Names, NEW names, Staged(t0, t, FALSE, e, names),
         NEW r \in Names, r \in names, r \notin Used(t0), HasHome(t, e),
         NEW t1, t1 = Observed(t0, e), NEW t2,
         \/ t2 = t1
         \/ /\ SameJob(t, e) = {}
            /\ t2 = [t1 EXCEPT !.jobs = Append(t1.jobs, [id |-> r, source |-> e, compiler |-> Compiler])]
  PROVE  Result(t2, t, r, e, FALSE, names)
<1>1. /\ TableOk(t0) /\ t0.jobs = t.jobs /\ Grows(t, t0) /\ RowsKept(t, t0) /\ Used(t0) \subseteq names
      /\ DOMAIN t0.episodes \subseteq DOMAIN t.episodes /\ Reinforced(t0, e)
      /\ \A x \in DOMAIN t0.episodes : t0.episodes[x] = t.episodes[x]
  BY DEF Staged
<1>2. /\ TableOk(t1) /\ SameUnits(t0, t1) /\ t1.jobs = t0.jobs /\ t1.resources = t0.resources
      /\ t1.meta = t0.meta /\ t1.traces = t0.traces /\ t1.reviews = t0.reviews
      /\ DOMAIN t1.episodes = DOMAIN t0.episodes /\ Reinforced(t1, NoSource)
      /\ \A x \in DOMAIN t0.episodes : t1.episodes[x] = t0.episodes[x] + (IF x = e THEN 1 ELSE 0)
  BY <1>1, ObservedIs
<1>3. \A x \in DOMAIN t1.episodes :
        x \in DOMAIN t.episodes /\ t1.episodes[x] = t.episodes[x] + (IF x = e THEN 1 ELSE 0)
  BY <1>1, <1>2
<1>4. Rows(t1) = Rows(t0)
  BY <1>2 DEF Rows
<1>5. Used(t1) = Used(t0)
  <2>1. JobIds(t1) = JobIds(t0)
    BY <1>2, SameQueue
  <2> QED BY <1>2, <1>4, <2>1 DEF Used, SameUnits
<1>6. Grows(t, t1) /\ RowsKept(t, t1)
  BY <1>1, <1>2, <1>4 DEF Grows, RowsKept, SameUnits, SettledJobs, JobsKept
<1>7. CASE t2 = t1
  BY <1>1, <1>2, <1>3, <1>5, <1>6, <1>7 DEF Result
<1>8. CASE /\ SameJob(t, e) = {}
           /\ t2 = [t1 EXCEPT !.jobs = Append(t1.jobs, [id |-> r, source |-> e, compiler |-> Compiler])]
  <2> DEFINE new == [id |-> r, source |-> e, compiler |-> Compiler]
  <2>1. t1 \in Table /\ t1.jobs \in Seq(Job) /\ new \in Job
    BY <1>2, TableParts DEF TableOk, Job
  <2>2. Append(t1.jobs, new) \in Seq(Job)
    BY <2>1
  <2> DEFINE more == Append(t1.jobs, new)
  <2>3. more \in Seq(Job) /\ t2 = [t1 EXCEPT !.jobs = more]
    BY <1>8, <2>2
  <2> HIDE DEF more
  <2>4. /\ SameUnits(t1, t2) /\ t2.jobs = more /\ t2.resources = t1.resources /\ t2.episodes = t1.episodes
        /\ t2.meta = t1.meta /\ t2.traces = t1.traces /\ t2.reviews = t1.reviews
    BY <2>1, <2>3 DEF SameUnits, Table
  <2>5. SameJob(t1, e) = {} /\ HasHome(t1, e)
    BY <1>1, <1>2, <1>8 DEF SameJob, HasHome, IsJob
  <2>6. Rows(t2) = Rows(t1)
    BY <2>4 DEF Rows
  <2>7. TableOk(t2) /\ JobsKept(t1, t2) /\ JobIds(t2) = JobIds(t1) \cup {r}
    BY <1>2, <1>5, <2>4, <2>5, <2>6, AppendQueue DEF more
  <2>8. JobsKept(t, t2)
    BY <1>1, <1>2, <2>7 DEF JobsKept
  <2>9. Grows(t, t2) /\ RowsKept(t, t2)
    BY <1>6, <2>4, <2>6, <2>8 DEF Grows, RowsKept, SameUnits, SettledJobs
  <2>10. Used(t2) \subseteq names
    BY <1>1, <1>5, <2>4, <2>6, <2>7 DEF Used, SameUnits
  <2>11. Reinforced(t2, NoSource)
    BY <1>2, <2>4 DEF Reinforced, SameUnits
  <2> QED BY <1>3, <2>4, <2>7, <2>9, <2>10, <2>11 DEF Result
<1> QED BY <1>7, <1>8

-----------------------------------------------------------------------------
(***************************************************************************)
(* Requests.                                                               *)
(***************************************************************************)
LEMMA RequestFacts ==
  ASSUME ServiceInv, NEW r \in Requests
  PROVE  /\ r \in Names /\ r # Seed /\ r # Prior /\ r # NoSource /\ r # Nobody
         /\ tx[r] \in Transaction /\ Ctx(r) \in Contexts /\ Verb(r) \in Verbs /\ Key(r) \in Requests
         /\ tx[r].plan \in SUBSET Names
         /\ TableOk(Live(r)) /\ Reinforced(Live(r), NoSource) /\ Used(Live(r)) \subseteq Old(Ctx(r))
         /\ Live(r) \in Table /\ SnapshotOk(r) /\ RetainOk(r) /\ OthersOk(r)
         /\ tx[r].pc \notin Over => r \notin Old(Ctx(r)) /\ r \notin Used(Live(r)) /\ told[r] = NoSource
<1>1. r \in Names /\ r # Seed /\ r # Prior /\ r # NoSource /\ r # Nobody
  BY ServiceAssumption, NamesAssumption
<1>2. tx[r] \in Transaction /\ asked[r] \in [verb : Verbs, context : Contexts, key : Requests]
  BY DEF ServiceInv, Shapes
<1>3. Ctx(r) \in Contexts /\ Verb(r) \in Verbs /\ Key(r) \in Requests
  BY <1>2 DEF Ctx, Verb, Key
<1>4. TableOk(Live(r)) /\ Reinforced(Live(r), NoSource) /\ Used(Live(r)) \subseteq Old(Ctx(r))
  BY <1>3 DEF ServiceInv, TablesOk, Live
<1>5. SnapshotOk(r) /\ RetainOk(r) /\ OthersOk(r)
  BY DEF ServiceInv
<1>6. tx[r].pc \notin Over => r \notin Old(Ctx(r))
  BY <1>1 DEF Old
<1>7. tx[r].pc \notin Over => told[r] = NoSource
  BY DEF ServiceInv, Counted
<1>8. tx[r].plan \in SUBSET Names
  BY <1>2 DEF Transaction
<1> QED BY <1>1, <1>2, <1>3, <1>4, <1>5, <1>6, <1>7, <1>8 DEF TableOk

\* What a commit puts in place of the live tables, before it adds its own rows.
LEMMA CommitBase ==
  ASSUME ServiceInv, NEW r \in Requests, tx[r].pc = "commit", Verb(r) # "erase", ~erased, StillBase(r)
  PROVE  Staged(IF tx[r].base = <<>> THEN Live(r) ELSE tx[r].snapshot, Live(r), Verb(r) \in Forgets,
                tx[r].observe, Old(Ctx(r)) \cup {r})
<1>1. /\ TableOk(Live(r)) /\ Reinforced(Live(r), NoSource) /\ Used(Live(r)) \subseteq Old(Ctx(r))
      /\ SnapshotOk(r) /\ RetainOk(r) /\ OthersOk(r)
  BY RequestFacts
<1>2. CASE tx[r].base = <<>>
  <2>1. Staged(Live(r), Live(r), FALSE, NoSource, Used(Live(r)) \cup {r})
    BY <1>1, StagedSelf
  <2>2. Staged(Live(r), Live(r), Verb(r) \in Forgets, NoSource, Old(Ctx(r)) \cup {r})
    BY <1>1, <2>1 DEF Staged, RowsForgotten, RowsKept
  <2>3. tx[r].observe = NoSource
    BY <1>1, <1>2 DEF RetainOk, OthersOk, Over
  <2> QED BY <1>2, <2>2, <2>3
<1>3. CASE tx[r].base # <<>>
  <2>1. tx[r].base[1] = Live(r)
    BY <1>3 DEF StillBase, Capture, Live
  <2> QED BY <1>1, <1>3, <2>1 DEF SnapshotOk
<1> QED BY <1>2, <1>3

LEMMA CommitResult ==
  ASSUME ServiceInv, NEW r \in Requests, tx[r].pc = "commit", Verb(r) # "erase", ~erased, StillBase(r)
  PROVE  /\ Result(AfterCommit(r), Live(r), r, tx[r].target, Verb(r) \in Forgets, Old(Ctx(r)) \cup {r})
         /\ tx[r].target # NoSource => tx[r].target \in Old(Ctx(r)) \cup {r}
<1> DEFINE t == Live(r)
           names == Old(Ctx(r)) \cup {r}
           t0 == IF tx[r].base = <<>> THEN t ELSE tx[r].snapshot
           forgets == Verb(r) \in Forgets
<1>1. Staged(t0, t, forgets, tx[r].observe, names)
  BY CommitBase
<1>2. /\ TableOk(t) /\ Reinforced(t, NoSource) /\ Used(t) \subseteq Old(Ctx(r)) /\ t \in Table
      /\ SnapshotOk(r) /\ RetainOk(r) /\ OthersOk(r) /\ r \in Names /\ r \notin Used(t) /\ r # NoSource /\ r # Nobody
      /\ tx[r] \in Transaction
  BY RequestFacts DEF Over
<1>3. AfterCommit(r) = Queued(Added(Observed(t0, tx[r].observe), r), r)
  BY DEF AfterCommit
<1>4. TableOk(t0)
  BY <1>1 DEF Staged
<1>5. NoSource \notin DOMAIN t0.episodes
  BY <1>4, TableParts, NamesAssumption DEF TableOk
<1>6. tx[r].observe = NoSource => Observed(t0, tx[r].observe) = t0
  BY <1>5 DEF Observed
<1> HIDE DEF t, names, forgets
<1>7. CASE Verb(r) \notin {"retain", "resource", "reflect"}
  <2>1. tx[r].target = NoSource /\ tx[r].observe = NoSource /\ tx[r].job = Nobody
    BY <1>2, <1>7 DEF OthersOk
  <2>2. AfterCommit(r) = t0
    BY <1>3, <1>6, <1>7, <2>1 DEF Added, Queued
  <2> HIDE DEF t0
  <2>3. forgets \in BOOLEAN
    BY DEF forgets
  <2>4. Result(t0, t, r, NoSource, forgets, names)
    BY <1>1, <1>2, <2>1, <2>3, StagedResult
  <2> QED BY <2>1, <2>2, <2>4 DEF t, names, forgets
<1>8. /\ Verb(r) \in {"retain", "resource", "reflect"} => forgets = FALSE
      /\ Verb(r) \in {"resource", "reflect"} => tx[r].base = <<>>
  BY <1>2 DEF forgets, Forgets, SnapshotOk
<1>9. CASE Verb(r) \in {"resource", "reflect"}
  <2>1. tx[r].target = NoSource /\ tx[r].observe = NoSource /\ t0 = t /\ forgets = FALSE
    BY <1>2, <1>8, <1>9 DEF OthersOk
  <2>2. Observed(t0, tx[r].observe) = t
    BY <1>6, <2>1
  <2> HIDE DEF t0
  <2> DEFINE s == tx[r].job
             new == [id |-> r, source |-> s, compiler |-> Compiler]
             more == Append(t.jobs, new)
  <2>3. s \in {Nobody, NoSource, r} /\ (s = r => Verb(r) = "resource" /\ tx[r].add)
          /\ (Verb(r) = "resource" => s = r /\ tx[r].add)
    BY <1>2, <1>9 DEF OthersOk
  <2>4. CASE s = Nobody
    <3>1. AfterCommit(r) = t
      BY <1>2, <1>3, <1>9, <2>2, <2>3, <2>4 DEF Added, Queued, OthersOk
    <3>2. Staged(t, t, FALSE, NoSource, names)
      BY <1>1, <2>1
    <3>3. FALSE \in BOOLEAN
      OBVIOUS
    <3>4. Result(t, t, r, NoSource, FALSE, names)
      BY <1>2, <3>2, <3>3, StagedResult
    <3> QED BY <2>1, <3>1, <3>4 DEF t, names, forgets
  <2>5. CASE s # Nobody
    <3> DEFINE res == IF s = r THEN t.resources \cup {r} ELSE t.resources
               t2 == [t EXCEPT !.resources = res, !.jobs = more]
    <3>1. AfterCommit(r) = t2
      <4>1. CASE Verb(r) = "resource"
        <5>1. Added(t, r) = [t EXCEPT !.resources = @ \cup {r}]
          BY <2>3, <4>1 DEF Added
        <5>2. AfterCommit(r) = [Added(t, r) EXCEPT !.jobs = Append(Added(t, r).jobs, new)]
          BY <1>3, <2>2, <2>5 DEF Queued
        <5>3. Added(t, r).jobs = t.jobs
          BY <1>2, <5>1 DEF Table
        <5> QED BY <2>3, <4>1, <5>1, <5>2, <5>3
      <4>2. CASE Verb(r) = "reflect"
        <5>1. Added(t, r) = t /\ s # r
          BY <1>2, <2>3, <4>2 DEF Added, OthersOk
        <5>2. AfterCommit(r) = [t EXCEPT !.jobs = more]
          BY <1>3, <2>2, <2>5, <5>1 DEF Queued
        <5>3. t2 = [t EXCEPT !.jobs = more]
          BY <1>2, <5>1 DEF Table
        <5> QED BY <5>2, <5>3
      <4> QED BY <1>9, <4>1, <4>2
    <3>2. new \in Job /\ t.jobs \in Seq(Job) /\ t.resources \subseteq Names
      BY <1>2, <2>3, <2>5, TableParts DEF Job
    <3>3. more \in Seq(Job) /\ res \in SUBSET Names
      BY <1>2, <3>2
    <3> HIDE DEF more, res
    <3>4. /\ SameUnits(t, t2) /\ t2.jobs = more /\ t2.resources = res /\ t2.episodes = t.episodes
          /\ t2.meta = t.meta /\ t2.traces = t.traces /\ t2.reviews = t.reviews
      BY <1>2, <3>3 DEF SameUnits, Table
    <3>5. res \in {t.resources, t.resources \cup (IF s = r THEN {r} ELSE {})}
      BY DEF res
    <3>6. s \in {r, NoSource} /\ Used(t) \cup {r} \subseteq names
      BY <1>2, <2>3, <2>5 DEF names
    <3> HIDE DEF t2, s
    <3>7. Result(t2, t, r, NoSource, FALSE, names)
      BY <1>2, <3>4, <3>5, <3>6, AddedResult DEF more
    <3> QED BY <2>1, <3>1, <3>7 DEF t, names, forgets
  <2> QED BY <2>4, <2>5
<1>10. CASE Verb(r) = "retain" /\ tx[r].add
  <2>1. /\ tx[r].target = r /\ tx[r].observe = NoSource /\ tx[r].base = <<>> /\ tx[r].job = r /\ forgets = FALSE
    BY <1>2, <1>8, <1>10 DEF RetainOk, Over
  <2>2. Observed(t0, tx[r].observe) = t
    BY <1>6, <2>1
  <2> DEFINE new == [id |-> r, source |-> r, compiler |-> Compiler]
             more == Append(t.jobs, new)
             eps == Extend(t.episodes, r, 1)
             t2 == [t EXCEPT !.episodes = eps, !.jobs = more]
  <2>3. AfterCommit(r) = t2
    <3>1. Added(t, r) = [t EXCEPT !.episodes = eps]
      BY <1>10 DEF Added
    <3>2. AfterCommit(r) = [Added(t, r) EXCEPT !.jobs = Append(Added(t, r).jobs, new)]
      BY <1>2, <1>3, <2>1, <2>2 DEF Queued
    <3> HIDE DEF eps
    <3>3. Added(t, r).jobs = t.jobs
      BY <1>2, <3>1 DEF Table
    <3> QED BY <3>1, <3>2, <3>3
  <2>4. new \in Job /\ t.jobs \in Seq(Job) /\ t.episodes \in Partial(Names, Nat) /\ r \notin DOMAIN t.episodes
    BY <1>2, TableParts DEF Job, Used, Rows
  <2>5. more \in Seq(Job)
    BY <2>4
  <2>6. /\ eps \in Partial(Names, Nat) /\ DOMAIN eps = DOMAIN t.episodes \cup {r} /\ eps[r] = 1
        /\ \A e \in DOMAIN t.episodes : eps[e] = t.episodes[e]
    <3>1. DOMAIN t.episodes \subseteq Names /\ \A e \in DOMAIN t.episodes : t.episodes[e] \in Nat
      BY <1>2, TableParts
    <3>2. eps \in [DOMAIN t.episodes \cup {r} -> Nat] /\ DOMAIN t.episodes \cup {r} \in SUBSET Names
      BY <1>2, <3>1 DEF Extend
    <3>3. eps[r] = 1 /\ \A e \in DOMAIN t.episodes : eps[e] = t.episodes[e]
      BY <2>4 DEF Extend
    <3> HIDE DEF eps
    <3> QED BY <3>2, <3>3 DEF Partial
  <2> HIDE DEF more, eps
  <2>7. /\ SameUnits(t, t2) /\ t2.jobs = more /\ t2.resources = t.resources /\ t2.episodes = eps
        /\ t2.meta = t.meta /\ t2.traces = t.traces /\ t2.reviews = t.reviews
    BY <1>2, <2>5, <2>6 DEF SameUnits, Table
  <2>8. Used(t) \cup {r} \subseteq names
    BY <1>2 DEF names
  <2> HIDE DEF t2
  <2>9. Result(t2, t, r, r, FALSE, names)
    BY <1>2, <2>6, <2>7, <2>8, AddedResult DEF more
  <2> QED BY <2>1, <2>3, <2>9 DEF t, names, forgets
<1>11. CASE Verb(r) = "retain" /\ ~tx[r].add
  <2> DEFINE e == tx[r].target
  <2>1. /\ e \in Names /\ tx[r].observe = e /\ forgets = FALSE /\ HasHome(t, e) /\ tx[r].base # <<>>
        /\ tx[r].job = Nobody \/ (tx[r].job = e /\ SameJob(tx[r].base[1], e) = {})
    BY <1>2, <1>8, <1>11 DEF RetainOk, Over, t
  <2>2. tx[r].base[1] = t /\ t0 = tx[r].snapshot
    BY <2>1 DEF StillBase, Capture, Live, t
  <2>3. r \notin Used(t0)
    BY <1>2, <1>11, <2>1, <2>2 DEF SnapshotOk
  <2>4. Staged(t0, t, FALSE, e, names)
    BY <1>1, <2>1
  <2>5. e \in Old(Ctx(r))
    BY <1>2, <2>1 DEF HasHome, IsJob, Used, JobIds
  <2> DEFINE t1 == Observed(t0, e)
  <2>6. \/ AfterCommit(r) = t1
        \/ /\ SameJob(t, e) = {}
           /\ AfterCommit(r) = [t1 EXCEPT !.jobs = Append(t1.jobs, [id |-> r, source |-> e, compiler |-> Compiler])]
    <3>1. Added(t1, r) = t1
      BY <1>11 DEF Added
    <3> HIDE DEF t1, t0
    <3>2. AfterCommit(r) = Queued(t1, r)
      BY <1>3, <2>1, <3>1 DEF t1
    <3> QED BY <2>1, <2>2, <3>2, ServiceAssumption DEF Queued
  <2>7. r \in names
    BY DEF names
  <2> HIDE DEF t0, t1, e
  <2>8. Result(AfterCommit(r), t, r, e, FALSE, names)
    BY <1>2, <2>1, <2>3, <2>4, <2>6, <2>7, ObservedResult DEF t1
  <2> QED BY <2>1, <2>5, <2>8 DEF t, names, forgets, e
<1> QED BY <1>2, <1>7, <1>9, <1>10, <1>11 DEF Transaction

-----------------------------------------------------------------------------
(***************************************************************************)
(* Steps.  What a step leaves alone keeps its part of the invariant.       *)
(***************************************************************************)
Onward ==
  /\ asked' = asked
  /\ \A q \in Requests : tx[q].pc \in Over => tx'[q].pc \in Over
  /\ erased => erased'
  /\ ~erased' => /\ \A c \in Contexts : JobsKept(tables[c], tables'[c])
                 /\ tasks \subseteq tasks' /\ events \subseteq events'

\* No step loses a row but by a forget or an erasure.
Lossless ==
  \A c \in Contexts :
    \/ erased'
    \/ Grows(tables[c], tables'[c]) /\ RowsKept(tables[c], tables'[c])
    \/ deletion' = deletion + 1 /\ Grows(tables[c], tables'[c]) /\ RowsForgotten(tables[c], tables'[c])

\* What every step is shown to be.
SafeStep == ServiceInv' /\ Lossless

LEMMA GrowsSelf ==
  ASSUME NEW t
  PROVE  Grows(t, t) /\ RowsKept(t, t)
BY DEF Grows, RowsKept, JobsKept

LEMMA JobsKeptTwice ==
  ASSUME NEW t, NEW t2, NEW t3, JobsKept(t, t2), JobsKept(t2, t3)
  PROVE  JobsKept(t, t3)
<1> SUFFICES ASSUME NEW i \in DOMAIN t.jobs
             PROVE  \E k \in DOMAIN t3.jobs :
                      /\ t3.jobs[k].id = t.jobs[i].id /\ t3.jobs[k].source = t.jobs[i].source
                      /\ t.jobs[i].compiler = Compiler => t3.jobs[k].compiler = Compiler
  BY DEF JobsKept
<1>1. PICK n \in DOMAIN t2.jobs :
        /\ t2.jobs[n].id = t.jobs[i].id /\ t2.jobs[n].source = t.jobs[i].source
        /\ t.jobs[i].compiler = Compiler => t2.jobs[n].compiler = Compiler
  BY DEF JobsKept
<1>2. PICK k \in DOMAIN t3.jobs :
        /\ t3.jobs[k].id = t2.jobs[n].id /\ t3.jobs[k].source = t2.jobs[n].source
        /\ t2.jobs[n].compiler = Compiler => t3.jobs[k].compiler = Compiler
  BY DEF JobsKept
<1> QED BY <1>1, <1>2

LEMMA HomeKept ==
  ASSUME NEW t, NEW t2, JobsKept(t, t2), NEW s, HasHome(t, s)
  PROVE  HasHome(t2, s)
BY DEF JobsKept, HasHome, IsJob

LEMMA StagedWider ==
  ASSUME NEW t, NEW base, NEW forgets, NEW observed, NEW names, NEW more, names \subseteq more,
         Staged(t, base, forgets, observed, names)
  PROVE  Staged(t, base, forgets, observed, more)
<1>1. Used(t) \subseteq more
  BY DEF Staged
<1> QED BY <1>1 DEF Staged

LEMMA OldGrows ==
  ASSUME Onward, NEW c
  PROVE  Old(c) \subseteq Old(c)'
<1>1. \A r \in Requests : Ctx(r)' = Ctx(r)
  BY DEF Onward, Ctx
<1> QED BY <1>1 DEF Old, Onward

LEMMA RequestStays ==
  ASSUME ServiceInv, Onward, NEW r \in Requests, tx'[r] = tx[r]
  PROVE  SnapshotOk(r)' /\ RetainOk(r)' /\ OthersOk(r)'
<1>1. SnapshotOk(r) /\ RetainOk(r) /\ OthersOk(r) /\ Ctx(r) \in Contexts
  BY RequestFacts
<1>2. Ctx(r)' = Ctx(r) /\ Verb(r)' = Verb(r) /\ Live(r)' = tables'[Ctx(r)] /\ Live(r) = tables[Ctx(r)]
  BY DEF Onward, Ctx, Verb, Live
<1>3. ~erased' => ~erased /\ JobsKept(Live(r), Live(r)')
  BY <1>1, <1>2 DEF Onward
<1>4. Old(Ctx(r)) \cup {r} \subseteq Old(Ctx(r))' \cup {r}
  <2>1. PICK c \in Contexts : c = Ctx(r)
    BY <1>1
  <2>2. Old(c) \subseteq Old(c)' /\ c = Ctx(r)'
    BY <1>2, <2>1, OldGrows
  <2> QED BY <2>1, <2>2 DEF Old
<1>5. SnapshotOk(r)'
  <2> SUFFICES ASSUME tx[r].base # <<>>
               PROVE  /\ tx[r].pc \in {"enqueue", "commit"}
                      /\ Verb(r) \notin {"resource", "reflect", "task", "events", "erase"}
                      /\ Staged(tx[r].snapshot, tx[r].base[1], Verb(r) \in Forgets, tx[r].observe,
                                Old(Ctx(r))' \cup {r})
                      /\ Verb(r) = "retain" => r \notin Used(tx[r].snapshot)
                      /\ ~erased' => JobsKept(tx[r].base[1], Live(r)')
    BY <1>2 DEF SnapshotOk
  <2>1. /\ tx[r].pc \in {"enqueue", "commit"}
        /\ Verb(r) \notin {"resource", "reflect", "task", "events", "erase"}
        /\ Staged(tx[r].snapshot, tx[r].base[1], Verb(r) \in Forgets, tx[r].observe, Old(Ctx(r)) \cup {r})
        /\ Verb(r) = "retain" => r \notin Used(tx[r].snapshot)
        /\ ~erased => JobsKept(tx[r].base[1], Live(r))
    BY <1>1 DEF SnapshotOk
  <2>2. Staged(tx[r].snapshot, tx[r].base[1], Verb(r) \in Forgets, tx[r].observe, Old(Ctx(r))' \cup {r})
    BY <1>4, <2>1, StagedWider
  <2>3. ~erased' => JobsKept(tx[r].base[1], Live(r)')
    BY <1>3, <2>1, JobsKeptTwice
  <2> QED BY <2>1, <2>2, <2>3
<1>6. RetainOk(r)'
  <2>1. ASSUME NEW s, erased \/ HasHome(Live(r), s)
        PROVE  erased' \/ HasHome(Live(r)', s)
    BY <1>3, <2>1, HomeKept
  <2> QED BY <1>1, <1>2, <2>1 DEF RetainOk
<1>7. OthersOk(r)'
  BY <1>1, <1>2 DEF OthersOk, Onward
<1> QED BY <1>5, <1>6, <1>7

LEMMA RunnerStays ==
  ASSUME ServiceInv, Onward, NEW c \in Contexts, runner'[c] = runner[c]
  PROVE  RunnerOk(c)'
<1>1. RunnerOk(c)
  BY DEF ServiceInv
<1>2. Head1(c)' = Head1(c)
  BY DEF Head1
<1>3. ASSUME runner[c].pc = "commit"
      PROVE  runner[c].base \in Table \X Nat /\ Staged(runner[c].snapshot, runner[c].base[1], FALSE, NoSource, Old(c)')
  <2>1. runner[c].base \in Table \X Nat /\ Staged(runner[c].snapshot, runner[c].base[1], FALSE, NoSource, Old(c))
    BY <1>1, <1>3 DEF RunnerOk
  <2>2. Old(c) \subseteq Old(c)'
    BY OldGrows
  <2> QED BY <2>1, <2>2, StagedWider
<1> QED BY <1>1, <1>2, <1>3 DEF RunnerOk

LEMMA TablesStay ==
  ASSUME ServiceInv, Onward, NEW c \in Contexts, tables'[c] = tables[c]
  PROVE  TablesOk(c)'
<1>1. TablesOk(c)
  BY DEF ServiceInv
<1>2. Old(c) \subseteq Old(c)'
  BY OldGrows
<1> QED BY <1>1, <1>2 DEF TablesOk

LEMMA CountsStay ==
  ASSUME ServiceInv, Onward, told' = told,
         \A c \in Contexts : \A e \in DOMAIN tables'[c].episodes :
           e \in DOMAIN tables[c].episodes /\ tables'[c].episodes[e] = tables[c].episodes[e]
  PROVE  Counted'
<1>1. \A e : Tellers(e)' = Tellers(e)
  BY DEF Tellers
<1>2. \A c \in Contexts : Old(c) \subseteq Old(c)'
  BY OldGrows
<1>3. \A r \in Requests : told'[r] # NoSource => tx'[r].pc \in Over /\ \E c \in Contexts : told'[r] \in Old(c)'
  BY <1>2 DEF ServiceInv, Counted, Onward
<1>4. \A c \in Contexts : \A e \in DOMAIN tables'[c].episodes :
        tables'[c].episodes[e] = Cardinality(Tellers(e)') + (IF e = Seed THEN 1 ELSE 0)
  BY <1>1 DEF ServiceInv, Counted
<1> QED BY <1>3, <1>4 DEF Counted

\* A step of one request that touches its transaction only.
LEMMA RequestMoves ==
  ASSUME ServiceInv, NEW r \in Requests, NEW x \in Transaction, tx' = [tx EXCEPT ![r] = x],
         tx[r].pc \in Over => x.pc \in Over,
         UNCHANGED <<tables, deletion, erased, tasks, events, ledger, asked, runner, told>>,
         SnapshotOk(r)', RetainOk(r)', OthersOk(r)'
  PROVE  SafeStep
<1>1. tx \in [Requests -> Transaction]
  BY DEF ServiceInv, Shapes
<1>2. tx' \in [Requests -> Transaction] /\ tx'[r] = x /\ \A q \in Requests \ {r} : tx'[q] = tx[q]
  BY <1>1
<1>3. Onward
  <2>1. \A c \in Contexts : JobsKept(tables[c], tables'[c])
    BY SameJobsKept
  <2> QED BY <1>2, <2>1 DEF Onward
<1>4. Shapes'
  BY <1>2 DEF ServiceInv, Shapes
<1>5. \A c \in Contexts : TablesOk(c)' /\ RunnerOk(c)'
  BY <1>3, TablesStay, RunnerStays
<1>6. \A q \in Requests : SnapshotOk(q)' /\ RetainOk(q)' /\ OthersOk(q)'
  BY <1>2, <1>3, RequestStays
<1>7. Erased' /\ Evidence'
  <2>1. Erased /\ Evidence
    BY DEF ServiceInv
  <2>2. \A k \in Requests : ledger'[k] = ledger[k] /\ (ledger[k] # Nobody => Verb(ledger[k])' = Verb(ledger[k]))
    BY DEF Verb
  <2> QED BY <2>1, <2>2 DEF Erased, Evidence
<1>8. Counted'
  BY <1>3, CountsStay
<1>9. ServiceInv'
  BY <1>4, <1>5, <1>6, <1>7, <1>8 DEF ServiceInv
<1>10. Lossless
  BY GrowsSelf DEF Lossless
<1> QED BY <1>9, <1>10 DEF SafeStep

LEMMA TablesMove ==
  ASSUME ServiceInv, Onward, NEW c \in Contexts, NEW STATE t2, tables' = [tables EXCEPT ![c] = t2],
         TableOk(t2), Reinforced(t2, NoSource), Used(t2) \subseteq Old(c)'
  PROVE  tables' \in [Contexts -> Table] /\ \A d \in Contexts : TablesOk(d)'
<1>1. tables \in [Contexts -> Table] /\ t2 \in Table
  BY DEF ServiceInv, Shapes, TableOk
<1>2. tables' \in [Contexts -> Table] /\ tables'[c] = t2 /\ \A d \in Contexts \ {c} : tables'[d] = tables[d]
  BY <1>1
<1>3. TablesOk(c)'
  BY <1>2 DEF TablesOk
<1>4. \A d \in Contexts \ {c} : TablesOk(d)'
  BY <1>2, TablesStay
<1> QED BY <1>2, <1>3, <1>4

\* A step that changes the tables of one context and names no new row there.
LEMMA QuietMoves ==
  ASSUME ServiceInv, NEW c \in Contexts, NEW STATE t2, tables' = [tables EXCEPT ![c] = t2],
         Result(t2, tables[c], Nobody, NoSource, FALSE, Old(c)), erased => t2 = tables[c],
         UNCHANGED <<deletion, erased, tasks, events, ledger, asked, told>>,
         DOMAIN runner' = Contexts, \A d \in Contexts : runner'[d] = runner[d] \/ RunnerOk(d)',
         tx' \in [Requests -> Transaction],
         \A q \in Requests : \/ tx'[q] = tx[q]
                             \/ /\ tx[q].pc \in Over => tx'[q].pc \in Over
                                /\ SnapshotOk(q)' /\ RetainOk(q)' /\ OthersOk(q)'
  PROVE  SafeStep
<1>1. tables \in [Contexts -> Table]
  BY DEF ServiceInv, Shapes
<1>2. tables'[c] = t2 /\ \A d \in Contexts \ {c} : tables'[d] = tables[d]
  BY <1>1
<1>3. /\ TableOk(t2) /\ Reinforced(t2, NoSource) /\ Used(t2) \subseteq Old(c) /\ JobsKept(tables[c], t2)
  BY DEF Result, Grows
<1>4. Onward
  <2>1. \A d \in Contexts \ {c} : JobsKept(tables[d], tables'[d])
    BY <1>2, SameJobsKept
  <2>2. JobsKept(tables[c], tables'[c])
    BY <1>2, <1>3
  <2>3. \A q \in Requests : tx[q].pc \in Over => tx'[q].pc \in Over
    OBVIOUS
  <2> QED BY <2>1, <2>2, <2>3 DEF Onward
<1>5. Used(t2) \subseteq Old(c)'
  <2>1. Old(c) \subseteq Old(c)'
    BY <1>4, OldGrows
  <2> QED BY <1>3, <2>1
<1>6. tables' \in [Contexts -> Table] /\ \A d \in Contexts : TablesOk(d)'
  BY <1>3, <1>4, <1>5, TablesMove
<1>7. Shapes'
  BY <1>6 DEF ServiceInv, Shapes
<1>8. \A d \in Contexts : RunnerOk(d)'
  BY <1>4, RunnerStays
<1>9. \A q \in Requests : SnapshotOk(q)' /\ RetainOk(q)' /\ OthersOk(q)'
  BY <1>4, RequestStays
<1>10. Erased' /\ Evidence'
  <2>1. Erased /\ Evidence
    BY DEF ServiceInv
  <2>2. \A k \in Requests : ledger'[k] = ledger[k] /\ (ledger[k] # Nobody => Verb(ledger[k])' = Verb(ledger[k]))
    BY DEF Verb
  <2>3. erased' => \A d \in Contexts : tables'[d] = tables[d]
    BY <1>2
  <2> QED BY <2>1, <2>2, <2>3 DEF Erased, Evidence
<1>11. Counted'
  <2>1. ASSUME NEW d \in Contexts, NEW e \in DOMAIN tables'[d].episodes
        PROVE  e \in DOMAIN tables[d].episodes /\ tables'[d].episodes[e] = tables[d].episodes[e]
    <3>1. CASE d # c
      BY <1>2, <2>1, <3>1
    <3>2. CASE d = c
      <4>1. e \in DOMAIN tables[c].episodes
              /\ t2.episodes[e] = tables[c].episodes[e] + (IF e = NoSource THEN 1 ELSE 0)
        BY <1>2, <2>1, <3>2, ServiceAssumption DEF Result
      <4>2. tables[c].episodes[e] \in Nat /\ e # NoSource
        BY <1>1, <4>1, TableParts, NamesAssumption
      <4> QED BY <1>2, <3>2, <4>1, <4>2
    <3> QED BY <3>1, <3>2
  <2> QED BY <1>4, <2>1, CountsStay
<1>12. ServiceInv'
  BY <1>7, <1>6, <1>8, <1>9, <1>10, <1>11 DEF ServiceInv
<1>13. Lossless
  <2>1. \A d \in Contexts \ {c} : Grows(tables[d], tables'[d]) /\ RowsKept(tables[d], tables'[d])
    BY <1>2, GrowsSelf
  <2>2. Grows(tables[c], tables'[c]) /\ RowsKept(tables[c], tables'[c])
    BY <1>2 DEF Result
  <2> QED BY <2>1, <2>2 DEF Lossless
<1> QED BY <1>12, <1>13 DEF SafeStep

LEMMA QuietResult ==
  ASSUME NEW t, NEW t2, NEW names, t \in Table, Quiet(t, t2), Used(t) \subseteq names
  PROVE  Result(t2, t, Nobody, NoSource, FALSE, names)
<1>1. \A e \in DOMAIN t.episodes : t.episodes[e] \in Nat /\ e # NoSource
  BY TableParts, NamesAssumption
<1>2. \A e \in DOMAIN t2.episodes :
        e \in DOMAIN t.episodes /\ t2.episodes[e] = t.episodes[e] + (IF e = NoSource THEN 1 ELSE 0)
  BY <1>1 DEF Quiet
<1> QED BY <1>2 DEF Quiet, Result

LEMMA ContextFacts ==
  ASSUME ServiceInv, NEW c \in Contexts
  PROVE  /\ tables[c] \in Table /\ TableOk(tables[c]) /\ Reinforced(tables[c], NoSource)
         /\ Used(tables[c]) \subseteq Old(c) /\ RunnerOk(c) /\ DOMAIN runner[c] = DOMAIN Idle
         /\ erased => tables[c] = EmptyTables
BY DEF ServiceInv, TablesOk, TableOk, RunnerOk, Erased

\* Nothing is claimed in tables that are empty.
LEMMA NoClaimLeft ==
  ASSUME NEW claim
  PROVE  /\ ~ClaimIsCurrent(EmptyTables, claim)
         /\ Completed(EmptyTables, claim) = EmptyTables /\ Released(EmptyTables, claim) = EmptyTables
         /\ Failed(EmptyTables, claim) = EmptyTables /\ Requeued(EmptyTables, claim) = EmptyTables
<1>1. DOMAIN EmptyTables.jobs = {}
  BY DEF EmptyTables
<1>2. ~ClaimIsCurrent(EmptyTables, claim)
  BY <1>1 DEF ClaimIsCurrent
<1> QED BY <1>2 DEF Completed, Released, Failed, Requeued

\* A step of a lane runner.
LEMMA LaneMoves ==
  ASSUME ServiceInv, NEW c \in Contexts, NEW STATE t2, NEW STATE rec, RunnerStep(c, t2, rec),
         Result(t2, tables[c], Nobody, NoSource, FALSE, Old(c)), erased => t2 = tables[c],
         DOMAIN rec = DOMAIN Idle,
         rec.pc = "stage" => Head(rec.batch).job.compiler = Compiler /\ rec.plan \subseteq Names,
         rec.pc = "commit" => /\ rec.base \in Table \X Nat
                              /\ Staged(rec.snapshot, rec.base[1], FALSE, NoSource, Old(c))
  PROVE  SafeStep
<1>1. /\ tables' = [tables EXCEPT ![c] = t2] /\ runner' = [runner EXCEPT ![c] = rec]
      /\ UNCHANGED <<deletion, erased, tasks, events, ledger, asked, told>> /\ tx' = tx
  BY DEF RunnerStep, Run
<1>2. DOMAIN runner = Contexts /\ tx \in [Requests -> Transaction]
  BY DEF ServiceInv, Shapes
<1>3. DOMAIN runner' = Contexts /\ runner'[c] = rec /\ \A d \in Contexts : d # c => runner'[d] = runner[d]
  BY <1>1, <1>2
<1>4. Old(c)' = Old(c)
  BY <1>1 DEF Old, Ctx
<1>5. RunnerOk(c)'
  BY <1>3, <1>4 DEF RunnerOk, Head1
<1> QED BY <1>1, <1>2, <1>3, <1>5, QuietMoves

LEMMA RestIs ==
  ASSUME NEW c, NEW blocked
  PROVE  DOMAIN Rest(c, blocked) = DOMAIN Idle /\ Rest(c, blocked).pc \in {"idle", "next"}
BY DEF Rest, Idle

\* A step of a runner to its next job, on tables that the step leaves quiet.
LEMMA LaneGoesOn ==
  ASSUME ServiceInv, NEW c \in Contexts, NEW STATE t2, NEW STATE rec, RunnerStep(c, t2, rec),
         Quiet(tables[c], t2), erased => t2 = tables[c],
         DOMAIN rec = DOMAIN Idle, rec.pc \in {"idle", "next", "check", "apply"}
  PROVE  SafeStep
<1>1. tables[c] \in Table /\ Used(tables[c]) \subseteq Old(c)
  BY ContextFacts
<1>2. Result(t2, tables[c], Nobody, NoSource, FALSE, Old(c))
  BY <1>1, QuietResult
<1>3. rec.pc # "stage" /\ rec.pc # "commit"
  OBVIOUS
<1> QED BY <1>2, <1>3, LaneMoves

-----------------------------------------------------------------------------
(***************************************************************************)
(* Lane runners.                                                           *)
(***************************************************************************)
LEMMA ClaimJobsStep ==
  ASSUME ServiceInv, NEW c \in Contexts, ClaimJobs(c)
  PROVE  SafeStep
<1> DEFINE free == Claimable(tables[c])
           taken == {i \in free : Cardinality({k \in free : k < i}) < Batch}
           jobsAt(at) == [i \in DOMAIN at |-> tables[c].jobs[at[i]]]
           ids(at) == {jobsAt(at)[i].id : i \in DOMAIN jobsAt(at)}
           t(at) == Claimed(tables[c], ids(at))
           batch(at) == [i \in DOMAIN jobsAt(at) |->
                           [job |-> jobsAt(at)[i], attempts |-> MetaOf(t(at), jobsAt(at)[i].id).attempts,
                            generation |-> MetaOf(t(at), jobsAt(at)[i].id).generation]]
<1>1. tables[c] \in Table /\ TableOk(tables[c]) /\ Reinforced(tables[c], NoSource)
  BY ContextFacts
<1>2. ~erased
  BY DEF ClaimJobs
<1>3. PICK at \in [1..Cardinality(taken) -> taken] :
        RunnerStep(c, t(at), [Idle EXCEPT !.pc = "next", !.batch = batch(at)])
  BY DEF ClaimJobs
<1>4. ids(at) \in SUBSET Names
  <2>1. taken \subseteq DOMAIN tables[c].jobs
    BY DEF Claimable
  <2>2. \A i \in DOMAIN tables[c].jobs : tables[c].jobs[i].id \in Names
    BY <1>1, TableParts DEF Job
  <2>3. \A i \in DOMAIN at : at[i] \in DOMAIN tables[c].jobs
    BY <2>1
  <2> QED BY <2>2, <2>3
<1> DEFINE now == ids(at)
           rec == [Idle EXCEPT !.pc = "next", !.batch = batch(at)]
<1>5. DOMAIN rec = DOMAIN Idle /\ rec.pc = "next"
  BY DEF Idle
<1>6. RunnerStep(c, Claimed(tables[c], now), rec) /\ now \in SUBSET Names
  BY <1>3, <1>4
<1> HIDE DEF now, rec
<1>7. Quiet(tables[c], Claimed(tables[c], now))
  BY <1>1, <1>6, ClaimedQuiet
<1> QED BY <1>2, <1>5, <1>6, <1>7, LaneGoesOn

LEMMA SkipStep ==
  ASSUME ServiceInv, NEW c \in Contexts, Skip(c)
  PROVE  SafeStep
<1>1. TableOk(tables[c]) /\ Reinforced(tables[c], NoSource) /\ (erased => tables[c] = EmptyTables)
  BY ContextFacts
<1>2. DOMAIN Rest(c, TRUE) = DOMAIN Idle /\ Rest(c, TRUE).pc \in {"idle", "next"}
  BY RestIs
<1>3. Quiet(tables[c], Released(tables[c], Head1(c))) /\ Quiet(tables[c], Requeued(tables[c], Head1(c)))
  BY <1>1, ClaimSettledQuiet, RequeuedQuiet
<1>4. erased => Released(tables[c], Head1(c)) = tables[c] /\ Requeued(tables[c], Head1(c)) = tables[c]
  BY <1>1, NoClaimLeft
<1>5. CASE RunnerStep(c, Released(tables[c], Head1(c)), Rest(c, TRUE))
  BY <1>2, <1>3, <1>4, <1>5, LaneGoesOn
<1>6. CASE RunnerStep(c, Requeued(tables[c], Head1(c)), Rest(c, TRUE))
  BY <1>2, <1>3, <1>4, <1>6, LaneGoesOn
<1> QED BY <1>5, <1>6 DEF Skip

LEMMA FailJobStep ==
  ASSUME ServiceInv, NEW c \in Contexts, FailJob(c)
  PROVE  SafeStep
<1>1. TableOk(tables[c]) /\ Reinforced(tables[c], NoSource) /\ (erased => tables[c] = EmptyTables)
  BY ContextFacts
<1>2. DOMAIN Rest(c, TRUE) = DOMAIN Idle /\ Rest(c, TRUE).pc \in {"idle", "next"}
  BY RestIs
<1>3. Quiet(tables[c], Released(tables[c], Head1(c))) /\ Quiet(tables[c], Failed(tables[c], Head1(c)))
  BY <1>1, ClaimSettledQuiet
<1>4. erased => Released(tables[c], Head1(c)) = tables[c] /\ Failed(tables[c], Head1(c)) = tables[c]
  BY <1>1, NoClaimLeft
<1>5. CASE RunnerStep(c, Released(tables[c], Head1(c)), Rest(c, TRUE))
  BY <1>2, <1>3, <1>4, <1>5, LaneGoesOn
<1>6. CASE RunnerStep(c, Failed(tables[c], Head1(c)), Rest(c, TRUE))
  BY <1>2, <1>3, <1>4, <1>6, LaneGoesOn
<1> QED BY <1>5, <1>6 DEF FailJob

LEMMA PlanJobStep ==
  ASSUME ServiceInv, NEW c \in Contexts, PlanJob(c)
  PROVE  SafeStep
<1>1. /\ tables[c] \in Table /\ TableOk(tables[c]) /\ Reinforced(tables[c], NoSource)
      /\ Used(tables[c]) \subseteq Old(c) /\ DOMAIN runner[c] = DOMAIN Idle /\ (erased => tables[c] = EmptyTables)
  BY ContextFacts
<1>2. \A b : DOMAIN Rest(c, b) = DOMAIN Idle /\ Rest(c, b).pc \in {"idle", "next"}
  BY RestIs
<1>3. Quiet(tables[c], tables[c]) /\ Quiet(tables[c], Completed(tables[c], Head1(c)))
  BY <1>1, ClaimSettledQuiet, QuietSelf
<1>4. Head1(c).job.compiler = Compiler
  BY DEF PlanJob
<1>5. CASE erased /\ RunnerStep(c, tables[c], Rest(c, TRUE))
  BY <1>2, <1>3, <1>5, LaneGoesOn
<1>6. CASE ~erased /\ RunnerStep(c, Completed(tables[c], Head1(c)), Rest(c, FALSE))
  BY <1>2, <1>3, <1>6, LaneGoesOn
<1>7. CASE ~erased /\ \E plan \in {{}, Recallable(tables[c])} :
             RunnerStep(c, tables[c], [runner[c] EXCEPT !.pc = "stage", !.plan = plan])
  <2>1. PICK plan \in {{}, Recallable(tables[c])} :
             RunnerStep(c, tables[c], [runner[c] EXCEPT !.pc = "stage", !.plan = plan])
    BY <1>7
  <2> DEFINE rec == [runner[c] EXCEPT !.pc = "stage", !.plan = plan]
  <2>2. DOMAIN rec = DOMAIN Idle /\ rec.pc = "stage" /\ rec.plan = plan /\ rec.batch = runner[c].batch
    BY <1>1 DEF Idle
  <2>3. plan \subseteq Names
    BY <1>1, TableParts DEF Recallable, OpenUnits
  <2>4. Head(rec.batch).job.compiler = Compiler
    BY <1>4, <2>2 DEF Head1
  <2>5. Result(tables[c], tables[c], Nobody, NoSource, FALSE, Old(c))
    BY <1>1, <1>3, QuietResult
  <2> HIDE DEF rec
  <2> QED BY <2>1, <2>2, <2>3, <2>4, <2>5, LaneMoves DEF rec
<1> QED BY <1>5, <1>6, <1>7 DEF PlanJob

LEMMA StageJobStep ==
  ASSUME ServiceInv, NEW c \in Contexts, StageJob(c)
  PROVE  SafeStep
<1> DEFINE result == CompileClaimed(tables[c], Head1(c), runner[c].plan)
<1>1. /\ tables[c] \in Table /\ TableOk(tables[c]) /\ Reinforced(tables[c], NoSource)
      /\ Used(tables[c]) \subseteq Old(c) /\ DOMAIN runner[c] = DOMAIN Idle /\ RunnerOk(c)
      /\ (erased => tables[c] = EmptyTables)
  BY ContextFacts
<1>2. \A b : DOMAIN Rest(c, b) = DOMAIN Idle /\ Rest(c, b).pc \in {"idle", "next"}
  BY RestIs
<1>3. Quiet(tables[c], tables[c]) /\ Quiet(tables[c], Released(tables[c], Head1(c)))
  BY <1>1, ClaimSettledQuiet, QuietSelf
<1>4. Head1(c).job.compiler = Compiler /\ runner[c].plan \in SUBSET Names
  BY <1>1 DEF StageJob, RunnerOk
<1>5. CASE RunnerStep(c, tables[c], Rest(c, TRUE)) \/ RunnerStep(c, tables[c], Rest(c, FALSE))
  BY <1>2, <1>3, <1>5, LaneGoesOn
<1>6. CASE ~erased /\ RunnerStep(c, Released(tables[c], Head1(c)), Rest(c, TRUE))
  BY <1>2, <1>3, <1>6, LaneGoesOn
<1>7. CASE /\ ~erased /\ ClaimIsCurrent(tables[c], Head1(c)) /\ result # Refused
           /\ RunnerStep(c, tables[c], [runner[c] EXCEPT !.pc = "commit", !.base = Capture(c), !.snapshot = result])
  <2>1. Staged(result, tables[c], FALSE, NoSource, Used(tables[c]))
    BY <1>1, <1>4, <1>7, CompileClaimedStaged
  <2>2. Staged(result, tables[c], FALSE, NoSource, Old(c))
    BY <1>1, <2>1, StagedWider
  <2> HIDE DEF result
  <2> DEFINE rec == [runner[c] EXCEPT !.pc = "commit", !.base = Capture(c), !.snapshot = result]
  <2>3. DOMAIN rec = DOMAIN Idle /\ rec.pc = "commit" /\ rec.base = Capture(c) /\ rec.snapshot = result
    BY <1>1 DEF Idle
  <2>4. Capture(c) \in Table \X Nat /\ Capture(c)[1] = tables[c]
    BY <1>1 DEF Capture, ServiceInv, Shapes
  <2>5. Result(tables[c], tables[c], Nobody, NoSource, FALSE, Old(c))
    BY <1>1, <1>3, QuietResult
  <2> HIDE DEF rec
  <2>6. /\ rec.pc # "stage" /\ rec.base \in Table \X Nat
        /\ Staged(rec.snapshot, rec.base[1], FALSE, NoSource, Old(c))
    BY <2>2, <2>3, <2>4
  <2> QED BY <1>7, <2>3, <2>5, <2>6, LaneMoves DEF rec
<1> QED BY <1>5, <1>6, <1>7 DEF StageJob

LEMMA CommitJobStep ==
  ASSUME ServiceInv, NEW c \in Contexts, CommitJob(c)
  PROVE  SafeStep
<1>1. /\ tables[c] \in Table /\ TableOk(tables[c]) /\ Reinforced(tables[c], NoSource)
      /\ Used(tables[c]) \subseteq Old(c) /\ DOMAIN runner[c] = DOMAIN Idle /\ RunnerOk(c)
      /\ (erased => tables[c] = EmptyTables)
  BY ContextFacts
<1>2. CASE RunnerStep(c, Released(tables[c], Head1(c)), Rest(c, TRUE))
  <2>1. DOMAIN Rest(c, TRUE) = DOMAIN Idle /\ Rest(c, TRUE).pc \in {"idle", "next"}
    BY RestIs
  <2>2. Quiet(tables[c], Released(tables[c], Head1(c)))
    BY <1>1, ClaimSettledQuiet
  <2>3. erased => Released(tables[c], Head1(c)) = tables[c]
    BY <1>1, NoClaimLeft
  <2> QED BY <1>2, <2>1, <2>2, <2>3, LaneGoesOn
<1>3. CASE /\ RunnerStillBase(c) /\ ~erased
           /\ RunnerStep(c, runner[c].snapshot, [runner[c] EXCEPT !.pc = "check", !.plan = {},
                                                   !.base = <<>>, !.snapshot = <<>>])
  <2> DEFINE rec == [runner[c] EXCEPT !.pc = "check", !.plan = {}, !.base = <<>>, !.snapshot = <<>>]
  <2>1. DOMAIN rec = DOMAIN Idle /\ rec.pc = "check"
    BY <1>1 DEF Idle
  <2>2. Staged(runner[c].snapshot, tables[c], FALSE, NoSource, Old(c))
    <3>1. runner[c].pc = "commit" /\ runner[c].base = <<tables[c], deletion>>
      BY <1>3 DEF CommitJob, RunnerStillBase, Capture
    <3>2. Staged(runner[c].snapshot, runner[c].base[1], FALSE, NoSource, Old(c))
      BY <1>1, <3>1 DEF RunnerOk
    <3>3. runner[c].base[1] = tables[c]
      BY <3>1
    <3> QED BY <3>2, <3>3
  <2>3. Result(runner[c].snapshot, tables[c], Nobody, NoSource, FALSE, Old(c))
    BY <1>1, <2>2, StagedResult
  <2> HIDE DEF rec
  <2>4. rec.pc # "stage" /\ rec.pc # "commit"
    BY <2>1
  <2> QED BY <1>3, <2>1, <2>3, <2>4, LaneMoves DEF rec
<1> QED BY <1>2, <1>3 DEF CommitJob

LEMMA CheckJobStep ==
  ASSUME ServiceInv, NEW c \in Contexts, CheckJob(c)
  PROVE  SafeStep
<1>1. TableOk(tables[c]) /\ Reinforced(tables[c], NoSource) /\ DOMAIN runner[c] = DOMAIN Idle
  BY ContextFacts
<1>2. Quiet(tables[c], tables[c])
  BY <1>1, QuietSelf
<1>3. PICK promoted \in SUBSET Candidates(tables[c]) :
        RunnerStep(c, tables[c], IF promoted = {} THEN Rest(c, FALSE)
                                 ELSE [runner[c] EXCEPT !.pc = "apply", !.plan = promoted])
  BY DEF CheckJob
<1> DEFINE rec == IF promoted = {} THEN Rest(c, FALSE) ELSE [runner[c] EXCEPT !.pc = "apply", !.plan = promoted]
<1>4. DOMAIN Rest(c, FALSE) = DOMAIN Idle /\ Rest(c, FALSE).pc \in {"idle", "next"}
  BY RestIs
<1>5. DOMAIN rec = DOMAIN Idle /\ rec.pc \in {"idle", "next", "apply"}
  BY <1>1, <1>4 DEF Idle
<1>6. RunnerStep(c, tables[c], rec)
  BY <1>3
<1> HIDE DEF rec
<1> QED BY <1>2, <1>5, <1>6, LaneGoesOn

LEMMA Promotes ==
  ASSUME ServiceInv, NEW c \in Contexts, NEW STATE plan, ApplyPromotions(c, plan)
  PROVE  /\ \/ tables' = [tables EXCEPT ![c] = tables[c]]
            \/ /\ ~erased /\ Promoted(tables[c], plan) # Refused
               /\ tables' = [tables EXCEPT ![c] = Promoted(tables[c], plan)]
         /\ Quiet(tables[c], tables[c])
         /\ Promoted(tables[c], plan) # Refused => Quiet(tables[c], Promoted(tables[c], plan))
<1>1. TableOk(tables[c]) /\ Reinforced(tables[c], NoSource)
  BY ContextFacts
<1>2. tables \in [Contexts -> Table]
  BY DEF ServiceInv, Shapes
<1>3. tables = [tables EXCEPT ![c] = tables[c]]
  BY <1>2
<1> QED BY <1>1, <1>3, QuietSelf, PromotedQuiet DEF ApplyPromotions

LEMMA ApplyJobStep ==
  ASSUME ServiceInv, NEW c \in Contexts, ApplyJob(c)
  PROVE  SafeStep
<1> DEFINE b == erased \/ Promoted(tables[c], runner[c].plan) = Refused
           plan == runner[c].plan
<1>1. DOMAIN Rest(c, b) = DOMAIN Idle /\ Rest(c, b).pc \in {"idle", "next"}
  BY RestIs
<1>2. /\ ApplyPromotions(c, plan) /\ Run(c, Rest(c, b))
      /\ UNCHANGED <<deletion, erased, tasks, events, ledger, asked, tx, holder, told>>
  BY DEF ApplyJob
<1> HIDE DEF b, plan
<1>3. /\ \/ tables' = [tables EXCEPT ![c] = tables[c]]
         \/ /\ ~erased /\ Promoted(tables[c], plan) # Refused
            /\ tables' = [tables EXCEPT ![c] = Promoted(tables[c], plan)]
      /\ Quiet(tables[c], tables[c])
      /\ Promoted(tables[c], plan) # Refused => Quiet(tables[c], Promoted(tables[c], plan))
  BY <1>2, Promotes
<1>4. CASE tables' = [tables EXCEPT ![c] = tables[c]]
  <2>1. RunnerStep(c, tables[c], Rest(c, b))
    BY <1>2, <1>4 DEF RunnerStep
  <2> QED BY <1>1, <1>3, <2>1, LaneGoesOn
<1>5. CASE /\ ~erased /\ Promoted(tables[c], plan) # Refused
           /\ tables' = [tables EXCEPT ![c] = Promoted(tables[c], plan)]
  <2>1. RunnerStep(c, Promoted(tables[c], plan), Rest(c, b))
    BY <1>2, <1>5 DEF RunnerStep
  <2> QED BY <1>1, <1>3, <1>5, <2>1, LaneGoesOn
<1> QED BY <1>3, <1>4, <1>5

-----------------------------------------------------------------------------
(***************************************************************************)
(* Requests, one step after the other.                                     *)
(***************************************************************************)
LEMMA FinishIs ==
  ASSUME ServiceInv, NEW r \in Requests, NEW pc \in Over, Finish(r, pc)
  PROVE  /\ tx' = [tx EXCEPT ![r] = tx'[r]] /\ tx'[r] \in Transaction /\ tx'[r].pc = pc
         /\ tx' \in [Requests -> Transaction] /\ \A q \in Requests : q # r => tx'[q] = tx[q]
         /\ asked' = asked /\ runner' = runner
         /\ SnapshotOk(r)' /\ RetainOk(r)' /\ OthersOk(r)'
<1> DEFINE x == [NewTx(Verb(r)) EXCEPT !.pc = pc]
<1>1. tx \in [Requests -> Transaction]
  BY DEF ServiceInv, Shapes
<1>2. tx' = [tx EXCEPT ![r] = x] /\ asked' = asked /\ runner' = runner
  BY DEF Finish
<1>3. /\ x.pc = pc /\ x.plan = {} /\ x.target = NoSource /\ x.base = <<>> /\ x.snapshot = <<>>
      /\ x.events = {} /\ x.add = FALSE /\ x.observe = NoSource /\ x.job = Nobody
  BY DEF NewTx
<1>4. x \in Transaction
  <2>1. NewTx(Verb(r)) \in Transaction
    BY DEF NewTx, Transaction, Places
  <2>2. pc \in Places
    BY DEF Places
  <2> QED BY <2>1, <2>2 DEF Transaction
<1> HIDE DEF x
<1>5. tx'[r] = x /\ tx' \in [Requests -> Transaction] /\ \A q \in Requests : q # r => tx'[q] = tx[q]
  BY <1>1, <1>2, <1>4
<1>6. SnapshotOk(r)'
  BY <1>3, <1>5 DEF SnapshotOk
<1>7. RetainOk(r)'
  <2>1. tx'[r].pc \in {"claim", "stage"} \cup Over /\ ~tx'[r].add /\ tx'[r].observe = NoSource
    BY <1>3, <1>5
  <2> QED BY <2>1 DEF RetainOk
<1>8. OthersOk(r)'
  BY <1>3, <1>5 DEF OthersOk, Over
<1> QED BY <1>2, <1>3, <1>4, <1>5, <1>6, <1>7, <1>8

LEMMA FinishStep ==
  ASSUME ServiceInv, NEW r \in Requests, NEW pc \in Over, Finish(r, pc), UNCHANGED <<store, told>>
  PROVE  SafeStep
<1>1. /\ tx' = [tx EXCEPT ![r] = tx'[r]] /\ tx'[r] \in Transaction /\ tx'[r].pc = pc
      /\ tx' \in [Requests -> Transaction] /\ \A q \in Requests : q # r => tx'[q] = tx[q]
      /\ asked' = asked /\ runner' = runner /\ SnapshotOk(r)' /\ RetainOk(r)' /\ OthersOk(r)'
  BY FinishIs
<1>2. PICK x \in Transaction : x = tx'[r]
  BY <1>1
<1>3. UNCHANGED <<tables, deletion, erased, tasks, events, ledger, asked, runner, told>>
  BY <1>1 DEF store
<1> QED BY <1>1, <1>2, <1>3, RequestMoves

LEMMA RefuseStep ==
  ASSUME ServiceInv, NEW r \in Requests, Refuse(r)
  PROVE  SafeStep
BY FinishStep DEF Refuse, Over

LEMMA ReplayStep ==
  ASSUME ServiceInv, NEW r \in Requests, Replay(r)
  PROVE  SafeStep
<1>1. PICK pc \in {"done", "failed"} : Finish(r, pc) /\ UNCHANGED <<store, told>>
  BY DEF Replay
<1> QED BY <1>1, FinishStep DEF Over

\* A step to the next phase of a transaction that holds no snapshot.
LEMMA PhaseStep ==
  ASSUME ServiceInv, NEW r \in Requests, NEW pc \in Places, NEW plan \in SUBSET Names,
         tx' = [tx EXCEPT ![r].pc = pc, ![r].plan = plan],
         UNCHANGED <<store, asked, runner, told>>,
         tx[r].pc \in Over => pc \in Over, tx[r].pc \notin {"enqueue", "commit"},
         pc \notin {"reinforce", "enqueue"}, pc = "commit" => Verb(r) # "resource",
         Verb(r) = "retain" => tx[r].pc # "reinforce" /\ pc \in {"claim", "stage"} \cup Over
  PROVE  SafeStep
<1> DEFINE x == [tx[r] EXCEPT !.pc = pc, !.plan = plan]
<1>1. tx \in [Requests -> Transaction] /\ tx[r] \in Transaction
  BY DEF ServiceInv, Shapes
<1>2. tx' = [tx EXCEPT ![r] = x]
  BY <1>1 DEF Transaction
<1>3. /\ x \in Transaction /\ x.pc = pc /\ x.base = tx[r].base /\ x.target = tx[r].target
      /\ x.observe = tx[r].observe /\ x.add = tx[r].add /\ x.job = tx[r].job /\ x.events = tx[r].events
  BY <1>1 DEF Transaction
<1> HIDE DEF x
<1>4. tx'[r] = x /\ UNCHANGED <<tables, deletion, erased, tasks, events, ledger, asked, runner, told>>
  BY <1>1, <1>2 DEF store
<1>5. SnapshotOk(r) /\ RetainOk(r) /\ OthersOk(r) /\ Verb(r)' = Verb(r)
  BY <1>4, RequestFacts DEF Verb
<1>6. SnapshotOk(r)'
  BY <1>3, <1>4, <1>5 DEF SnapshotOk
<1>7. RetainOk(r)'
  BY <1>3, <1>4, <1>5 DEF RetainOk
<1>8. OthersOk(r)'
  BY <1>3, <1>4, <1>5 DEF OthersOk
<1> QED BY <1>2, <1>3, <1>4, <1>6, <1>7, <1>8, RequestMoves

LEMMA GotoStep ==
  ASSUME ServiceInv, NEW r \in Requests, NEW pc \in Places, Goto(r, pc), UNCHANGED <<store, asked, runner, told>>,
         tx[r].pc \in Over => pc \in Over, tx[r].pc \notin {"enqueue", "commit"},
         pc \notin {"reinforce", "enqueue"}, pc = "commit" => Verb(r) # "resource",
         Verb(r) = "retain" => tx[r].pc # "reinforce" /\ pc \in {"claim", "stage"} \cup Over
  PROVE  SafeStep
<1>1. tx \in [Requests -> Transaction] /\ tx[r] \in Transaction /\ tx[r].plan \in SUBSET Names
  BY DEF ServiceInv, Shapes, Transaction
<1>2. [tx[r] EXCEPT !.pc = pc] = [tx[r] EXCEPT !.pc = pc, !.plan = tx[r].plan]
  BY <1>1 DEF Transaction
<1>3. PICK plan \in SUBSET Names : plan = tx[r].plan
  BY <1>1
<1>4. tx' = [tx EXCEPT ![r].pc = pc, ![r].plan = plan]
  BY <1>1, <1>2, <1>3 DEF Goto
<1> QED BY <1>4, PhaseStep

LEMMA ProbeStep ==
  ASSUME ServiceInv, NEW r \in Requests, Probe(r)
  PROVE  SafeStep
<1>1. CASE Replay(r)
  BY <1>1, ReplayStep
<1>2. CASE Refuse(r)
  BY <1>2, RefuseStep
<1>3. CASE Goto(r, "prepare") /\ UNCHANGED <<store, asked, holder, runner, told>>
  <2>1. tx[r].pc = "probe" /\ RetainOk(r)
    BY RequestFacts DEF Probe
  <2>2. Verb(r) # "retain"
    BY <2>1 DEF RetainOk, Over
  <2>3. "prepare" \in Places
    BY DEF Places
  <2>4. UNCHANGED <<store, asked, runner, told>>
    BY <1>3
  <2>5. tx[r].pc \notin Over
    BY <2>1 DEF Over
  <2> QED BY <1>3, <2>1, <2>2, <2>3, <2>4, <2>5, GotoStep
<1> QED BY <1>1, <1>2, <1>3 DEF Probe

LEMMA UnitNames ==
  ASSUME ServiceInv, NEW c \in Contexts
  PROVE  /\ Recallable(tables[c]) \in SUBSET Names /\ VectorCandidates(tables[c]) \in SUBSET Names
         /\ Candidates(tables[c]) \in SUBSET Names
<1>1. tables[c] \in Table
  BY ContextFacts
<1>2. DOMAIN tables[c].units \subseteq Names
  BY <1>1, TableParts
<1> QED BY <1>2 DEF Recallable, VectorCandidates, Candidates, OpenUnits

LEMMA PrepareStep ==
  ASSUME ServiceInv, NEW r \in Requests, Prepare(r)
  PROVE  SafeStep
<1>1. CASE Refuse(r)
  BY <1>1, RefuseStep
<1>2. CASE ~Refuse(r)
  <2> DEFINE p == IF Verb(r) \in {"unit", "remember"} THEN Recallable(Live(r)) ELSE {}
  <2>1. tx' = [tx EXCEPT ![r].pc = "claim", ![r].plan = p] /\ UNCHANGED <<store, asked, runner, told>>
    BY <1>2 DEF Prepare
  <2>2. tx[r].pc = "prepare" /\ RetainOk(r) /\ Ctx(r) \in Contexts
    BY RequestFacts DEF Prepare
  <2>3. Verb(r) # "retain"
    BY <2>2 DEF RetainOk, Over
  <2>4. p \in SUBSET Names
    BY <2>2, UnitNames DEF Live
  <2>5. "claim" \in Places /\ tx[r].pc \notin Over
    BY <2>2 DEF Places, Over
  <2> HIDE DEF p
  <2>6. PICK plan \in SUBSET Names : plan = p
    BY <2>4
  <2> QED BY <2>1, <2>2, <2>3, <2>5, <2>6, PhaseStep
<1> QED BY <1>1, <1>2

LEMMA ClaimStep ==
  ASSUME ServiceInv, NEW r \in Requests, Claim(r)
  PROVE  SafeStep
<1>1. CASE Replay(r)
  BY <1>1, ReplayStep
<1>2. CASE Refuse(r)
  BY <1>2, RefuseStep
<1>3. CASE Goto(r, "stage") /\ UNCHANGED <<store, asked, runner, told>>
  <2>1. tx[r].pc = "claim"
    BY DEF Claim
  <2>2. "stage" \in Places /\ tx[r].pc \notin Over
    BY <2>1 DEF Places, Over
  <2> QED BY <1>3, <2>1, <2>2, GotoStep
<1> QED BY <1>1, <1>2, <1>3 DEF Claim

LEMMA StageEraseStep ==
  ASSUME ServiceInv, NEW r \in Requests, StageErase(r)
  PROVE  SafeStep
<1>1. tx[r].pc = "stage" /\ Verb(r) = "erase" /\ Goto(r, "commit") /\ UNCHANGED <<store, asked, runner, told>>
  BY DEF StageErase
<1>2. "commit" \in Places /\ tx[r].pc \notin Over
  BY <1>1 DEF Places, Over
<1> QED BY <1>1, <1>2, GotoStep

LEMMA MarkCheckStep ==
  ASSUME ServiceInv, NEW r \in Requests, MarkCheck(r)
  PROVE  SafeStep
<1>1. tx[r].pc = "check" /\ UNCHANGED <<store, asked, runner, told>>
  BY DEF MarkCheck
<1>2. {"done", "apply"} \subseteq Places /\ {"done", "apply"} \subseteq Over
  BY DEF Places, Over
<1>3. CASE Goto(r, "done")
  BY <1>1, <1>2, <1>3, GotoStep
<1>4. CASE \E promoted \in SUBSET Candidates(Live(r)) :
            tx' = [tx EXCEPT ![r].pc = IF promoted = {} THEN "done" ELSE "apply", ![r].plan = promoted]
  <2>1. Candidates(Live(r)) \in SUBSET Names
    BY RequestFacts, UnitNames DEF Live
  <2>2. PICK plan \in SUBSET Names :
            tx' = [tx EXCEPT ![r].pc = IF plan = {} THEN "done" ELSE "apply", ![r].plan = plan]
    BY <1>4, <2>1
  <2>3. PICK pc \in {"done", "apply"} : tx' = [tx EXCEPT ![r].pc = pc, ![r].plan = plan]
    BY <2>2
  <2> QED BY <1>1, <1>2, <2>3, PhaseStep
<1> QED BY <1>3, <1>4 DEF MarkCheck

LEMMA RecallReadStep ==
  ASSUME ServiceInv, NEW r \in Requests, RecallRead(r)
  PROVE  SafeStep
<1>1. CASE Refuse(r)
  BY <1>1, RefuseStep
<1>2. CASE ~Refuse(r)
  <2> DEFINE p == Recallable(Live(r)) \cup VectorCandidates(Live(r))
  <2>1. tx' = [tx EXCEPT ![r].pc = "trace", ![r].plan = p] /\ UNCHANGED <<store, asked, runner, told>>
    BY <1>2 DEF RecallRead
  <2>2. tx[r].pc = "read" /\ RetainOk(r) /\ Ctx(r) \in Contexts
    BY RequestFacts DEF RecallRead
  <2>3. Verb(r) # "retain"
    BY <2>2 DEF RetainOk, Over
  <2>4. p \in SUBSET Names
    BY <2>2, UnitNames DEF Live
  <2>5. "trace" \in Places /\ tx[r].pc \notin Over
    BY <2>2 DEF Places, Over
  <2> HIDE DEF p
  <2>6. PICK plan \in SUBSET Names : plan = p
    BY <2>4
  <2> QED BY <2>1, <2>2, <2>3, <2>5, <2>6, PhaseStep
<1> QED BY <1>1, <1>2


-----------------------------------------------------------------------------
(***************************************************************************)
(* Staging.                                                                *)
(***************************************************************************)
\* A result staged on a snapshot that is taken with it.
LEMMA SnapshotStep ==
  ASSUME ServiceInv, NEW r \in Requests, NEW STATE t2, tx[r].pc = "stage",
         Verb(r) \notin {"retain", "resource", "reflect", "task", "events", "erase"},
         t2 # Refused => Staged(t2, Live(r), Verb(r) \in Forgets, NoSource, Used(Live(r)) \cup {r}),
         StageOnSnapshot(r, t2)
  PROVE  SafeStep
<1>1. CASE Refuse(r)
  BY <1>1, RefuseStep
<1>2. CASE ~Refuse(r)
  <2>1. /\ TableOk(Live(r)) /\ Used(Live(r)) \subseteq Old(Ctx(r)) /\ Live(r) \in Table
        /\ SnapshotOk(r) /\ OthersOk(r) /\ tx[r] \in Transaction /\ Verb(r) \in Verbs /\ Ctx(r) \in Contexts
    BY RequestFacts
  <2>2. tx[r].base = <<>>
    BY <2>1 DEF SnapshotOk
  <2>3. Base(r) = <<Live(r), deletion>>
    BY <2>2 DEF Base, Capture, Live
  <2>4. /\ tx' = [tx EXCEPT ![r].pc = "commit", ![r].base = <<Live(r), deletion>>, ![r].snapshot = t2]
        /\ UNCHANGED <<store, asked, holder, runner, told>> /\ t2 # Refused
    BY <1>2, <2>3 DEF StageOnSnapshot
  <2>5. Staged(t2, Live(r), Verb(r) \in Forgets, NoSource, Used(Live(r)) \cup {r})
    BY <2>4
  <2>6. t2 \in Table /\ deletion \in Nat /\ tx \in [Requests -> Transaction] /\ "commit" \in Places
    BY <2>5 DEF Staged, TableOk, ServiceInv, Shapes, Places
  <2> DEFINE b == <<Live(r), deletion>>
             x == [tx[r] EXCEPT !.pc = "commit", !.base = b, !.snapshot = t2]
  <2>7. b \in Table \X Nat /\ b[1] = Live(r)
    BY <2>1, <2>6
  <2> HIDE DEF b
  <2>8. tx' = [tx EXCEPT ![r] = x]
    BY <2>1, <2>4, <2>6 DEF b, Transaction
  <2>9. /\ x \in Transaction /\ x.pc = "commit" /\ x.base = b /\ x.snapshot = t2 /\ x.target = tx[r].target
        /\ x.observe = tx[r].observe /\ x.add = tx[r].add /\ x.job = tx[r].job /\ x.events = tx[r].events
    BY <2>1, <2>6, <2>7 DEF Transaction
  <2> HIDE DEF x
  <2>10. /\ tx'[r] = x /\ UNCHANGED <<tables, deletion, erased, tasks, events, ledger, asked, runner, told>>
         /\ \A q \in Requests \ {r} : tx'[q] = tx[q]
    BY <2>4, <2>6, <2>8 DEF store
  <2>11. Verb(r)' = Verb(r) /\ Ctx(r)' = Ctx(r) /\ Live(r)' = Live(r)
    BY <2>10 DEF Verb, Ctx, Live
  <2>12. tx[r].observe = NoSource
    BY <2>1 DEF OthersOk
  <2>13. Old(Ctx(r)) \subseteq Old(Ctx(r))'
    BY <2>9, <2>10, <2>11 DEF Old, Ctx, Over
  <2>14. Staged(t2, Live(r), Verb(r) \in Forgets, NoSource, Old(Ctx(r))' \cup {r})
    <3>1. Used(Live(r)) \cup {r} \subseteq Old(Ctx(r))' \cup {r}
      BY <2>1, <2>13
    <3> QED BY <2>5, <3>1, StagedWider
  <2>15. SnapshotOk(r)'
    <3>1. JobsKept(Live(r), Live(r))
      BY SameJobsKept
    <3> QED BY <2>7, <2>9, <2>10, <2>11, <2>12, <2>14, <3>1 DEF SnapshotOk
  <2>16. RetainOk(r)'
    BY <2>11 DEF RetainOk
  <2>17. OthersOk(r)'
    BY <2>1, <2>9, <2>10, <2>11 DEF OthersOk
  <2>18. tx[r].pc \notin Over
    BY DEF Over
  <2> QED BY <2>8, <2>9, <2>10, <2>15, <2>16, <2>17, <2>18, RequestMoves
<1> QED BY <1>1, <1>2

\* The calls that stage on a snapshot find none, so they work on the live rows.
LEMMA StagesLive ==
  ASSUME ServiceInv, NEW r \in Requests, tx[r].pc = "stage"
  PROVE  /\ Snapshot(r) = Live(r) /\ TableOk(Live(r)) /\ Reinforced(Live(r), NoSource)
         /\ r \in Names \ Used(Live(r)) /\ tx[r].plan \in SUBSET Names
<1>1. /\ SnapshotOk(r) /\ TableOk(Live(r)) /\ Reinforced(Live(r), NoSource) /\ r \in Names
      /\ r \notin Used(Live(r)) /\ tx[r].plan \in SUBSET Names
  BY RequestFacts DEF Over
<1> QED BY <1>1 DEF SnapshotOk, Snapshot

LEMMA StatementStep ==
  ASSUME ServiceInv, NEW r \in Requests, tx[r].pc = "stage", Verb(r) \in {"remember", "unit"},
         StageOnSnapshot(r, Compile(Snapshot(r), r, tx[r].plan, r, NoSource, "active"))
  PROVE  SafeStep
<1>1. /\ Snapshot(r) = Live(r) /\ TableOk(Live(r)) /\ Reinforced(Live(r), NoSource)
      /\ r \in Names \ Used(Live(r)) /\ tx[r].plan \in SUBSET Names
  BY StagesLive
<1> DEFINE t2 == Compile(Live(r), r, tx[r].plan, r, NoSource, "active")
<1>2. r \notin DOMAIN Live(r).units /\ \A i \in DOMAIN Live(r).jobs : Live(r).jobs[i].id # r
  BY <1>1 DEF Used, JobIds
<1>3. t2 # Refused => Staged(t2, Live(r), FALSE, NoSource, Used(Live(r)) \cup {r})
  <2>1. PICK t : t = Live(r)
    OBVIOUS
  <2>2. PICK plan \in SUBSET Names : plan = tx[r].plan
    BY <1>1
  <2>3. \A i \in DOMAIN t.jobs : t.jobs[i].id # r
    BY <1>2, <2>1
  <2>4. Compile(t, r, plan, r, NoSource, "active") # Refused =>
          Staged(Compile(t, r, plan, r, NoSource, "active"), t, FALSE, NoSource, Used(t) \cup {r})
    BY <1>1, <1>2, <2>1, <2>3, CompileStaged
  <2> QED BY <2>1, <2>2, <2>4
<1>4. (Verb(r) \in Forgets) = FALSE
  BY DEF Forgets
<1>5. StageOnSnapshot(r, t2)
  BY <1>1
<1> HIDE DEF t2
<1> QED BY <1>3, <1>4, <1>5, SnapshotStep

LEMMA CorrectStep ==
  ASSUME ServiceInv, NEW r \in Requests, tx[r].pc = "stage", Verb(r) \in {"correct", "correct_memory", "invalidate", "mark"},
         NEW u \in Names, NEW STATE t2, StageOnSnapshot(r, t2),
         t2 \in {Correct(Snapshot(r), u, r), Invalidate(Snapshot(r), u, r), Review(Snapshot(r), u, r)}
  PROVE  SafeStep
<1>1. /\ Snapshot(r) = Live(r) /\ TableOk(Live(r)) /\ Reinforced(Live(r), NoSource) /\ r \in Names \ Used(Live(r))
  BY StagesLive
<1>2. t2 # Refused => Staged(t2, Live(r), FALSE, NoSource, Used(Live(r)) \cup {r})
  <2>1. PICK t : t = Live(r)
    OBVIOUS
  <2>2. /\ Correct(t, u, r) # Refused => Staged(Correct(t, u, r), t, FALSE, NoSource, Used(t) \cup {r})
        /\ Invalidate(t, u, r) # Refused => Staged(Invalidate(t, u, r), t, FALSE, NoSource, Used(t) \cup {r})
        /\ Review(t, u, r) # Refused => Staged(Review(t, u, r), t, FALSE, NoSource, Used(t) \cup {r})
    BY <1>1, <2>1, CorrectStaged, InvalidateStaged, ReviewStaged
  <2>3. t2 = Correct(t, u, r) \/ t2 = Invalidate(t, u, r) \/ t2 = Review(t, u, r)
    BY <1>1, <2>1
  <2>4. CASE t2 = Correct(t, u, r)
    BY <2>1, <2>2, <2>4
  <2>5. CASE t2 = Invalidate(t, u, r)
    BY <2>1, <2>2, <2>5
  <2>6. CASE t2 = Review(t, u, r)
    BY <2>1, <2>2, <2>6
  <2> QED BY <2>3, <2>4, <2>5, <2>6
<1>3. (Verb(r) \in Forgets) = FALSE
  BY DEF Forgets
<1> QED BY <1>2, <1>3, SnapshotStep

LEMMA ForgetStep ==
  ASSUME ServiceInv, NEW r \in Requests, StageForget(r)
  PROVE  SafeStep
<1>1. tx[r].pc = "stage" /\ Verb(r) \in {"forget_unit", "forget_source"}
  BY DEF StageForget
<1>2. PICK x \in Names : StageOnSnapshot(r, IF Verb(r) = "forget_unit" THEN ForgetUnit(Snapshot(r), x)
                                            ELSE ForgetSource(Snapshot(r), x))
  BY DEF StageForget
<1>3. /\ Snapshot(r) = Live(r) /\ TableOk(Live(r)) /\ Reinforced(Live(r), NoSource) /\ r \in Names \ Used(Live(r))
  BY <1>1, StagesLive
<1> DEFINE t2 == IF Verb(r) = "forget_unit" THEN ForgetUnit(Live(r), x) ELSE ForgetSource(Live(r), x)
<1>4. t2 # Refused => Staged(t2, Live(r), TRUE, NoSource, Used(Live(r)) \cup {r})
  <2>1. PICK t : t = Live(r)
    OBVIOUS
  <2>2. /\ ForgetUnit(t, x) # Refused => Staged(ForgetUnit(t, x), t, TRUE, NoSource, Used(t) \cup {r})
        /\ ForgetSource(t, x) # Refused => Staged(ForgetSource(t, x), t, TRUE, NoSource, Used(t) \cup {r})
    BY <1>3, <2>1, ForgetUnitStaged, ForgetSourceStaged
  <2> QED BY <2>1, <2>2
<1>5. (Verb(r) \in Forgets) = TRUE
  BY <1>1 DEF Forgets
<1>6. StageOnSnapshot(r, t2)
  BY <1>2, <1>3
<1> HIDE DEF t2
<1> QED BY <1>1, <1>4, <1>5, <1>6, SnapshotStep

\* Rows that are added at commit.
LEMMA RowsStep ==
  ASSUME ServiceInv, NEW r \in Requests, NEW job \in Names \cup {NoSource, Nobody}, NEW added \in SUBSET Event,
         StageRows(r, job, added), tx[r].pc = "stage", Verb(r) \in {"resource", "reflect", "task", "events"},
         Verb(r) = "resource" => job = r, Verb(r) = "reflect" => job = NoSource,
         Verb(r) \in {"task", "events"} => job = Nobody,
         added # {} => Verb(r) \in {"task", "events"},
         \A e \in added : Verb(r) = "task" => e.task = r /\ e.kind = "shown",
         \A e \in added : Verb(r) = "events" =>
           e.task \in tasks /\ (e.kind = "helpful" => [e EXCEPT !.kind = "shown"] \in events)
  PROVE  SafeStep
<1>1. SnapshotOk(r) /\ OthersOk(r) /\ tx[r] \in Transaction /\ r \in Names /\ r # NoSource /\ r # Nobody
  BY RequestFacts
<1> DEFINE add == job # NoSource
           x == [tx[r] EXCEPT !.pc = "commit", !.add = add, !.job = job, !.events = added]
<1>2. /\ tx' = [tx EXCEPT ![r].pc = "commit", ![r].add = add, ![r].job = job, ![r].events = added]
      /\ UNCHANGED <<store, asked, runner, told>>
  BY DEF StageRows
<1>3. tx \in [Requests -> Transaction] /\ "commit" \in Places /\ add \in BOOLEAN
  BY DEF ServiceInv, Shapes, Places
<1>4. tx' = [tx EXCEPT ![r] = x]
  BY <1>1, <1>2, <1>3 DEF Transaction
<1> HIDE DEF add
<1>5. /\ x \in Transaction /\ x.pc = "commit" /\ x.base = tx[r].base /\ x.target = tx[r].target
      /\ x.observe = tx[r].observe /\ x.add = add /\ x.job = job /\ x.events = added
  BY <1>1, <1>3 DEF Transaction
<1> HIDE DEF x
<1>6. tx'[r] = x /\ UNCHANGED <<tables, deletion, erased, tasks, events, ledger, asked, runner, told>>
  BY <1>2, <1>3, <1>4 DEF store
<1>7. Verb(r)' = Verb(r)
  BY <1>6 DEF Verb
<1>8. SnapshotOk(r)'
  BY <1>1, <1>5, <1>6 DEF SnapshotOk
<1>9. RetainOk(r)'
  BY <1>7 DEF RetainOk
<1>10. OthersOk(r)'
  <2>1. tx'[r].target = NoSource /\ tx'[r].observe = NoSource
    BY <1>1, <1>5, <1>6 DEF OthersOk
  <2>2. Verb(r) = "resource" => tx'[r].add /\ tx'[r].job = r
    BY <1>1, <1>5, <1>6 DEF add
  <2>3. Verb(r) = "reflect" => ~tx'[r].add /\ tx'[r].job \in {Nobody, NoSource}
    BY <1>5, <1>6 DEF add
  <2>4. tx'[r].pc = "commit" /\ tx'[r].job = job /\ tx'[r].events = added /\ tasks' = tasks /\ events' = events
    BY <1>5, <1>6
  <2> QED BY <1>7, <2>1, <2>2, <2>3, <2>4 DEF OthersOk
<1>11. tx[r].pc \notin Over
  BY DEF Over
<1> QED BY <1>4, <1>5, <1>6, <1>8, <1>9, <1>10, <1>11, RequestMoves

LEMMA StageResourceStep ==
  ASSUME ServiceInv, NEW r \in Requests, StageResource(r) \/ StageReflect(r)
  PROVE  SafeStep
<1>1. r \in Names /\ {} \in SUBSET Event
  BY RequestFacts
<1>2. PICK job \in Names \cup {NoSource, Nobody}, added \in SUBSET Event :
         /\ StageRows(r, job, added) /\ added = {} /\ tx[r].pc = "stage" /\ Verb(r) \in {"resource", "reflect"}
         /\ Verb(r) = "resource" => job = r
         /\ Verb(r) = "reflect" => job = NoSource
  BY <1>1 DEF StageResource, StageReflect
<1> QED BY <1>2, RowsStep

LEMMA StageTaskStep ==
  ASSUME ServiceInv, NEW r \in Requests, StageTaskOutcome(r)
  PROVE  SafeStep
<1>1. tx[r].pc = "stage" /\ Verb(r) = "task"
  BY DEF StageTaskOutcome
<1>2. PICK shown \in {{}} \cup {{u} : u \in Names} : stage_task_outcome(r, shown)
  BY DEF StageTaskOutcome
<1>3. CASE Refuse(r)
  BY <1>3, RefuseStep
<1>4. CASE ~Refuse(r)
  <2> DEFINE added == {[task |-> r, unit |-> u, kind |-> "shown"] : u \in shown}
  <2>1. StageRows(r, Nobody, added)
    BY <1>2, <1>4 DEF stage_task_outcome
  <2>2. shown \subseteq Names
    OBVIOUS
  <2>3. added \in SUBSET Event
    BY <2>2 DEF Event
  <2>4. \A e \in added : e.task = r /\ e.kind = "shown"
    OBVIOUS
  <2> HIDE DEF added
  <2>5. Nobody \in Names \cup {NoSource, Nobody}
    OBVIOUS
  <2> QED BY <1>1, <2>1, <2>3, <2>4, <2>5, RowsStep
<1> QED BY <1>3, <1>4

LEMMA StageEventsStep ==
  ASSUME ServiceInv, NEW r \in Requests, StageTaskEvents(r)
  PROVE  SafeStep
<1>1. tx[r].pc = "stage" /\ Verb(r) = "events"
  BY DEF StageTaskEvents
<1>2. PICK task \in Requests, u \in Names, kind \in {"helpful", "silenced"} :
        stage_task_memory_events(r, [task |-> task, unit |-> u, kind |-> kind])
  BY DEF StageTaskEvents
<1>3. PICK e \in Event : e = [task |-> task, unit |-> u, kind |-> kind]
  BY DEF Event
<1>4. stage_task_memory_events(r, e)
  BY <1>2, <1>3
<1>5. CASE Refuse(r)
  BY <1>5, RefuseStep
<1>6. CASE ~Refuse(r)
  <2> DEFINE added == {e}
  <2>1. StageRows(r, Nobody, added) /\ e.task \in tasks /\ (e.kind = "helpful" => [e EXCEPT !.kind = "shown"] \in events)
    BY <1>4, <1>6 DEF stage_task_memory_events, Exposed
  <2>2. /\ added \in SUBSET Event
        /\ \A f \in added : f.task \in tasks /\ (f.kind = "helpful" => [f EXCEPT !.kind = "shown"] \in events)
    BY <2>1
  <2> HIDE DEF added
  <2>3. Nobody \in Names \cup {NoSource, Nobody}
    OBVIOUS
  <2> QED BY <1>1, <2>1, <2>2, <2>3, RowsStep
<1> QED BY <1>5, <1>6

\* What a step of a retain leaves to show.
LEMMA RetainMoves ==
  ASSUME ServiceInv, NEW r \in Requests, Verb(r) = "retain", NEW x \in Transaction, tx' = [tx EXCEPT ![r] = x],
         UNCHANGED <<store, asked, runner, told>>, tx[r].pc \notin Over, x.events = tx[r].events,
         x.base # <<>> =>
           /\ x.pc \in {"enqueue", "commit"} /\ r \notin Used(x.snapshot)
           /\ Staged(x.snapshot, x.base[1], FALSE, x.observe, Old(Ctx(r)) \cup {r})
           /\ erased \/ JobsKept(x.base[1], Live(r)),
         \/ /\ x.pc \in {"enqueue", "commit"} /\ x.add /\ x.target = r
            /\ x.observe = NoSource /\ x.base = <<>> /\ (x.pc = "commit" => x.job = r)
         \/ /\ x.pc \in {"reinforce", "enqueue", "commit"} /\ ~x.add
            /\ x.target \in Names /\ x.observe = x.target
            /\ erased \/ HasHome(Live(r), x.target)
            /\ x.pc # "reinforce" => x.base # <<>>
            /\ x.pc = "commit" => x.job = Nobody \/ (x.job = x.target /\ SameJob(x.base[1], x.target) = {})
  PROVE  SafeStep
<1>1. tx \in [Requests -> Transaction] /\ OthersOk(r)
  BY RequestFacts DEF ServiceInv, Shapes
<1>2. /\ tx'[r] = x /\ UNCHANGED <<tables, deletion, erased, tasks, events, ledger, asked, runner, told>>
      /\ \A q \in Requests \ {r} : tx'[q] = tx[q]
  BY <1>1 DEF store
<1>3. Verb(r)' = Verb(r) /\ Ctx(r)' = Ctx(r) /\ Live(r)' = Live(r)
  BY <1>2 DEF Verb, Ctx, Live
<1>4. Old(Ctx(r)) \cup {r} \subseteq Old(Ctx(r))' \cup {r}
  BY <1>2, <1>3 DEF Old, Ctx
<1>5. SnapshotOk(r)'
  <2>1. (Verb(r) \in Forgets) = FALSE
    BY DEF Forgets
  <2>2. x.base # <<>> => Staged(x.snapshot, x.base[1], FALSE, x.observe, Old(Ctx(r))' \cup {r})
    BY <1>4, StagedWider
  <2> QED BY <1>2, <1>3, <2>1, <2>2 DEF SnapshotOk
<1>6. RetainOk(r)'
  BY <1>2, <1>3 DEF RetainOk
<1>7. OthersOk(r)'
  BY <1>1, <1>2, <1>3 DEF OthersOk
<1> QED BY <1>2, <1>5, <1>6, <1>7, RequestMoves

LEMMA StageEpisodeStep ==
  ASSUME ServiceInv, NEW r \in Requests, StageEpisode(r)
  PROVE  SafeStep
<1>1. tx[r].pc = "stage" /\ Verb(r) = "retain" /\ UNCHANGED <<store, asked, runner, told>>
  BY DEF StageEpisode
<1>2. /\ SnapshotOk(r) /\ RetainOk(r) /\ tx[r] \in Transaction /\ r \in Names /\ TableOk(Live(r))
      /\ tx \in [Requests -> Transaction] /\ "enqueue" \in Places /\ "reinforce" \in Places
  BY RequestFacts DEF ServiceInv, Shapes, Places
<1>3. tx[r].base = <<>> /\ tx[r].add = FALSE /\ tx[r].observe = NoSource /\ tx[r].pc \notin Over
  BY <1>1, <1>2 DEF SnapshotOk, RetainOk, Transaction, Over
<1>4. CASE tx' = [tx EXCEPT ![r].pc = "enqueue", ![r].add = TRUE, ![r].target = r]
  <2> DEFINE x == [tx[r] EXCEPT !.pc = "enqueue", !.add = TRUE, !.target = r]
  <2>1. tx' = [tx EXCEPT ![r] = x]
    BY <1>2, <1>4 DEF Transaction
  <2>2. /\ x \in Transaction /\ x.pc = "enqueue" /\ x.add = TRUE /\ x.target = r /\ x.base = <<>>
        /\ x.observe = NoSource /\ x.events = tx[r].events
    BY <1>2, <1>3 DEF Transaction
  <2> HIDE DEF x
  <2>3. PICK y \in Transaction : y = x
    BY <2>2
  <2> QED BY <1>1, <1>3, <2>1, <2>2, <2>3, RetainMoves
<1>5. CASE \E e \in SameStatement(Live(r)) :
              tx' = [tx EXCEPT ![r].pc = "reinforce", ![r].observe = e, ![r].target = e]
  <2>1. PICK e \in DOMAIN Live(r).episodes :
              tx' = [tx EXCEPT ![r].pc = "reinforce", ![r].observe = e, ![r].target = e]
    BY <1>5 DEF SameStatement
  <2> DEFINE x == [tx[r] EXCEPT !.pc = "reinforce", !.observe = e, !.target = e]
  <2>2. e \in Names /\ HasHome(Live(r), e)
    <3>1. PICK t : t = Live(r)
      OBVIOUS
    <3>2. TableOk(t) /\ t \in Table /\ e \in Rows(t)
      BY <1>2, <3>1 DEF TableOk, Rows
    <3>3. DOMAIN t.episodes \subseteq Names
      BY <3>2, TableParts
    <3> QED BY <3>1, <3>2, <3>3 DEF TableOk, Queue
  <2>3. tx' = [tx EXCEPT ![r] = x]
    BY <1>2, <2>1 DEF Transaction
  <2>4. /\ x \in Transaction /\ x.pc = "reinforce" /\ x.add = FALSE /\ x.target = e /\ x.base = <<>>
        /\ x.observe = e /\ x.events = tx[r].events
    BY <1>2, <1>3, <2>2 DEF Transaction
  <2> HIDE DEF x
  <2>5. PICK y \in Transaction : y = x
    BY <2>4
  <2> QED BY <1>1, <1>3, <2>2, <2>3, <2>4, <2>5, RetainMoves
<1> QED BY <1>4, <1>5 DEF StageEpisode

LEMMA StageReinforceStep ==
  ASSUME ServiceInv, NEW r \in Requests, StageReinforce(r)
  PROVE  SafeStep
<1>1. CASE Refuse(r)
  BY <1>1, RefuseStep
<1>2. CASE ~Refuse(r)
  <2>1. tx[r].pc = "reinforce" /\ tx[r].pc \notin Over
    BY DEF StageReinforce, Over
  <2>2. /\ SnapshotOk(r) /\ RetainOk(r) /\ OthersOk(r) /\ tx[r] \in Transaction /\ r \in Names
        /\ TableOk(Live(r)) /\ Reinforced(Live(r), NoSource) /\ Live(r) \in Table /\ r # NoSource
        /\ r \notin Used(Live(r)) /\ Used(Live(r)) \subseteq Old(Ctx(r)) /\ r \notin Old(Ctx(r))
        /\ tx \in [Requests -> Transaction] /\ "enqueue" \in Places /\ deletion \in Nat
    BY <2>1, RequestFacts DEF ServiceInv, Shapes, Places
  <2>3. /\ Verb(r) = "retain" /\ tx[r].base = <<>> /\ tx[r].add = FALSE
        /\ tx[r].target \in Names /\ tx[r].observe = tx[r].target
    BY <2>1, <2>2 DEF OthersOk, SnapshotOk, RetainOk, Transaction, Over
  <2>4. PICK e \in Names : e = tx[r].target
    BY <2>3
  <2> DEFINE b == <<Live(r), deletion>>
             t2 == Reinforce(Live(r), e, r)
             x == [tx[r] EXCEPT !.pc = "enqueue", !.base = b, !.snapshot = t2]
  <2>5. Base(r) = b /\ Snapshot(r) = Live(r)
    BY <2>3 DEF Base, Capture, Live, Snapshot
  <2>6. ~erased /\ HasHome(Live(r), e) /\ UNCHANGED <<store, asked, runner, told>>
        /\ tx' = [tx EXCEPT ![r].pc = "enqueue", ![r].base = b, ![r].snapshot = t2]
    <3>1. ~erased /\ UNCHANGED <<store, asked, runner, told>>
        /\ tx' = [tx EXCEPT ![r].pc = "enqueue", ![r].base = b, ![r].snapshot = t2]
      BY <1>2, <2>4, <2>5 DEF StageReinforce
    <3> HIDE DEF b, t2
    <3> QED BY <2>1, <2>2, <2>3, <2>4, <3>1 DEF RetainOk, Over
  <2>7. Staged(t2, Live(r), FALSE, e, Used(Live(r)) \cup {NoSource})
                /\ Staged(t2, Live(r), FALSE, e, Used(Live(r)) \cup {r})
    <3>1. PICK t : t = Live(r)
      OBVIOUS
    <3> QED BY <2>2, <3>1, ReinforceStaged
  <2> HIDE DEF t2
  <2>8. r \notin Used(t2) /\ t2 \in Table
    BY <2>2, <2>7 DEF Staged, TableOk
  <2>9. Staged(t2, Live(r), FALSE, e, Old(Ctx(r)) \cup {r})
    <3>1. Used(Live(r)) \cup {r} \subseteq Old(Ctx(r)) \cup {r}
      BY <2>2
    <3> QED BY <2>7, <3>1, StagedWider
  <2>10. b \in Table \X Nat /\ b[1] = Live(r) /\ b # <<>>
    BY <2>2
  <2> HIDE DEF b
  <2>11. tx' = [tx EXCEPT ![r] = x]
    BY <2>2, <2>6 DEF Transaction
  <2>12. /\ x \in Transaction /\ x.pc = "enqueue" /\ x.add = FALSE /\ x.target = e /\ x.base = b
         /\ x.observe = e /\ x.events = tx[r].events /\ x.snapshot = t2
    BY <2>2, <2>3, <2>4, <2>8, <2>10 DEF Transaction
  <2> HIDE DEF x
  <2>13. PICK y \in Transaction : y = x
    BY <2>12
  <2>14. JobsKept(Live(r), Live(r))
    BY SameJobsKept
  <2>15. y.base # <<>> =>
           /\ y.pc \in {"enqueue", "commit"} /\ r \notin Used(y.snapshot)
           /\ Staged(y.snapshot, y.base[1], FALSE, y.observe, Old(Ctx(r)) \cup {r})
           /\ erased \/ JobsKept(y.base[1], Live(r))
    BY <2>8, <2>9, <2>10, <2>12, <2>13, <2>14
  <2>16. /\ y.pc \in {"reinforce", "enqueue", "commit"} /\ ~y.add
         /\ y.target \in Names /\ y.observe = y.target
         /\ erased \/ HasHome(Live(r), y.target)
         /\ y.pc # "reinforce" => y.base # <<>>
         /\ y.pc # "commit"
    BY <2>4, <2>6, <2>10, <2>12, <2>13
  <2> QED BY <2>1, <2>3, <2>6, <2>11, <2>12, <2>13, <2>15, <2>16, RetainMoves
<1> QED BY <1>1, <1>2

LEMMA EnqueueStep ==
  ASSUME ServiceInv, NEW r \in Requests, Enqueue(r)
  PROVE  SafeStep
<1>1. CASE Refuse(r)
  BY <1>1, RefuseStep
<1>2. CASE ~Refuse(r)
  <2> DEFINE e == tx[r].target
             j == IF SameJob(Live(r), e) = {} THEN e ELSE Nobody
             x == [tx[r] EXCEPT !.pc = "commit", !.job = j]
  <2>1. tx[r].pc = "enqueue" /\ tx[r].pc \notin Over
    BY DEF Enqueue, Over
  <2>2. /\ SnapshotOk(r) /\ RetainOk(r) /\ OthersOk(r) /\ tx[r] \in Transaction /\ r \in Names
        /\ TableOk(Live(r)) /\ r \notin Used(Live(r)) /\ Ctx(r) \in Contexts
        /\ tx \in [Requests -> Transaction] /\ "commit" \in Places
    BY <2>1, RequestFacts DEF ServiceInv, Shapes, Places
  <2>3. Verb(r) = "retain"
    BY <2>1, <2>2 DEF OthersOk
  <2>4. UNCHANGED <<store, asked, runner, told>> /\ tx' = [tx EXCEPT ![r].pc = "commit", ![r].job = j]
          /\ (tx[r].add \/ e \in DOMAIN Live(r).episodes)
    BY <1>2 DEF Enqueue
  <2>5. j \in Names \cup {NoSource, Nobody} /\ (j = Nobody \/ (j = e /\ SameJob(Live(r), e) = {}))
    BY <2>2 DEF Transaction
  <2>6. \A i \in DOMAIN Live(r).jobs : Live(r).jobs[i].source # r
    <3>1. PICK t : t = Live(r)
      OBVIOUS
    <3>2. ASSUME NEW i \in DOMAIN t.jobs, t.jobs[i].source = r PROVE FALSE
      <4>1. r # NoSource /\ r \notin JobIds(t)
        BY <2>2, <3>1, RequestFacts DEF Used
      <4>2. HasHome(t, r)
        BY <2>2, <3>1, <3>2, <4>1 DEF TableOk, Queue
      <4> QED BY <4>1, <4>2 DEF HasHome, IsJob, JobIds
    <3> QED BY <3>1, <3>2
  <2>7. e = r => j = r
    BY <2>6 DEF SameJob
  <2>8. ~tx[r].add => ~erased
    <3>1. erased => Live(r) = EmptyTables
      BY <2>2, ContextFacts DEF Live
    <3>2. DOMAIN EmptyTables.episodes = {}
      BY DEF EmptyTables
    <3> QED BY <2>4, <3>1, <3>2
  <2>9. ASSUME tx[r].base # <<>>, ~tx[r].add, j # Nobody
        PROVE  SameJob(tx[r].base[1], e) = {}
    <3>1. JobsKept(tx[r].base[1], Live(r))
      BY <2>2, <2>8, <2>9 DEF SnapshotOk
    <3>2. SameJob(Live(r), e) = {}
      BY <2>5, <2>9
    <3> HIDE DEF e
    <3> QED BY <3>1, <3>2 DEF JobsKept, SameJob
  <2> HIDE DEF j
  <2>10. tx' = [tx EXCEPT ![r] = x]
    BY <2>2, <2>4 DEF Transaction
  <2>11. /\ x \in Transaction /\ x.pc = "commit" /\ x.add = tx[r].add /\ x.target = e /\ x.base = tx[r].base
         /\ x.observe = tx[r].observe /\ x.events = tx[r].events /\ x.snapshot = tx[r].snapshot /\ x.job = j
    BY <2>2, <2>5 DEF Transaction
  <2> HIDE DEF x
  <2>12. PICK y \in Transaction : y = x
    BY <2>11
  <2>13. y.base # <<>> =>
           /\ y.pc \in {"enqueue", "commit"} /\ r \notin Used(y.snapshot)
           /\ Staged(y.snapshot, y.base[1], FALSE, y.observe, Old(Ctx(r)) \cup {r})
           /\ erased \/ JobsKept(y.base[1], Live(r))
    <3>1. (Verb(r) \in Forgets) = FALSE
      BY <2>3 DEF Forgets
    <3> QED BY <2>2, <2>3, <2>11, <2>12, <3>1 DEF SnapshotOk
  <2>14. CASE tx[r].add
    <3>1. y.pc = "commit" /\ y.add /\ y.target = r /\ y.observe = NoSource /\ y.base = <<>> /\ y.job = r
      BY <2>1, <2>2, <2>3, <2>7, <2>11, <2>12, <2>14 DEF RetainOk, Over
    <3> QED BY <2>1, <2>3, <2>4, <2>10, <2>11, <2>12, <2>13, <3>1, RetainMoves
  <2>15. CASE ~tx[r].add
    <3>1. /\ e \in Names /\ tx[r].observe = e /\ (erased \/ HasHome(Live(r), e)) /\ tx[r].base # <<>>
      BY <2>1, <2>2, <2>3, <2>15 DEF RetainOk, Over
    <3>2. y.job = Nobody \/ (y.job = y.target /\ SameJob(y.base[1], y.target) = {})
      BY <2>5, <2>9, <2>11, <2>12, <2>15, <3>1
    <3>3. /\ y.pc = "commit" /\ ~y.add /\ y.target \in Names /\ y.observe = y.target
          /\ erased \/ HasHome(Live(r), y.target)
          /\ y.base # <<>>
      BY <2>11, <2>12, <2>15, <3>1
    <3> QED BY <2>1, <2>3, <2>4, <2>10, <2>11, <2>12, <2>13, <3>2, <3>3, RetainMoves
  <2> QED BY <2>14, <2>15
<1> QED BY <1>1, <1>2

-----------------------------------------------------------------------------
(***************************************************************************)
(* Direct calls of a request.                                              *)
(***************************************************************************)
LEMMA DirectStep ==
  ASSUME ServiceInv, NEW r \in Requests, NEW c \in Contexts, NEW STATE t2, tables' = [tables EXCEPT ![c] = t2],
         Quiet(tables[c], t2), erased => t2 = tables[c],
         UNCHANGED <<deletion, erased, tasks, events, ledger, asked, runner, told>>,
         tx' \in [Requests -> Transaction], \A q \in Requests : q # r => tx'[q] = tx[q],
         tx'[r].pc \in Over, SnapshotOk(r)', RetainOk(r)', OthersOk(r)'
  PROVE  SafeStep
<1>1. tables[c] \in Table /\ Used(tables[c]) \subseteq Old(c)
  BY ContextFacts
<1>2. Result(t2, tables[c], Nobody, NoSource, FALSE, Old(c))
  BY <1>1, QuietResult
<1>3. DOMAIN runner' = Contexts /\ \A d \in Contexts : runner'[d] = runner[d]
  BY DEF ServiceInv, Shapes
<1> QED BY <1>2, <1>3, QuietMoves

LEMMA MarkApplyStep ==
  ASSUME ServiceInv, NEW r \in Requests, MarkApply(r)
  PROVE  SafeStep
<1> DEFINE x == [tx[r] EXCEPT !.pc = "done", !.plan = {}]
<1>1. /\ tx[r] \in Transaction /\ Ctx(r) \in Contexts /\ SnapshotOk(r) /\ RetainOk(r) /\ OthersOk(r)
      /\ tx \in [Requests -> Transaction] /\ "done" \in Places /\ "done" \in Over
  BY RequestFacts DEF ServiceInv, Shapes, Places, Over
<1>2. /\ tx[r].pc = "apply" /\ ApplyPromotions(Ctx(r), tx[r].plan)
      /\ tx' = [tx EXCEPT ![r].pc = "done", ![r].plan = {}]
      /\ UNCHANGED <<deletion, erased, tasks, events, ledger, asked, runner, told>>
  BY DEF MarkApply
<1>3. tx' = [tx EXCEPT ![r] = x]
  BY <1>1, <1>2 DEF Transaction
<1>4. /\ x \in Transaction /\ x.pc = "done" /\ x.base = tx[r].base /\ x.target = tx[r].target /\ x.add = tx[r].add
      /\ x.observe = tx[r].observe /\ x.job = tx[r].job /\ x.events = tx[r].events
  BY <1>1 DEF Transaction
<1> HIDE DEF x
<1>5. tx'[r] = x /\ tx' \in [Requests -> Transaction] /\ \A q \in Requests : q # r => tx'[q] = tx[q]
  BY <1>1, <1>3, <1>4
<1>6. Verb(r)' = Verb(r)
  BY <1>2 DEF Verb
<1>7. SnapshotOk(r)'
  BY <1>1, <1>2, <1>4, <1>5 DEF SnapshotOk
<1>8. RetainOk(r)'
  BY <1>1, <1>2, <1>4, <1>5, <1>6 DEF RetainOk
<1>9. OthersOk(r)'
  BY <1>1, <1>2, <1>4, <1>5, <1>6 DEF OthersOk
<1>10. PICK c \in Contexts : c = Ctx(r)
  BY <1>1
<1>11. PICK plan : plan = tx[r].plan
  OBVIOUS
<1>12. /\ \/ tables' = [tables EXCEPT ![c] = tables[c]]
          \/ /\ ~erased /\ Promoted(tables[c], plan) # Refused
             /\ tables' = [tables EXCEPT ![c] = Promoted(tables[c], plan)]
       /\ Quiet(tables[c], tables[c])
       /\ Promoted(tables[c], plan) # Refused => Quiet(tables[c], Promoted(tables[c], plan))
  BY <1>2, <1>10, <1>11, Promotes
<1>13. tx'[r].pc \in Over
  BY <1>1, <1>4, <1>5
<1>14. CASE tables' = [tables EXCEPT ![c] = tables[c]]
  BY <1>2, <1>5, <1>7, <1>8, <1>9, <1>12, <1>13, <1>14, DirectStep
<1>15. CASE /\ ~erased /\ Promoted(tables[c], plan) # Refused
            /\ tables' = [tables EXCEPT ![c] = Promoted(tables[c], plan)]
  BY <1>2, <1>5, <1>7, <1>8, <1>9, <1>12, <1>13, <1>15, DirectStep
<1> QED BY <1>12, <1>14, <1>15

LEMMA StoreTraceStep ==
  ASSUME ServiceInv, NEW r \in Requests, StoreTrace(r)
  PROVE  SafeStep
<1>1. CASE Refuse(r)
  BY <1>1, RefuseStep
<1>2. CASE ~Refuse(r)
  <2>1. PICK c \in Contexts : c = Ctx(r)
    BY RequestFacts
  <2>2. PICK plan \in SUBSET Names : plan = tx[r].plan
    BY RequestFacts
  <2> DEFINE t2 == [tables[c] EXCEPT !.traces = Extend(tables[c].traces, r, plan)]
  <2>3. TableOk(tables[c]) /\ Reinforced(tables[c], NoSource) /\ tables \in [Contexts -> Table] /\ r \in Names
    BY ContextFacts, RequestFacts DEF ServiceInv, Shapes
  <2>4. /\ tables' = [tables EXCEPT ![c].traces = Extend(@, r, plan)] /\ Finish(r, "done") /\ ~erased
        /\ UNCHANGED <<deletion, erased, tasks, events, ledger, told>>
    BY <1>2, <2>1, <2>2 DEF StoreTrace
  <2>5. tables' = [tables EXCEPT ![c] = t2]
    BY <2>3, <2>4
  <2>6. Quiet(tables[c], t2)
    BY <2>3, TracesQuiet
  <2> HIDE DEF t2
  <2>7. "done" \in Over
    BY DEF Over
  <2>8. /\ tx' \in [Requests -> Transaction] /\ \A q \in Requests : q # r => tx'[q] = tx[q]
        /\ tx'[r].pc = "done" /\ asked' = asked /\ runner' = runner
        /\ SnapshotOk(r)' /\ RetainOk(r)' /\ OthersOk(r)'
    BY <2>4, <2>7, FinishIs
  <2> QED BY <2>4, <2>5, <2>6, <2>7, <2>8, DirectStep
<1> QED BY <1>1, <1>2

-----------------------------------------------------------------------------
(***************************************************************************)
(* Commits.                                                                *)
(***************************************************************************)
\* An answer that names an episode is one more of those that name it.
LEMMA TellersGrow ==
  ASSUME ServiceInv, NEW r \in Requests, NEW v, told[r] = NoSource, told' = [told EXCEPT ![r] = v],
         NEW e \in Names
  PROVE  /\ Cardinality(Tellers(e)) \in Nat
         /\ Cardinality(Tellers(e)') = Cardinality(Tellers(e)) + (IF e = v THEN 1 ELSE 0)
<1>1. DOMAIN told = Requests /\ IsFiniteSet(Requests) /\ e # NoSource
  BY ServiceAssumption, NamesAssumption DEF ServiceInv, Shapes
<1>2. PICK S : S = Tellers(e)
  OBVIOUS
<1>3. IsFiniteSet(S) /\ r \notin S
  <2>1. S \subseteq Requests
    BY <1>2 DEF Tellers
  <2> QED BY <1>1, <1>2, <2>1, FS_Subset DEF Tellers
<1>4. CASE e = v
  <2>1. Tellers(e)' = S \cup {r}
    BY <1>1, <1>2, <1>4 DEF Tellers
  <2>2. Cardinality(S \cup {r}) = Cardinality(S) + 1 /\ Cardinality(S) \in Nat
    BY <1>3, FS_AddElement, FS_CardinalityType
  <2> QED BY <1>2, <1>4, <2>1, <2>2
<1>5. CASE e # v
  <2>1. Tellers(e)' = S
    BY <1>1, <1>2, <1>5 DEF Tellers
  <2>2. Cardinality(S) \in Nat
    BY <1>3, FS_CardinalityType
  <2> QED BY <1>2, <1>5, <2>1, <2>2
<1> QED BY <1>4, <1>5

LEMMA CommitCounts ==
  ASSUME ServiceInv, Onward, NEW r \in Requests, NEW c \in Contexts, c = Ctx(r), tx[r].pc \notin Over,
         tx'[r].pc \in Over, NEW target \in Names \cup {NoSource}, NEW STATE t2, NEW forgets,
         target # NoSource => target \in Old(c) \cup {r},
         Result(t2, tables[c], r, target, forgets, Old(c) \cup {r}),
         tables' = [tables EXCEPT ![c] = t2], told' = [told EXCEPT ![r] = target]
  PROVE  Counted'
<1>1. /\ tables \in [Contexts -> Table] /\ DOMAIN told = Requests /\ Counted
      /\ \A d \in Contexts : Used(tables[d]) \subseteq Old(d)
  BY DEF ServiceInv, Shapes, TablesOk
<1>2. told[r] = NoSource /\ r \in Names /\ r # Seed /\ r # Prior /\ r # NoSource /\ r \notin Used(tables[c])
  BY RequestFacts DEF Live
<1>3. tables'[c] = t2 /\ \A d \in Contexts : d # c => tables'[d] = tables[d]
  BY <1>1
<1>4. \A d \in Contexts : Old(d) \subseteq Old(d)'
  BY OldGrows
<1>5. r \in Old(c)'
  BY DEF Old, Ctx, Onward
<1>6. \A e \in Names : /\ Cardinality(Tellers(e)) \in Nat
                       /\ Cardinality(Tellers(e)') = Cardinality(Tellers(e)) + (IF e = target THEN 1 ELSE 0)
  BY <1>2, TellersGrow
<1>7. \A q \in Requests : told'[q] # NoSource => tx'[q].pc \in Over /\ \E d \in Contexts : told'[q] \in Old(d)'
  <2>1. CASE target = NoSource
    BY <1>1, <1>4, <2>1 DEF Counted, Onward
  <2>2. CASE target # NoSource
    <3>1. target \in Old(c)'
      BY <1>4, <1>5, <2>2
    <3> QED BY <1>1, <1>4, <3>1 DEF Counted, Onward
  <2> QED BY <2>1, <2>2
<1>8. ASSUME NEW d \in Contexts, NEW e \in DOMAIN tables'[d].episodes
      PROVE  tables'[d].episodes[e] = Cardinality(Tellers(e)') + (IF e = Seed THEN 1 ELSE 0)
  <2>1. CASE d # c
    <3>1. e \in DOMAIN tables[d].episodes /\ tables'[d].episodes[e] = tables[d].episodes[e]
      BY <1>3, <1>8, <2>1
    <3>2. e \in Names /\ e # NoSource
      BY <1>1, <3>1, TableParts, NamesAssumption
    <3>3. e # target
      <4>1. e \in Old(d)'
        BY <1>1, <1>4, <3>1 DEF Used, Rows
      <4>2. target # NoSource => target \in Old(c)'
        BY <1>4, <1>5
      <4>3. Old(c)' \cap Old(d)' = {}
        BY <2>1, ServiceAssumption DEF Old
      <4> QED BY <3>2, <4>1, <4>2, <4>3
    <3>4. tables[d].episodes[e] = Cardinality(Tellers(e)) + (IF e = Seed THEN 1 ELSE 0)
      BY <1>1, <3>1 DEF Counted
    <3> QED BY <1>6, <3>1, <3>2, <3>3, <3>4
  <2>2. CASE d = c
    <3>1. \/ e \in DOMAIN tables[c].episodes /\ t2.episodes[e] = tables[c].episodes[e] + (IF e = target THEN 1 ELSE 0)
          \/ e = r /\ target = r /\ t2.episodes[e] = 1
      BY <1>3, <1>8, <2>2 DEF Result
    <3>2. CASE e \in DOMAIN tables[c].episodes /\ t2.episodes[e] = tables[c].episodes[e] + (IF e = target THEN 1 ELSE 0)
      <4>1. e \in Names
        BY <1>1, <3>2, TableParts
      <4>2. tables[c].episodes[e] = Cardinality(Tellers(e)) + (IF e = Seed THEN 1 ELSE 0)
        BY <1>1, <3>2 DEF Counted
      <4> QED BY <1>3, <1>6, <2>2, <3>2, <4>1, <4>2
    <3>3. CASE e = r /\ target = r /\ t2.episodes[e] = 1
      <4>1. Tellers(r) = {}
        <5>1. \A b \in Contexts : r \notin Old(b)
          BY <1>2 DEF Old
        <5> QED BY <1>1, <1>2, <5>1 DEF Tellers, Counted
      <4>2. Cardinality(Tellers(r)) = 0
        BY <4>1, FS_EmptySet
      <4> QED BY <1>2, <1>3, <1>6, <2>2, <3>3, <4>2
    <3> QED BY <3>1, <3>2, <3>3
  <2> QED BY <2>1, <2>2
<1> QED BY <1>7, <1>8 DEF Counted

LEMMA CommitStep ==
  ASSUME ServiceInv, NEW r \in Requests, Commit(r)
  PROVE  SafeStep
<1>1. CASE Refuse(r)
  BY <1>1, RefuseStep
<1>2. CASE ~Refuse(r)
  <2> DEFINE target == tx[r].target
             t2 == AfterCommit(r)
             end == IF Verb(r) = "mark" THEN "check" ELSE "done"
  <2>1. /\ tx[r].pc = "commit" /\ Verb(r) # "erase" /\ StillBase(r) /\ ~erased
        /\ tables' = [tables EXCEPT ![Ctx(r)] = t2]
        /\ deletion' = IF Verb(r) \in Forgets THEN deletion + 1 ELSE deletion
        /\ tasks' = IF Verb(r) = "task" THEN tasks \cup {r} ELSE tasks
        /\ events' = events \cup tx[r].events
        /\ ledger' = [ledger EXCEPT ![Key(r)] = r]
        /\ told' = [told EXCEPT ![r] = target] /\ Finish(r, end) /\ erased' = erased
    BY <1>2 DEF Commit, stage_mutation_response, Forgets
  <2>2. /\ tx[r].pc \notin Over /\ Ctx(r) \in Contexts /\ Key(r) \in Requests /\ tx[r] \in Transaction
        /\ OthersOk(r) /\ r \in Names
    BY <2>1, RequestFacts DEF Over
  <2>3. PICK c \in Contexts : c = Ctx(r)
    BY <2>2
  <2>4. /\ Result(t2, Live(r), r, target, Verb(r) \in Forgets, Old(Ctx(r)) \cup {r})
        /\ target # NoSource => target \in Old(Ctx(r)) \cup {r}
    BY <2>1, CommitResult
  <2>5. /\ end \in Over
    BY DEF Over
  <2> HIDE DEF t2, end
  <2>6. /\ tx'[r].pc \in Over /\ tx' \in [Requests -> Transaction] /\ asked' = asked /\ runner' = runner
        /\ SnapshotOk(r)' /\ RetainOk(r)' /\ OthersOk(r)' /\ \A q \in Requests : q # r => tx'[q] = tx[q]
    <3>1. PICK pc \in Over : pc = end
      BY <2>5
    <3> QED BY <2>1, <3>1, FinishIs
  <2>7. /\ TableOk(t2) /\ Reinforced(t2, NoSource) /\ Used(t2) \subseteq Old(c) \cup {r} /\ JobsKept(tables[c], t2)
    BY <2>3, <2>4 DEF Result, Grows, Live
  <2>8. tables \in [Contexts -> Table]
    BY DEF ServiceInv, Shapes
  <2>9. tables' = [tables EXCEPT ![c] = t2] /\ tables'[c] = t2 /\ \A d \in Contexts : d # c => tables'[d] = tables[d]
    BY <2>1, <2>3, <2>8
  <2>10. Onward
    <3>1. \A d \in Contexts \ {c} : JobsKept(tables[d], tables'[d])
      BY <2>9, SameJobsKept
    <3>2. JobsKept(tables[c], tables'[c])
      BY <2>7, <2>9
    <3>3. tasks \subseteq tasks' /\ events \subseteq events'
      BY <2>1
    <3> QED BY <2>1, <2>6, <3>1, <3>2, <3>3 DEF Onward
  <2>11. Used(t2) \subseteq Old(c)'
    <3>1. Old(c) \subseteq Old(c)'
      BY <2>10, OldGrows
    <3>2. r \in Old(c)'
      BY <2>3, <2>6 DEF Old, Ctx
    <3> QED BY <2>7, <3>1, <3>2
  <2>12. tables' \in [Contexts -> Table] /\ \A d \in Contexts : TablesOk(d)'
    BY <2>7, <2>9, <2>10, <2>11, TablesMove
  <2>13. tx[r].events \subseteq Event /\ target \in Names \cup {NoSource}
    BY <2>2 DEF Transaction
  <2>14. Shapes'
    <3>1. Shapes
      BY DEF ServiceInv
    <3>2. deletion' \in Nat /\ erased' \in BOOLEAN /\ tasks' \subseteq Requests /\ events' \subseteq Event
      BY <2>1, <2>13, <3>1 DEF Shapes
    <3>3. ledger' \in [Requests -> Requests \cup {Nobody}] /\ told' \in [Requests -> Names \cup {NoSource}]
      BY <2>1, <2>2, <2>13, <3>1 DEF Shapes
    <3> QED BY <2>6, <2>12, <3>1, <3>2, <3>3 DEF Shapes
  <2>15. \A d \in Contexts : RunnerOk(d)'
    BY <2>6, <2>10, RunnerStays
  <2>16. \A q \in Requests : SnapshotOk(q)' /\ RetainOk(q)' /\ OthersOk(q)'
    BY <2>6, <2>10, RequestStays
  <2>17. Erased'
    BY <2>1 DEF Erased
  <2>18. Evidence'
    <3>1. Evidence
      BY DEF ServiceInv
    <3>2. ASSUME NEW e \in tx[r].events
          PROVE  e.task \in tasks' /\ (e.kind = "helpful" => [e EXCEPT !.kind = "shown"] \in events')
      <4>1. CASE Verb(r) = "task"
        <5>1. e.task = r /\ e.kind = "shown"
          BY <2>2, <3>2, <4>1 DEF OthersOk
        <5> QED BY <2>1, <4>1, <5>1
      <4>2. CASE Verb(r) = "events"
        <5>1. e.task \in tasks /\ (e.kind = "helpful" => [e EXCEPT !.kind = "shown"] \in events)
          BY <2>1, <2>2, <3>2, <4>2 DEF OthersOk
        <5> QED BY <2>1, <5>1
      <4> QED BY <2>2, <3>2, <4>1, <4>2 DEF OthersOk
    <3>3. ASSUME NEW e \in events
          PROVE  e.task \in tasks' /\ (e.kind = "helpful" => [e EXCEPT !.kind = "shown"] \in events')
      BY <2>1, <3>1, <3>3 DEF Evidence
    <3> QED BY <2>1, <3>2, <3>3 DEF Evidence
  <2>19. Counted'
    <3>1. PICK v \in Names \cup {NoSource} : v = target
      BY <2>13
    <3>2. PICK f : f = (Verb(r) \in Forgets)
      OBVIOUS
    <3>3. /\ Result(t2, tables[c], r, v, f, Old(c) \cup {r})
          /\ v # NoSource => v \in Old(c) \cup {r}
      BY <2>3, <2>4, <3>1, <3>2 DEF Live
    <3>4. told' = [told EXCEPT ![r] = v] /\ tx'[r].pc \in Over /\ tx[r].pc \notin Over /\ c = Ctx(r)
      BY <2>1, <2>2, <2>3, <2>6, <3>1
    <3>5. tables' = [tables EXCEPT ![c] = t2]
      BY <2>9
    <3> HIDE DEF target
    <3> QED BY <2>10, <3>3, <3>4, <3>5, CommitCounts
  <2>20. ServiceInv'
    BY <2>12, <2>14, <2>15, <2>16, <2>17, <2>18, <2>19 DEF ServiceInv
  <2>21. Lossless
    <3>1. \A d \in Contexts \ {c} : Grows(tables[d], tables'[d]) /\ RowsKept(tables[d], tables'[d])
      BY <2>9, GrowsSelf
    <3>2. /\ Grows(tables[c], tables'[c])
          /\ IF Verb(r) \in Forgets THEN RowsForgotten(tables[c], tables'[c]) ELSE RowsKept(tables[c], tables'[c])
      BY <2>3, <2>4, <2>9 DEF Result, Live
    <3> QED BY <2>1, <3>1, <3>2 DEF Lossless
  <2> QED BY <2>20, <2>21 DEF SafeStep
<1> QED BY <1>1, <1>2

LEMMA EmptyOk == TableOk(EmptyTables) /\ Reinforced(EmptyTables, NoSource) /\ Used(EmptyTables) = {}
<1>1. /\ DOMAIN EmptyTables.jobs = {} /\ DOMAIN EmptyTables.units = {} /\ DOMAIN EmptyTables.episodes = {}
      /\ EmptyTables.resources = {} /\ EmptyTables.forgotten = {}
  BY DEF EmptyTables
<1>2. Used(EmptyTables) = {}
  BY <1>1 DEF Used, Rows, JobIds
<1>3. Queue(EmptyTables) /\ Compilations(EmptyTables) /\ Sourced(EmptyTables) /\ Clean(EmptyTables)
  BY <1>1 DEF Queue, Rows, SameJob, Compilations, Sourced, Clean
<1>4. Rooted(EmptyTables)
  BY <1>1 DEF Rooted, Restating
<1>5. Reinforced(EmptyTables, NoSource)
  BY <1>1 DEF Reinforced
<1> QED BY <1>2, <1>3, <1>4, <1>5, EmptyIsTable DEF TableOk

LEMMA CommitErasureStep ==
  ASSUME ServiceInv, NEW r \in Requests, CommitErasure(r)
  PROVE  SafeStep
<1>1. CASE Refuse(r)
  BY <1>1, RefuseStep
<1>2. CASE ~Refuse(r)
  <2>1. /\ Verb(r) = "erase" /\ tables' = [c \in Contexts |-> EmptyTables] /\ tasks' = {} /\ events' = {}
        /\ erased' = TRUE /\ Finish(r, "done") /\ deletion' = deletion /\ told' = told
        /\ ledger' = [k \in Requests |-> IF k = Key(r) THEN r ELSE Nobody]
    BY <1>2 DEF CommitErasure, Surviving, stage_subject_erasure
  <2>2. "done" \in Over
    BY DEF Over
  <2>3. /\ tx'[r].pc \in Over /\ tx' \in [Requests -> Transaction] /\ asked' = asked /\ runner' = runner
        /\ SnapshotOk(r)' /\ RetainOk(r)' /\ OthersOk(r)' /\ \A q \in Requests : q # r => tx'[q] = tx[q]
    BY <2>1, <2>2, FinishIs
  <2>4. Onward
    BY <2>1, <2>3 DEF Onward
  <2>5. \A c \in Contexts : tables'[c] = EmptyTables
    BY <2>1
  <2>6. \A c \in Contexts : TablesOk(c)'
    BY <2>5, EmptyOk DEF TablesOk
  <2>7. Shapes'
    <3>1. tables' \in [Contexts -> Table]
      BY <2>1, EmptyIsTable
    <3>2. ledger' \in [Requests -> Requests \cup {Nobody}]
      BY <2>1
    <3> QED BY <2>1, <2>3, <3>1, <3>2 DEF ServiceInv, Shapes
  <2>8. \A c \in Contexts : RunnerOk(c)'
    BY <2>3, <2>4, RunnerStays
  <2>9. \A q \in Requests : SnapshotOk(q)' /\ RetainOk(q)' /\ OthersOk(q)'
    BY <2>3, <2>4, RequestStays
  <2>10. Erased' /\ Evidence'
    <3>1. \A k \in Requests : ledger'[k] # Nobody => asked'[ledger'[k]].verb = "erase"
      BY <2>1, <2>3 DEF Verb
    <3> QED BY <2>1, <2>5, <3>1 DEF Erased, Evidence, Verb
  <2>11. Counted'
    <3>1. DOMAIN EmptyTables.episodes = {}
      BY DEF EmptyTables
    <3> QED BY <2>1, <2>4, <2>5, <3>1, CountsStay
  <2>12. ServiceInv'
    BY <2>6, <2>7, <2>8, <2>9, <2>10, <2>11 DEF ServiceInv
  <2>13. Lossless
    BY <2>1 DEF Lossless
  <2> QED BY <2>12, <2>13 DEF SafeStep
<1> QED BY <1>1, <1>2

-----------------------------------------------------------------------------
(***************************************************************************)
(* The invariant holds at the start and is kept.                           *)
(***************************************************************************)
LEMMA SeedOk ==
  ASSUME NEW compiler \in {Compiler, "older"}, NEW t, t = SeedTables(compiler)
  PROVE  /\ TableOk(t) /\ Reinforced(t, NoSource) /\ Used(t) \subseteq {Seed, Prior}
         /\ DOMAIN t.episodes = {Seed} /\ t.episodes[Seed] = 1
<1> DEFINE unit == [state |-> "active", open |-> TRUE, source |-> NoSource, stem |-> {}, reinforced |-> 0]
           job == [id |-> Seed, source |-> Seed, compiler |-> compiler]
           eps == [e \in {Seed} |-> 1]
           units == [u \in {Prior} |-> unit]
           traces == [u \in {Prior} |-> {Prior}]
           jobs == <<job>>
<1>1. Seed \in Names /\ Prior \in Names /\ Seed # Prior /\ NoSource \notin Names
  BY ServiceAssumption, NamesAssumption
<1>2. unit \in Unit /\ job \in Job
  BY <1>1 DEF Unit, Job
<1>3. /\ DOMAIN eps = {Seed} /\ eps[Seed] = 1 /\ eps \in [{Seed} -> Nat]
      /\ DOMAIN units = {Prior} /\ units[Prior] = unit /\ units \in [{Prior} -> {unit}]
      /\ traces \in [{Prior} -> {{Prior}}]
  OBVIOUS
<1>4. jobs \in Seq(Job) /\ DOMAIN jobs = {1} /\ jobs[1] = job
  BY <1>2
<1>5. eps \in Partial(Names, Nat) /\ units \in Partial(Names, Unit) /\ traces \in Partial(Names, SUBSET Names)
        /\ <<>> \in Partial(Names, JobMeta)
  <2>1. {Seed} \in SUBSET Names /\ {Prior} \in SUBSET Names
    BY <1>1
  <2>2. eps \in [{Seed} -> Nat] /\ units \in [{Prior} -> Unit] /\ traces \in [{Prior} -> SUBSET Names]
    BY <1>1, <1>2, <1>3
  <2> HIDE DEF eps, units, traces, unit
  <2>3. eps \in Partial(Names, Nat) /\ units \in Partial(Names, Unit) /\ traces \in Partial(Names, SUBSET Names)
    BY <2>1, <2>2 DEF Partial
  <2> QED BY <2>3, EmptyPartial
<1>6. t = [episodes |-> eps, resources |-> {}, units |-> units, supersedes |-> {}, vectors |-> {Prior},
           jobs |-> jobs, meta |-> <<>>, compiled |-> {Prior}, traces |-> traces, reviews |-> {}, forgotten |-> {}]
  BY DEF SeedTables, EmptyTables
<1> HIDE DEF eps, units, traces, jobs
<1>7. /\ t.episodes = eps /\ t.resources = {} /\ t.units = units /\ t.supersedes = {} /\ t.vectors = {Prior}
      /\ t.jobs = jobs /\ t.forgotten = {} /\ t.compiled = {Prior}
  BY <1>6
<1>8. t \in Table
  BY <1>1, <1>4, <1>5, <1>6 DEF Table
<1>9. JobIds(t) = {Seed} /\ Rows(t) = {Seed}
  BY <1>3, <1>4, <1>7 DEF JobIds, Rows
<1>10. Queue(t)
  <2>1. HasHome(t, Seed)
    BY <1>4, <1>7 DEF HasHome, IsJob
  <2> QED BY <1>4, <1>7, <1>9, <2>1 DEF Queue, SameJob
<1>11. Compilations(t)
  BY <1>1, <1>3, <1>4, <1>7 DEF Compilations
<1>12. Rooted(t) /\ Sourced(t) /\ Clean(t)
  BY <1>3, <1>7 DEF Rooted, Restating, Sourced, Clean
<1>13. Reinforced(t, NoSource)
  BY <1>1, <1>3, <1>7 DEF Reinforced
<1>14. Used(t) \subseteq {Seed, Prior}
  BY <1>3, <1>7, <1>9 DEF Used
<1> QED BY <1>3, <1>7, <1>8, <1>10, <1>11, <1>12, <1>13, <1>14 DEF TableOk

LEMMA InitInv == Init => ServiceInv
<1> SUFFICES ASSUME Init PROVE ServiceInv
  OBVIOUS
<1>1. PICK compiler \in {Compiler, "older"} :
        tables = [c \in Contexts |-> IF c = Home THEN SeedTables(compiler) ELSE EmptyTables]
  BY DEF Init
<1>2. PICK t : t = SeedTables(compiler)
  OBVIOUS
<1>3. tables = [c \in Contexts |-> IF c = Home THEN t ELSE EmptyTables]
  BY <1>1, <1>2
<1>4. /\ TableOk(t) /\ Reinforced(t, NoSource) /\ Used(t) \subseteq {Seed, Prior}
      /\ DOMAIN t.episodes = {Seed} /\ t.episodes[Seed] = 1
  BY <1>2, SeedOk
<1>5. asked \in [Requests -> [verb : Verbs, context : Contexts, key : Requests]]
  <2>1. \A a \in Asks : a.verb \in Verbs /\ a.context \in Contexts
    BY ServiceAssumption DEF Verbs
  <2>2. \A q \in {[verb |-> a.verb, context |-> a.context, key |-> k] : a \in Asks, k \in Requests} :
          q \in [verb : Verbs, context : Contexts, key : Requests]
    BY <2>1
  <2>3. asked \in [Requests -> {[verb |-> a.verb, context |-> a.context, key |-> k] : a \in Asks, k \in Requests}]
    BY DEF Init
  <2> QED BY <2>2, <2>3
<1>6. /\ deletion = 0 /\ erased = FALSE /\ tasks = {} /\ events = {}
      /\ ledger = [k \in Requests |-> Nobody] /\ tx = [r \in Requests |-> NewTx(Verb(r))]
      /\ runner = [c \in Contexts |-> Idle] /\ told = [r \in Requests |-> NoSource]
  BY DEF Init, Verb
<1>7. \A r \in Requests :
        /\ tx[r] \in Transaction /\ tx[r].pc \in {"probe", "prepare", "claim", "read"} /\ tx[r].base = <<>>
        /\ Verb(r) = "retain" => tx[r].pc = "claim"
        /\ tx[r].target = NoSource /\ tx[r].observe = NoSource /\ tx[r].add = FALSE /\ tx[r].job = Nobody
        /\ tx[r].events = {}
  <2>1. ASSUME NEW verb
        PROVE  LET x == NewTx(verb) IN
               /\ x \in Transaction /\ x.pc \in {"probe", "prepare", "claim", "read"} /\ x.base = <<>>
               /\ verb = "retain" => x.pc = "claim"
               /\ x.target = NoSource /\ x.observe = NoSource /\ x.add = FALSE /\ x.job = Nobody
               /\ x.events = {}
    BY DEF NewTx, Transaction, Places, TwoPhase
  <2> QED BY <1>6, <2>1
<1>8. Shapes
  <2>1. tables \in [Contexts -> Table]
    BY <1>3, <1>4, EmptyIsTable DEF TableOk
  <2>2. tx \in [Requests -> Transaction]
    BY <1>6, <1>7
  <2> QED BY <1>5, <1>6, <2>1, <2>2 DEF Shapes
<1>9. \A c \in Contexts : TablesOk(c) /\ RunnerOk(c)
  <2>1. \A c \in Contexts : tables[c] = IF c = Home THEN t ELSE EmptyTables
    BY <1>3
  <2>2. {Seed, Prior} \subseteq Old(Home)
    BY DEF Old
  <2>3. \A c \in Contexts : TablesOk(c)
    BY <1>4, <2>1, <2>2, EmptyOk DEF TablesOk
  <2>4. \A c \in Contexts : RunnerOk(c)
    BY <1>6 DEF RunnerOk, Idle
  <2> QED BY <2>3, <2>4
<1>10. \A r \in Requests : SnapshotOk(r) /\ RetainOk(r) /\ OthersOk(r)
  <2>1. \A r \in Requests : SnapshotOk(r)
    BY <1>7 DEF SnapshotOk
  <2>2. \A r \in Requests : RetainOk(r)
    BY <1>7 DEF RetainOk
  <2>3. \A r \in Requests : OthersOk(r)
    BY <1>7 DEF OthersOk
  <2> QED BY <2>1, <2>2, <2>3
<1>11. Erased /\ Evidence
  BY <1>6 DEF Erased, Evidence
<1>12. Counted
  <2>1. \A e \in Names : Cardinality(Tellers(e)) = 0
    <3>1. \A e \in Names : Tellers(e) = {}
      BY <1>6, NamesAssumption DEF Tellers
    <3> QED BY <3>1, FS_EmptySet
  <2>2. Seed \in Names /\ DOMAIN EmptyTables.episodes = {}
    BY ServiceAssumption DEF EmptyTables
  <2>3. \A c \in Contexts : \A e \in DOMAIN tables[c].episodes : e = Seed /\ tables[c].episodes[e] = 1
    BY <1>3, <1>4, <2>2
  <2> QED BY <1>6, <2>1, <2>2, <2>3 DEF Counted
<1> QED BY <1>8, <1>9, <1>10, <1>11, <1>12 DEF ServiceInv

LEMMA NextSafe ==
  ASSUME ServiceInv, Next
  PROVE  SafeStep
<1>1. ASSUME NEW r \in Requests, Stage(r) PROVE SafeStep
  <2>1. CASE StageRemember(r) \/ StageUnit(r)
    BY <2>1, StatementStep DEF StageRemember, StageUnit
  <2>2. CASE StageCorrect(r) \/ StageCorrectMemory(r)
    <3>1. PICK u \in Names : StageOnSnapshot(r, Correct(Snapshot(r), u, r))
      BY <2>2 DEF StageCorrect, StageCorrectMemory
    <3>2. tx[r].pc = "stage" /\ Verb(r) \in {"correct", "correct_memory", "invalidate", "mark"}
      BY <2>2 DEF StageCorrect, StageCorrectMemory
    <3>3. Correct(Snapshot(r), u, r) \in
            {Correct(Snapshot(r), u, r), Invalidate(Snapshot(r), u, r), Review(Snapshot(r), u, r)}
      OBVIOUS
    <3> QED BY <3>1, <3>2, <3>3, CorrectStep
  <2>3. CASE StageInvalidate(r)
    <3>1. PICK u \in Names : StageOnSnapshot(r, Invalidate(Snapshot(r), u, r))
      BY <2>3 DEF StageInvalidate
    <3>2. tx[r].pc = "stage" /\ Verb(r) \in {"correct", "correct_memory", "invalidate", "mark"}
      BY <2>3 DEF StageInvalidate
    <3>3. Invalidate(Snapshot(r), u, r) \in
            {Correct(Snapshot(r), u, r), Invalidate(Snapshot(r), u, r), Review(Snapshot(r), u, r)}
      OBVIOUS
    <3> QED BY <3>1, <3>2, <3>3, CorrectStep
  <2>4. CASE StageMark(r)
    <3>1. PICK u \in Names : StageOnSnapshot(r, Review(Snapshot(r), u, r))
      BY <2>4 DEF StageMark
    <3>2. tx[r].pc = "stage" /\ Verb(r) \in {"correct", "correct_memory", "invalidate", "mark"}
      BY <2>4 DEF StageMark
    <3>3. Review(Snapshot(r), u, r) \in
            {Correct(Snapshot(r), u, r), Invalidate(Snapshot(r), u, r), Review(Snapshot(r), u, r)}
      OBVIOUS
    <3> QED BY <3>1, <3>2, <3>3, CorrectStep
  <2> QED BY <1>1, <2>1, <2>2, <2>3, <2>4, ForgetStep, StageResourceStep, StageTaskStep, StageEventsStep,
             StageEraseStep, StageEpisodeStep, StageReinforceStep, EnqueueStep DEF Stage
<1>2. ASSUME NEW r \in Requests, RequestStep(r) \/ Abort(r) PROVE SafeStep
  BY <1>1, <1>2, ProbeStep, PrepareStep, ClaimStep, CommitStep, CommitErasureStep, MarkCheckStep,
     MarkApplyStep, RecallReadStep, StoreTraceStep, RefuseStep DEF RequestStep, Abort
<1>3. ASSUME NEW c \in Contexts, ClaimJobs(c) \/ LaneStep(c) PROVE SafeStep
  BY <1>3, ClaimJobsStep, SkipStep, FailJobStep, PlanJobStep, StageJobStep, CommitJobStep, CheckJobStep,
     ApplyJobStep DEF LaneStep
<1> QED BY <1>2, <1>3 DEF Next

LEMMA StutterInv ==
  ASSUME ServiceInv, UNCHANGED vars
  PROVE  ServiceInv'
<1>1. UNCHANGED <<tables, deletion, erased, tasks, events, ledger, asked, tx, runner, told>>
  BY DEF vars
<1>2. /\ \A r : Ctx(r)' = Ctx(r) /\ Verb(r)' = Verb(r) /\ Live(r)' = Live(r)
      /\ \A c : Old(c)' = Old(c) /\ Head1(c)' = Head1(c)
      /\ \A e : Tellers(e)' = Tellers(e)
  BY <1>1 DEF Ctx, Verb, Live, Old, Head1, Tellers
<1>3. Shapes' /\ Evidence'
  BY <1>1 DEF ServiceInv, Shapes, Evidence
<1>4. \A c \in Contexts : TablesOk(c)' /\ RunnerOk(c)'
  BY <1>1, <1>2 DEF ServiceInv, TablesOk, RunnerOk
<1>5. \A r \in Requests : SnapshotOk(r)'
  BY <1>1, <1>2 DEF ServiceInv, SnapshotOk
<1>6. \A r \in Requests : RetainOk(r)'
  BY <1>1, <1>2 DEF ServiceInv, RetainOk
<1>7. \A r \in Requests : OthersOk(r)'
  BY <1>1, <1>2 DEF ServiceInv, OthersOk
<1>8. Erased'
  BY <1>1 DEF ServiceInv, Erased, Verb
<1>9. Counted'
  BY <1>1, <1>2 DEF ServiceInv, Counted
<1> QED BY <1>3, <1>4, <1>5, <1>6, <1>7, <1>8, <1>9 DEF ServiceInv

LEMMA NextInv ==
  ASSUME ServiceInv, [Next]_vars
  PROVE  ServiceInv'
BY NextSafe, StutterInv DEF SafeStep

-----------------------------------------------------------------------------
(***************************************************************************)
(* The theorems.                                                           *)
(***************************************************************************)
\* What restates a forgotten source stays closed and without a vector, nothing is written
\* to an erased subject, and evidence keeps its exposure (stage_forget, stage_compiled_units,
\* the in-memory store's commit, erase_subject), for any requests, contexts and batches.
THEOREM ForgottenIsFinal == Spec => []ForgottenStaysForgotten
<1>1. ServiceInv => ForgottenStaysForgotten
  BY DEF ServiceInv, TablesOk, TableOk, Clean, Erased, Evidence, ForgottenStaysForgotten
<1> QED BY <1>1, InitInv, NextInv, PTL DEF Spec

\* Every retain that was answered with an episode counts once in it while it exists, and
\* no unit is reinforced more often than its episode was observed again (stage_episode,
\* reinforce_captured_episode_units and the commit that adds the observation).
THEOREM EveryObservationCounts == Spec => []ObservationsCounted
<1>1. ServiceInv => ObservationsCounted
  <2> SUFFICES ASSUME ServiceInv, NEW c \in Contexts, NEW e \in DOMAIN tables[c].episodes
               PROVE  /\ tables[c].episodes[e] = Cardinality({r \in Requests : told[r] = e})
                                                   + (IF e = Seed THEN 1 ELSE 0)
                      /\ \A u \in DOMAIN tables[c].units :
                           tables[c].units[u].source = e =>
                             tables[c].units[u].reinforced <= tables[c].episodes[e] - 1
    BY DEF ObservationsCounted
  <2>1. tables[c].episodes[e] = Cardinality(Tellers(e)) + (IF e = Seed THEN 1 ELSE 0)
    BY DEF ServiceInv, Counted
  <2>2. Reinforced(tables[c], NoSource) /\ e # NoSource
    <3>1. tables[c] \in Table /\ Reinforced(tables[c], NoSource)
      BY ContextFacts
    <3> QED BY <3>1, TableParts, NamesAssumption
  <2> QED BY <2>1, <2>2 DEF Tellers, Reinforced
<1> QED BY <1>1, InitInv, NextInv, PTL DEF Spec

LEMMA KeptGrows ==
  ASSUME NEW t, NEW t2, Grows(t, t2)
  PROVE  /\ DOMAIN Kept(t) = {"rows", "units", "jobs", "compiled", "traces", "reviews", "edges", "settled"}
         /\ \A f \in DOMAIN Kept(t) \ {"rows"} : Kept(t)[f] \subseteq Kept(t2)[f]
         /\ Kept(t).rows = Rows(t) /\ Kept(t2).rows = Rows(t2)
<1>1. JobIds(t) \subseteq JobIds(t2)
  BY DEF Grows, JobsKept, JobIds
<1>2. /\ Kept(t).units \subseteq Kept(t2).units /\ Kept(t).jobs \subseteq Kept(t2).jobs
      /\ Kept(t).compiled \subseteq Kept(t2).compiled /\ Kept(t).traces \subseteq Kept(t2).traces
      /\ Kept(t).reviews \subseteq Kept(t2).reviews /\ Kept(t).edges \subseteq Kept(t2).edges
      /\ Kept(t).settled \subseteq Kept(t2).settled
  BY <1>1 DEF Kept, Grows, SettledJobs
<1>3. DOMAIN Kept(t) = {"rows", "units", "jobs", "compiled", "traces", "reviews", "edges", "settled"}
  BY DEF Kept
<1>4. Kept(t).rows = Rows(t) /\ Kept(t2).rows = Rows(t2)
  BY DEF Kept, Rows
<1> QED BY <1>2, <1>3, <1>4

\* No step loses a row, an edge, a receipt or a settlement that another one has committed:
\* a row goes only with a forget of its context or with the erasure of the subject,
\* whatever snapshots are committed over the tables (the in-memory store's commit).
THEOREM NoCommitIsLost == Spec => NothingIsLost
<1> DEFINE Kind(c) ==
             tables'[c] # tables[c] =>
             LET before == Kept(tables[c]) after == Kept(tables[c])' IN
             \/ erased'
             \/ \A f \in DOMAIN before : before[f] \subseteq after[f]
             \/ /\ deletion' = deletion + 1
                /\ \A f \in DOMAIN before \ {"rows"} : before[f] \subseteq after[f]
                /\ before.rows \ after.rows \subseteq tables'[c].forgotten
<1>1. ASSUME ServiceInv, Next PROVE \A c \in Contexts : Kind(c)
  <2> SUFFICES ASSUME NEW c \in Contexts, ~erased' PROVE Kind(c)
    OBVIOUS
  <2> DEFINE t == tables[c]
             t2 == tables'[c]
  <2>1. /\ Grows(t, t2)
        /\ RowsKept(t, t2) \/ (deletion' = deletion + 1 /\ RowsForgotten(t, t2))
    BY <1>1, NextSafe DEF SafeStep, Lossless
  <2>2. /\ DOMAIN Kept(t) = {"rows", "units", "jobs", "compiled", "traces", "reviews", "edges", "settled"}
        /\ \A f \in DOMAIN Kept(t) \ {"rows"} : Kept(t)[f] \subseteq Kept(t2)[f]
        /\ Kept(t).rows = Rows(t) /\ Kept(t2).rows = Rows(t2)
    BY <2>1, KeptGrows
  <2>3. Kept(tables[c])' = Kept(t2)
    OBVIOUS
  <2>4. CASE RowsKept(t, t2)
    BY <2>2, <2>3, <2>4 DEF RowsKept
  <2>5. CASE deletion' = deletion + 1 /\ RowsForgotten(t, t2)
    BY <2>2, <2>3, <2>5 DEF RowsForgotten
  <2> QED BY <2>1, <2>4, <2>5
<1>2. ASSUME ServiceInv, [Next]_vars PROVE [\A c \in Contexts : Kind(c)]_vars
  BY <1>1, <1>2
<1> QED BY <1>2, InitInv, NextInv, PTL DEF Spec, NothingIsLost
=============================================================================
