------------------------ MODULE StructuredJobProofs ------------------------
(***************************************************************************)
(* Proofs about the structured-state provider and the jobs that use it,    *)
(* for any number of workers, jobs, keys, batches, waves and crashes, any  *)
(* reservation and every configuration of the provider's files: what an    *)
(* extraction costs, what the ledger of a campaign records, and what a     *)
(* compile closes.                                                         *)
(***************************************************************************)
EXTENDS StructuredJob, FiniteSetTheorems, WellFoundedInduction, TLAPS

-----------------------------------------------------------------------------
(***************************************************************************)
(* Numbers and sequences.                                                  *)
(***************************************************************************)

\* A set of naturals that is not empty has a least element.
LEMMA LeastElement ==
  ASSUME NEW T \in SUBSET Nat, T # {}
  PROVE  \E x \in T : \A y \in T : x <= y
<1>1. PICK x \in T : \A y \in T : ~(<<y, x>> \in OpToRel(<, Nat))
  BY WFMin, NatLessThanWellFounded, Zenon
<1>2. \A y \in T : ~(y < x)
  BY <1>1 DEF OpToRel
<1> QED BY <1>2

\* The maximum of a bounded set is one of its elements.
LEMMA MaxIsIn ==
  ASSUME NEW n \in Nat, NEW T \in SUBSET (1..n), T # {}
  PROVE  Max(T) \in T
<1> DEFINE U == {m \in Nat : n - m \in T}
<1>1. U \in SUBSET Nat /\ U # {}
  <2>1. PICK i \in T : TRUE
    OBVIOUS
  <2>2. n - i \in U
    BY <2>1
  <2> QED BY <2>2
<1>2. PICK x \in U : \A y \in U : x <= y
  BY <1>1, LeastElement
<1>3. \A j \in T : n - j \in U
  OBVIOUS
<1>4. n - x \in T /\ \A j \in T : n - x >= j
  BY <1>2, <1>3
<1> QED BY <1>4 DEF Max

\* A sequence, of whatever.
IsSeq(s) == \E S : s \in Seq(S)

\* The elements of a sequence with one more.
LEMMA AppendIsSeq ==
  ASSUME NEW s, IsSeq(s), NEW e
  PROVE  /\ IsSeq(Append(s, e))
         /\ Len(s) \in Nat /\ DOMAIN s = 1..Len(s)
         /\ DOMAIN Append(s, e) = 1..Len(s) + 1
         /\ \A i \in DOMAIN s : Append(s, e)[i] = s[i]
         /\ Append(s, e)[Len(s) + 1] = e
<1>1. PICK S : s \in Seq(S)
  BY DEF IsSeq
<1> DEFINE T == S \cup {e}
<1>2. s \in Seq(T) /\ e \in T
  BY <1>1
<1> HIDE DEF T
<1>3. Append(s, e) \in Seq(T)
  BY <1>2
<1> QED BY <1>2, <1>3 DEF IsSeq

-----------------------------------------------------------------------------
(***************************************************************************)
(* The invariant of the provider.                                          *)
(***************************************************************************)

IsProc(r) ==
  r = [pc |-> r.pc, key |-> r.key, id |-> r.id, reply |-> r.reply, resumed |-> r.resumed,
       prefix |-> r.prefix, cut |-> r.cut, answer |-> r.answer]

IsDisk(d) ==
  /\ d = [ledger |-> d.ledger, torn |-> d.torn, journal |-> d.journal, cache |-> d.cache]
  /\ IsSeq(d.ledger)

\* Where a call is between the lock of its key and its return.
Inside == {"load", "resume", "start", "post", "unsent", "keep", "refused", "reconcile",
           "generation", "decode", "undecodable", "complete", "store"}

Shapes ==
  /\ proc = [p \in Workers |-> proc[p]] /\ \A p \in Workers : IsProc(proc[p])
  /\ IsDisk(disk)
  /\ flock = [k \in Keys |-> flock[k]]

\* A call is about a key, and on the cached route it has locked it.
LockIsHeld ==
  \A p \in Workers :
    /\ proc[p].pc \in Inside \cup {"lock"} => proc[p].key \in Keys
    /\ proc[p].pc \in Inside /\ route.cache => flock[proc[p].key] = p

\* The events of a key and wave.
Concerns(e, k, w) == e.key = k /\ e.wave = w
StartOf(e, k, w) == e.event = "started" /\ Concerns(e, k, w)

\* On the campaign route an extraction is started once in a wave, and a call that is
\* about to start it has found no trace of it.
StartedOnce ==
  route.cache /\ route.ledger =>
    /\ \A i, j \in DOMAIN disk.ledger : \A k, w :
         StartOf(disk.ledger[i], k, w) /\ StartOf(disk.ledger[j], k, w) => i = j
    /\ \A p \in Workers : proc[p].pc = "start" =>
         \A i \in DOMAIN disk.ledger : ~Concerns(disk.ledger[i], proc[p].key, wave)

\* What is sent, or about to be, has been recorded as started.
Recorded(k, w, id) ==
  \E i \in DOMAIN disk.ledger : StartOf(disk.ledger[i], k, w) /\ disk.ledger[i].id = id

SentIsRecorded ==
  /\ \A x \in posts : x = [key |-> x.key, wave |-> x.wave, id |-> x.id]
  /\ route.ledger =>
       /\ \A x \in posts : Recorded(x.key, x.wave, x.id)
       /\ \A p \in Workers : proc[p].pc = "post" => Recorded(proc[p].key, wave, proc[p].id)

\* What is answered, cached or about to be has been recorded as decoded, or is nothing.
DecodedIn(ledger, a) ==
  a = Nothing \/ \E i \in DOMAIN ledger : ledger[i].id = a /\ ledger[i].status = "decoded"

Decoded(a) == DecodedIn(disk.ledger, a)

AnswerIsDecoded ==
  route.ledger =>
    /\ \A p \in Workers : /\ proc[p].pc = "store" => Decoded(proc[p].id)
                          /\ proc[p].pc = "answered" => Decoded(proc[p].answer)
    /\ \A k \in DOMAIN disk.cache : Decoded(disk.cache[k])

WithinReservation == route.ledger => Reserved <= Cap

ProviderInv ==
  /\ Shapes /\ LockIsHeld /\ StartedOnce /\ SentIsRecorded /\ AnswerIsDecoded
  /\ WithinReservation

-----------------------------------------------------------------------------
(***************************************************************************)
(* The kinds of steps a worker takes.                                      *)
(***************************************************************************)

\* The state of one worker is replaced.
Becomes(p, r) == proc' = [proc EXCEPT ![p] = r]

LEMMA BecomesProc ==
  ASSUME Shapes, NEW p \in Workers, NEW r, IsProc(r), Becomes(p, r)
  PROVE  /\ proc' = [q \in Workers |-> proc'[q]] /\ \A q \in Workers : IsProc(proc'[q])
         /\ proc'[p] = r /\ \A q \in Workers : q # p => proc'[q] = proc[q]
BY DEF Shapes, Becomes

LEMMA GotoBecomes ==
  ASSUME Shapes, NEW p \in Workers, NEW pc, Goto(p, pc)
  PROVE  \E r : /\ Becomes(p, r) /\ IsProc(r) /\ r.pc = pc
                /\ r.key = proc[p].key /\ r.id = proc[p].id /\ r.answer = proc[p].answer
<1> DEFINE r == [proc[p] EXCEPT !.pc = pc]
<1>1. Becomes(p, r)
  BY DEF Becomes, Goto
<1>2. IsProc(r) /\ r.pc = pc /\ r.key = proc[p].key /\ r.id = proc[p].id
      /\ r.answer = proc[p].answer
  BY DEF Shapes, IsProc
<1> QED BY <1>1, <1>2

Released(p) == flock' = [k \in Keys |-> IF flock[k] = p THEN NoKey ELSE flock[k]]

LEMMA ReturnBecomes ==
  ASSUME Shapes, NEW p \in Workers, NEW pc, NEW a, Return(p, pc, a)
  PROVE  /\ Released(p)
         /\ \E r : /\ Becomes(p, r) /\ IsProc(r) /\ r.pc = pc /\ r.answer = a
                   /\ r.key = proc[p].key /\ r.id = proc[p].id
<1> DEFINE f == [proc EXCEPT ![p].pc = pc]
           g == [f EXCEPT ![p].answer = a]
           h == [g EXCEPT ![p].resumed = FALSE]
<1>1. proc' = h
  BY DEF Return
<1>2. /\ f = [q \in Workers |-> f[q]] /\ \A q \in Workers : q # p => f[q] = proc[q]
      /\ IsProc(f[p]) /\ f[p].pc = pc /\ f[p].key = proc[p].key /\ f[p].id = proc[p].id
  BY DEF Shapes, IsProc
<1> HIDE DEF f
<1>3. /\ g = [q \in Workers |-> g[q]] /\ \A q \in Workers : q # p => g[q] = f[q]
      /\ IsProc(g[p]) /\ g[p].pc = f[p].pc /\ g[p].key = f[p].key /\ g[p].id = f[p].id
      /\ g[p].answer = a
  BY <1>2 DEF IsProc
<1> HIDE DEF g
<1>4. /\ h = [q \in Workers |-> h[q]] /\ \A q \in Workers : q # p => h[q] = g[q]
      /\ IsProc(h[p]) /\ h[p].pc = g[p].pc /\ h[p].key = g[p].key /\ h[p].id = g[p].id
      /\ h[p].answer = g[p].answer
  BY <1>3 DEF IsProc
<1> HIDE DEF h
<1>5. h = [proc EXCEPT ![p] = h[p]]
  BY <1>2, <1>3, <1>4 DEF Shapes
<1>6. Becomes(p, h[p])
  BY <1>1, <1>5 DEF Becomes
<1> QED BY <1>2, <1>3, <1>4, <1>6 DEF Released, Return

\* A step of one worker that appends nothing to the ledger and sends nothing.  A decoded
\* answer may have entered the cache.
Quiet(p, r) ==
  /\ Becomes(p, r) /\ IsProc(r)
  /\ UNCHANGED <<route, wave, posts>>
  /\ IsDisk(disk') /\ disk'.ledger = disk.ledger
  /\ route.ledger => \A k \in DOMAIN disk'.cache :
       (k \in DOMAIN disk.cache /\ disk'.cache[k] = disk.cache[k]) \/ Decoded(disk'.cache[k])

\* Its call goes on under the lock, or is over.
Permitted(p, r) ==
  /\ \/ /\ proc[p].pc \in Inside /\ r.pc \in Inside \ {"post"} /\ r.key = proc[p].key
        /\ UNCHANGED flock
     \/ r.pc \notin Inside /\ (UNCHANGED flock \/ Released(p))
  /\ r.pc = "lock" => r.key \in Keys
  /\ r.pc = "start" /\ route.cache /\ route.ledger =>
       \A i \in DOMAIN disk.ledger : ~Concerns(disk.ledger[i], r.key, wave)
  /\ route.ledger => /\ r.pc = "store" => Decoded(r.id)
                     /\ r.pc = "answered" => Decoded(r.answer)

LEMMA QuietStep ==
  ASSUME ProviderInv, NEW p \in Workers, NEW r, Quiet(p, r), Permitted(p, r)
  PROVE  ProviderInv'
<1>1. /\ proc' = [q \in Workers |-> proc'[q]] /\ \A q \in Workers : IsProc(proc'[q])
      /\ proc'[p] = r /\ \A q \in Workers : q # p => proc'[q] = proc[q]
  BY BecomesProc DEF ProviderInv, Quiet
<1>2. Shapes'
  BY <1>1 DEF ProviderInv, Shapes, Quiet, Permitted, Released
<1>3. LockIsHeld'
  BY <1>1, ExtractionAssumption
     DEF ProviderInv, LockIsHeld, Shapes, Quiet, Permitted, Released, Inside, ExtractionAssumption
<1>4. StartedOnce'
  BY <1>1 DEF ProviderInv, StartedOnce, Quiet, Permitted, Inside
<1>5. SentIsRecorded'
  BY <1>1 DEF ProviderInv, SentIsRecorded, Recorded, Quiet, Permitted, Inside
<1>6. \A a : Decoded(a)' <=> Decoded(a)
  BY DEF Decoded, DecodedIn, Quiet
<1>7. AnswerIsDecoded'
  BY <1>1, <1>6 DEF ProviderInv, AnswerIsDecoded, Quiet, Permitted, Inside
<1>8. WithinReservation'
  BY DEF ProviderInv, WithinReservation, Reserved, Quiet
<1> QED BY <1>2, <1>3, <1>4, <1>5, <1>7, <1>8 DEF ProviderInv

\* A step that appends an event of the worker's own call to the ledger.
Appending(p, r, e) ==
  /\ Becomes(p, r) /\ IsProc(r)
  /\ UNCHANGED <<route, wave, posts>>
  /\ disk' = [disk EXCEPT !.ledger = Append(@, e)]
  /\ Concerns(e, proc[p].key, wave) /\ e.id = proc[p].id
  /\ proc[p].pc \in Inside
  /\ \/ r.pc \in Inside /\ r.key = proc[p].key /\ UNCHANGED flock
     \/ r.pc \notin Inside \cup {"lock", "answered"} /\ Released(p)

LEMMA AppendStep ==
  ASSUME ProviderInv, NEW p \in Workers, NEW r, NEW e, Appending(p, r, e), route.ledger,
         e.event = "started" => proc[p].pc = "start" /\ Appends("started"),
         r.pc # "start" /\ r.pc # "answered",
         r.pc = "post" => e.event = "started" /\ r.id = proc[p].id,
         r.pc = "store" => e.status = "decoded" /\ r.id = proc[p].id
  PROVE  ProviderInv'
<1> DEFINE n == Len(disk.ledger)
<1>1. /\ proc' = [q \in Workers |-> proc'[q]] /\ \A q \in Workers : IsProc(proc'[q])
      /\ proc'[p] = r /\ \A q \in Workers : q # p => proc'[q] = proc[q]
  BY BecomesProc DEF ProviderInv, Appending
<1>2. /\ IsDisk(disk') /\ n \in Nat /\ DOMAIN disk.ledger = 1..n
      /\ DOMAIN disk'.ledger = 1..n + 1 /\ disk'.ledger[n + 1] = e
      /\ \A i \in 1..n : disk'.ledger[i] = disk.ledger[i]
      /\ disk'.cache = disk.cache
  <2>1. IsSeq(disk.ledger) /\ IsDisk(disk)
    BY DEF ProviderInv, Shapes, IsDisk
  <2>2. /\ disk'.ledger = Append(disk.ledger, e) /\ disk'.cache = disk.cache
        /\ disk' = [ledger |-> disk'.ledger, torn |-> disk'.torn, journal |-> disk'.journal,
                    cache |-> disk'.cache]
    BY <2>1 DEF Appending, IsDisk
  <2> QED BY <2>1, <2>2, AppendIsSeq DEF IsDisk
<1> HIDE DEF n
<1>3. Shapes'
  BY <1>1, <1>2 DEF ProviderInv, Shapes, Appending, Released
<1>4. LockIsHeld'
  BY <1>1, ExtractionAssumption
     DEF ProviderInv, LockIsHeld, Shapes, Appending, Released, Inside, ExtractionAssumption
<1>5. route' = route /\ wave' = wave /\ posts' = posts
  BY DEF Appending
<1>6. ASSUME route.cache, NEW q \in Workers, q # p, proc[q].pc \in Inside
      PROVE  proc[q].key # proc[p].key
  BY <1>6 DEF ProviderInv, LockIsHeld, Appending
<1>7. StartedOnce'
  <2> SUFFICES ASSUME route.cache
               PROVE  /\ \A i, j \in 1..n + 1 : \A k, w :
                           StartOf(disk'.ledger[i], k, w) /\ StartOf(disk'.ledger[j], k, w) => i = j
                      /\ \A q \in Workers : proc'[q].pc = "start" =>
                           \A i \in 1..n + 1 : ~Concerns(disk'.ledger[i], proc'[q].key, wave)
    BY <1>2, <1>5 DEF StartedOnce
  <2>1. /\ \A i, j \in 1..n : \A k, w :
             StartOf(disk.ledger[i], k, w) /\ StartOf(disk.ledger[j], k, w) => i = j
        /\ \A q \in Workers : proc[q].pc = "start" =>
             \A i \in 1..n : ~Concerns(disk.ledger[i], proc[q].key, wave)
    BY <1>2 DEF ProviderInv, StartedOnce
  <2>2. ASSUME NEW q \in Workers, proc'[q].pc = "start", NEW i \in 1..n + 1
        PROVE  ~Concerns(disk'.ledger[i], proc'[q].key, wave)
    <3>1. q # p /\ proc[q].pc = "start" /\ proc'[q].key = proc[q].key
      BY <1>1, <2>2
    <3>2. proc[q].key # proc[p].key
      BY <1>6, <3>1 DEF Inside
    <3>3. CASE i \in 1..n
      BY <1>2, <2>1, <3>1, <3>3
    <3>4. CASE i = n + 1
      BY <1>2, <3>1, <3>2, <3>4 DEF Appending, Concerns
    <3> QED BY <1>2, <3>3, <3>4
  <2>3. ASSUME NEW i \in 1..n, NEW k, NEW w, StartOf(disk.ledger[i], k, w), StartOf(e, k, w)
        PROVE  FALSE
    <3>1. proc[p].pc = "start" /\ k = proc[p].key /\ w = wave
      BY <2>3 DEF StartOf, Concerns, Appending
    <3>2. Concerns(disk.ledger[i], proc[p].key, wave)
      BY <2>3, <3>1 DEF StartOf
    <3> QED BY <2>1, <3>1, <3>2
  <2>4. ASSUME NEW i \in 1..n + 1, NEW j \in 1..n + 1, NEW k, NEW w,
               StartOf(disk'.ledger[i], k, w), StartOf(disk'.ledger[j], k, w)
        PROVE  i = j
    <3>1. \A m \in 1..n + 1 : m \in 1..n \/ m = n + 1
      BY <1>2
    <3>2. CASE i \in 1..n /\ j \in 1..n
      BY <1>2, <2>1, <2>4, <3>2
    <3>3. CASE i = n + 1 /\ j \in 1..n
      BY <1>2, <2>3, <2>4, <3>3
    <3>4. CASE i \in 1..n /\ j = n + 1
      BY <1>2, <2>3, <2>4, <3>4
    <3> QED BY <3>1, <3>2, <3>3, <3>4
  <2> QED BY <2>2, <2>4
<1>8. \A k, w, a : Recorded(k, w, a) => Recorded(k, w, a)'
  BY <1>2 DEF Recorded
<1>9. SentIsRecorded'
  <2>1. r.pc = "post" => Recorded(r.key, wave, r.id)'
    BY <1>2, <1>5 DEF Recorded, StartOf, Concerns, Appending, Inside
  <2> QED BY <1>1, <1>5, <1>8, <2>1 DEF ProviderInv, SentIsRecorded
<1>10. \A a : Decoded(a) => Decoded(a)'
  BY <1>2 DEF Decoded, DecodedIn
<1>11. AnswerIsDecoded'
  <2>1. r.pc = "store" => Decoded(r.id)'
    BY <1>2 DEF Decoded, DecodedIn, Appending
  <2> QED BY <1>1, <1>2, <1>5, <1>10, <2>1 DEF ProviderInv, AnswerIsDecoded
<1>12. WithinReservation'
  <2> DEFINE S == {i \in 1..n : disk.ledger[i].event = "started"}
             T == {i \in 1..n + 1 : disk'.ledger[i].event = "started"}
  <2>1. Reserved = Cardinality(S) /\ Reserved' = Cardinality(T)
    BY <1>2 DEF Reserved
  <2>2. IsFiniteSet(S) /\ n + 1 \notin S
    <3>1. IsFiniteSet(1..n)
      BY <1>2, FS_Interval
    <3>2. S \subseteq 1..n /\ n + 1 \notin S
      BY <1>2
    <3> QED BY <3>1, <3>2, FS_Subset
  <2>3. CASE e.event = "started"
    <3>1. T = S \cup {n + 1}
      BY <1>2, <2>3
    <3>2. Cardinality(T) = Cardinality(S) + 1
      BY <2>2, <3>1, FS_AddElement
    <3> QED BY <1>5, <2>1, <2>3, <3>2 DEF WithinReservation, Appends
  <2>4. CASE e.event # "started"
    <3>1. T = S
      BY <1>2, <2>4
    <3> QED BY <1>5, <2>1, <3>1 DEF ProviderInv, WithinReservation
  <2> QED BY <2>3, <2>4
<1> QED BY <1>3, <1>4, <1>7, <1>9, <1>11, <1>12 DEF ProviderInv

-----------------------------------------------------------------------------
(***************************************************************************)
(* The steps of extract_sync.                                              *)
(***************************************************************************)

\* The call goes on, and nothing is written.
LEMMA GoesOn ==
  ASSUME ProviderInv, NEW p \in Workers, UNCHANGED <<route, wave, disk, posts, flock>>,
         proc[p].pc \in Inside, NEW pc \in Inside \ {"post", "start", "store"}, Goto(p, pc)
  PROVE  ProviderInv'
<1>1. PICK r : /\ Becomes(p, r) /\ IsProc(r) /\ r.pc = pc
               /\ r.key = proc[p].key /\ r.id = proc[p].id /\ r.answer = proc[p].answer
  BY GotoBecomes DEF ProviderInv
<1>2. Quiet(p, r)
  BY <1>1 DEF Quiet, ProviderInv, Shapes
<1>3. Permitted(p, r)
  BY <1>1 DEF Permitted, Inside
<1> QED BY <1>2, <1>3, QuietStep

\* The call fails, and nothing is written.
LEMMA FailsStep ==
  ASSUME ProviderInv, NEW p \in Workers, UNCHANGED <<route, wave, disk, posts>>, Fails(p)
  PROVE  ProviderInv'
<1>1. /\ Released(p)
      /\ \E r : Becomes(p, r) /\ IsProc(r) /\ r.pc = "failed"
  BY ReturnBecomes DEF ProviderInv, Fails
<1>2. PICK r : Becomes(p, r) /\ IsProc(r) /\ r.pc = "failed"
  BY <1>1
<1>3. Quiet(p, r)
  BY <1>2 DEF Quiet, ProviderInv, Shapes
<1>4. Permitted(p, r)
  BY <1>1, <1>2 DEF Permitted, Inside
<1> QED BY <1>3, <1>4, QuietStep

\* The call returns an answer that was decoded, or nothing; it may be in the cache now.
LEMMA AnswerStep ==
  ASSUME ProviderInv, NEW p \in Workers, NEW a, route.ledger => Decoded(a),
         UNCHANGED <<route, wave, posts>>, IsDisk(disk'), disk'.ledger = disk.ledger,
         \A k \in DOMAIN disk'.cache :
            (k \in DOMAIN disk.cache /\ disk'.cache[k] = disk.cache[k]) \/ disk'.cache[k] = a,
         Return(p, "answered", a)
  PROVE  ProviderInv'
<1>1. /\ Released(p)
      /\ \E r : Becomes(p, r) /\ IsProc(r) /\ r.pc = "answered" /\ r.answer = a
  BY ReturnBecomes DEF ProviderInv
<1>2. PICK r : Becomes(p, r) /\ IsProc(r) /\ r.pc = "answered" /\ r.answer = a
  BY <1>1
<1>3. Quiet(p, r)
  BY <1>2 DEF Quiet
<1>4. Permitted(p, r)
  BY <1>1, <1>2 DEF Permitted, Inside
<1> QED BY <1>3, <1>4, QuietStep

\* The lock of the key.
LEMMA LockStep ==
  ASSUME ProviderInv, NEW p \in Workers, Lock(p)
  PROVE  ProviderInv'
<1>0. proc[p].pc = "lock" /\ UNCHANGED <<route, wave, disk, posts>>
  BY DEF Lock, At
<1>1. PICK r : /\ Becomes(p, r) /\ IsProc(r) /\ r.pc = "load" /\ r.key = proc[p].key
  BY GotoBecomes DEF ProviderInv, Lock
<1>2. /\ proc' = [q \in Workers |-> proc'[q]] /\ \A q \in Workers : IsProc(proc'[q])
      /\ proc'[p] = r /\ \A q \in Workers : q # p => proc'[q] = proc[q]
  BY <1>1, BecomesProc DEF ProviderInv
<1>3. proc[p].key \in Keys
  BY <1>0 DEF ProviderInv, LockIsHeld
<1>4. Shapes'
  BY <1>0, <1>2 DEF ProviderInv, Shapes, Lock
<1>5. LockIsHeld'
  <2>1. CASE ~route.cache
    BY <1>0, <1>1, <1>2, <1>3, <2>1 DEF ProviderInv, LockIsHeld, Inside
  <2>2. CASE route.cache
    <3>1. flock[proc[p].key] = NoKey /\ flock' = [flock EXCEPT ![proc[p].key] = p]
      BY <2>2 DEF Lock, LockFree
    <3>2. \A q \in Workers : q # p /\ proc[q].pc \in Inside => proc[q].key # proc[p].key
      BY <2>2, <3>1, ExtractionAssumption DEF ProviderInv, LockIsHeld, ExtractionAssumption
    <3> QED BY <1>0, <1>1, <1>2, <1>3, <2>2, <3>1, <3>2
            DEF ProviderInv, LockIsHeld, Shapes, Inside
  <2> QED BY <2>1, <2>2
<1>6. StartedOnce'
  BY <1>0, <1>1, <1>2 DEF ProviderInv, StartedOnce
<1>7. SentIsRecorded'
  BY <1>0, <1>1, <1>2 DEF ProviderInv, SentIsRecorded, Recorded
<1>8. AnswerIsDecoded' /\ WithinReservation'
  BY <1>0, <1>1, <1>2
     DEF ProviderInv, AnswerIsDecoded, Decoded, DecodedIn, WithinReservation, Reserved
<1> QED BY <1>4, <1>5, <1>6, <1>7, <1>8 DEF ProviderInv

\* The cache.
LEMMA LoadStep ==
  ASSUME ProviderInv, NEW p \in Workers, Load(p)
  PROVE  ProviderInv'
<1>0. proc[p].pc = "load" /\ UNCHANGED <<route, wave, disk, posts>> /\ IsDisk(disk')
  BY DEF Load, At, ProviderInv, Shapes
<1>1. CASE Fails(p)
  BY <1>0, <1>1, FailsStep
<1>2. CASE Goto(p, "resume") /\ UNCHANGED flock
  BY <1>0, <1>2, GoesOn DEF Inside
<1>3. CASE /\ proc[p].key \in DOMAIN disk.cache
           /\ Return(p, "answered", disk.cache[proc[p].key])
  <2>1. route.ledger => Decoded(disk.cache[proc[p].key])
    BY <1>3 DEF ProviderInv, AnswerIsDecoded
  <2> QED BY <1>0, <1>3, <2>1, AnswerStep
<1> QED BY <1>1, <1>2, <1>3 DEF Load

\* What the ledger says of a key and wave.
LEMMA AttemptState ==
  ASSUME ProviderInv, NEW k
  PROVE  /\ exact_attempt_state(k) = "absent" =>
              \A i \in DOMAIN disk.ledger : ~Concerns(disk.ledger[i], k, wave)
         /\ exact_attempt_state(k) = "decoded" => Decoded(AttemptOf(k))
<1>1. exact_attempt_state(k) = "absent" => EventsOf(k) = {}
  BY DEF exact_attempt_state
<1>2. EventsOf(k) = {} => \A i \in DOMAIN disk.ledger : ~Concerns(disk.ledger[i], k, wave)
  BY DEF EventsOf, Concerns
<1>3. ASSUME exact_attempt_state(k) = "decoded" PROVE Decoded(AttemptOf(k))
  <2>1. EventsOf(k) # {} /\ disk.ledger[Max(EventsOf(k))].status = "decoded"
        /\ disk.ledger[Max(EventsOf(k))].id = AttemptOf(k)
    BY <1>3 DEF exact_attempt_state, AttemptOf
  <2>2. Len(disk.ledger) \in Nat /\ DOMAIN disk.ledger = 1..Len(disk.ledger)
    BY AppendIsSeq DEF ProviderInv, Shapes, IsDisk
  <2>3. Max(EventsOf(k)) \in DOMAIN disk.ledger
    <3>1. EventsOf(k) \in SUBSET (1..Len(disk.ledger))
      BY <2>2 DEF EventsOf
    <3>2. Max(EventsOf(k)) \in EventsOf(k)
      BY <2>1, <2>2, <3>1, MaxIsIn
    <3> QED BY <3>2 DEF EventsOf
  <2> QED BY <2>1, <2>3 DEF Decoded, DecodedIn
<1> QED BY <1>1, <1>2, <1>3

\* resume_exact_attempt: an attempt is started only if there is no trace of one, and its
\* answer is taken from the journal only if it was decoded.
LEMMA ResumeStep ==
  ASSUME ProviderInv, NEW p \in Workers, Resume(p)
  PROVE  ProviderInv'
<1> DEFINE k == proc[p].key
           id == AttemptOf(k)
           state == IF route.ledger THEN exact_attempt_state(k) ELSE "absent"
<1>0. proc[p].pc = "resume" /\ UNCHANGED <<route, wave, disk, posts>> /\ IsDisk(disk')
      /\ Shapes
  BY DEF Resume, At, ProviderInv, Shapes
<1>1. CASE Fails(p)
  BY <1>0, <1>1, FailsStep
<1>2. CASE state = "absent" /\ Goto(p, "start") /\ UNCHANGED flock
  <2>1. PICK r : /\ Becomes(p, r) /\ IsProc(r) /\ r.pc = "start" /\ r.key = proc[p].key
    BY <1>0, <1>2, GotoBecomes
  <2>2. Quiet(p, r)
    BY <1>0, <2>1 DEF Quiet
  <2>3. route.ledger => \A i \in DOMAIN disk.ledger : ~Concerns(disk.ledger[i], k, wave)
    BY <1>2, AttemptState
  <2>4. Permitted(p, r)
    BY <1>0, <1>2, <2>1, <2>3 DEF Permitted, Inside
  <2> QED BY <2>2, <2>4, QuietStep
<1>3. CASE Return(p, "answered", SpentAnswer(id))
  <2>1. SpentAnswer(id) = Nothing /\ Decoded(Nothing)
    BY DEF SpentAnswer, Decoded, DecodedIn
  <2> QED BY <1>0, <1>3, <2>1, AnswerStep
<1>4. CASE ResumeStarted(p, id)
  <2>1. CASE \E r : /\ Becomes(p, r) /\ IsProc(r) /\ UNCHANGED flock /\ r.key = proc[p].key
                    /\ r.pc \in {"refused", "decode", "reconcile"}
    <3>1. PICK r : /\ Becomes(p, r) /\ IsProc(r) /\ UNCHANGED flock /\ r.key = proc[p].key
                   /\ r.pc \in {"refused", "decode", "reconcile"}
      BY <2>1
    <3>2. Quiet(p, r)
      BY <1>0, <3>1 DEF Quiet
    <3>3. Permitted(p, r)
      BY <1>0, <3>1 DEF Permitted, Inside
    <3> QED BY <3>2, <3>3, QuietStep
  <2>2. CASE ~Fails(p)
    <3> DEFINE reply == disk.journal[File(p, "response")].reply
               kept == [proc[p] EXCEPT !.id = id, !.reply = reply, !.resumed = TRUE]
               pc == IF reply = "refused" THEN "refused"
                     ELSE IF Exists(p, "generation") THEN "decode" ELSE "reconcile"
               r == [kept EXCEPT !.pc = pc]
    <3>1. Becomes(p, r) /\ UNCHANGED flock
      BY <1>4, <2>2 DEF ResumeStarted, LostAnswer, Becomes
    <3> HIDE DEF reply, id
    <3>2. IsProc(kept) /\ kept.key = proc[p].key
      <4> DEFINE a == [proc[p] EXCEPT !.id = id]
                 b == [a EXCEPT !.reply = reply]
      <4>1. IsProc(a) /\ a.key = proc[p].key
        BY <1>0 DEF Shapes, IsProc
      <4>2. kept = [b EXCEPT !.resumed = TRUE]
        OBVIOUS
      <4> HIDE DEF a, kept
      <4>3. IsProc(b) /\ b.key = a.key
        BY <4>1 DEF IsProc
      <4> HIDE DEF b
      <4> QED BY <4>1, <4>2, <4>3 DEF IsProc
    <3>3. pc \in {"refused", "decode", "reconcile"}
      OBVIOUS
    <3> HIDE DEF kept, pc
    <3>4. IsProc(r) /\ r.pc = pc /\ r.key = kept.key
      BY <3>2 DEF IsProc
    <3> HIDE DEF r
    <3> QED BY <2>1, <3>1, <3>2, <3>3, <3>4
  <2> QED BY <1>1, <2>2
<1>5. CASE state = "decoded" /\ ResumeDecoded(p, id)
  <2>1. CASE ~Fails(p)
    <3> DEFINE reply == disk.journal[File(p, "generation")].reply
               f == [proc EXCEPT ![p].pc = "store"]
               g == [f EXCEPT ![p].id = id]
               h == [g EXCEPT ![p].reply = reply]
    <3>1. proc' = h /\ UNCHANGED flock
      BY <1>5, <2>1 DEF ResumeDecoded
    <3> HIDE DEF reply, id
    <3>2. /\ f = [q \in Workers |-> f[q]] /\ \A q \in Workers : q # p => f[q] = proc[q]
          /\ IsProc(f[p]) /\ f[p].pc = "store" /\ f[p].key = proc[p].key
      BY <1>0 DEF Shapes, IsProc
    <3> HIDE DEF f
    <3>3. /\ g = [q \in Workers |-> g[q]] /\ \A q \in Workers : q # p => g[q] = f[q]
          /\ IsProc(g[p]) /\ g[p].pc = f[p].pc /\ g[p].key = f[p].key /\ g[p].id = id
      BY <3>2 DEF IsProc
    <3> HIDE DEF g
    <3>4. /\ h = [q \in Workers |-> h[q]] /\ \A q \in Workers : q # p => h[q] = g[q]
          /\ IsProc(h[p]) /\ h[p].pc = g[p].pc /\ h[p].key = g[p].key /\ h[p].id = g[p].id
      BY <3>3 DEF IsProc
    <3> HIDE DEF h
    <3>5. h = [proc EXCEPT ![p] = h[p]]
      BY <1>0, <3>2, <3>3, <3>4 DEF Shapes
    <3>6. Becomes(p, h[p]) /\ h[p].pc = "store" /\ h[p].key = proc[p].key /\ h[p].id = id
      BY <3>1, <3>2, <3>3, <3>4, <3>5 DEF Becomes
    <3>7. PICK r : /\ Becomes(p, r) /\ IsProc(r) /\ r.pc = "store" /\ r.key = proc[p].key
                   /\ r.id = id
      BY <3>4, <3>6
    <3>8. Quiet(p, r)
      BY <1>0, <3>7 DEF Quiet
    <3>9. route.ledger => Decoded(id)
      BY <1>5, AttemptState DEF id
    <3>10. Permitted(p, r)
      BY <1>0, <3>1, <3>7, <3>9 DEF Permitted, Inside
    <3> QED BY <3>8, <3>10, QuietStep
  <2> QED BY <1>1, <2>1
<1> QED BY <1>1, <1>2, <1>3, <1>4, <1>5 DEF Resume

\* A number for the attempt.
LEMMA NameStep ==
  ASSUME ProviderInv, NEW p \in Workers, Name(p)
  PROVE  ProviderInv'
<1>0. /\ proc[p].pc = "start" /\ UNCHANGED <<route, wave, disk, flock, posts>> /\ IsDisk(disk')
      /\ Shapes
  BY DEF Name, At, ProviderInv, Shapes
<1> DEFINE r == [proc[p] EXCEPT !.id = Fresh]
<1>1. Becomes(p, r)
  BY DEF Name, Becomes
<1>2. IsProc(r) /\ r.pc = "start" /\ r.key = proc[p].key
  BY <1>0 DEF Shapes, IsProc
<1> HIDE DEF r
<1>3. PICK s : Becomes(p, s) /\ IsProc(s) /\ s.pc = "start" /\ s.key = proc[p].key
  BY <1>1, <1>2
<1>4. Quiet(p, s)
  BY <1>0, <1>3 DEF Quiet
<1>5. Permitted(p, s)
  BY <1>0, <1>3 DEF Permitted, Inside, ProviderInv, StartedOnce
<1> QED BY <1>4, <1>5, QuietStep

\* An event that is refused by the ledger ends the call.
LEMMA RecordStep ==
  ASSUME ProviderInv, NEW p \in Workers, UNCHANGED <<route, wave, posts>>,
         NEW event \in {"started", "result"}, NEW status, NEW pc,
         proc[p].pc \in Inside, event = "started" => proc[p].pc = "start",
         pc \in {"post", "store", "failed"},
         pc = "post" => event = "started", pc = "store" => status = "decoded",
         \/ /\ route.ledger /\ ~Appends(event) /\ Fails(p) /\ UNCHANGED disk
         \/ /\ ~(route.ledger /\ ~Appends(event))
            /\ IF pc = "failed" THEN Fails(p) ELSE Goto(p, pc) /\ UNCHANGED flock
            /\ disk' = IF route.ledger
                         THEN [disk EXCEPT !.ledger = Append(@, Event(event, p, status))]
                         ELSE disk
  PROVE  ProviderInv'
<1>1. CASE UNCHANGED disk /\ Fails(p)
  BY <1>1, FailsStep
<1>2. PICK r : /\ IsProc(r) /\ Becomes(p, r)
               /\ ~(UNCHANGED disk /\ Fails(p)) =>
                     /\ r.pc = pc /\ r.key = proc[p].key /\ r.id = proc[p].id
                     /\ IF pc = "failed" THEN Released(p) ELSE UNCHANGED flock
  <2>1. CASE Fails(p) /\ pc = "failed"
    <3>1. /\ Released(p)
          /\ \E r : /\ Becomes(p, r) /\ IsProc(r) /\ r.pc = "failed"
                    /\ r.key = proc[p].key /\ r.id = proc[p].id
      BY <2>1, ReturnBecomes DEF Fails, ProviderInv
    <3> QED BY <2>1, <3>1
  <2>2. CASE Fails(p) /\ UNCHANGED disk
    <3>1. \E r : Becomes(p, r) /\ IsProc(r)
      BY <2>2, ReturnBecomes DEF Fails, ProviderInv
    <3> QED BY <2>2, <3>1
  <2>3. CASE pc # "failed" /\ Goto(p, pc) /\ UNCHANGED flock
    <3>1. \E r : /\ Becomes(p, r) /\ IsProc(r) /\ r.pc = pc
                 /\ r.key = proc[p].key /\ r.id = proc[p].id
      BY <2>3, GotoBecomes DEF ProviderInv
    <3> QED BY <2>3, <3>1
  <2> QED BY <2>1, <2>2, <2>3
<1>3. CASE route.ledger /\ ~(UNCHANGED disk /\ Fails(p))
  <2> DEFINE e == Event(event, p, status)
  <2>1. /\ e.event = event /\ e.key = proc[p].key /\ e.wave = wave /\ e.id = proc[p].id
        /\ e.status = status
    BY DEF Event
  <2>2. disk' = [disk EXCEPT !.ledger = Append(@, e)] /\ Appends(event)
    BY <1>3
  <2>3. PICK f : f = e
    OBVIOUS
  <2> HIDE DEF e
  <2>4. Appending(p, r, f)
    BY <1>2, <1>3, <2>1, <2>2, <2>3 DEF Appending, Concerns, Inside
  <2> QED BY <1>2, <1>3, <2>1, <2>2, <2>3, <2>4, AppendStep
<1>4. CASE ~route.ledger /\ ~(UNCHANGED disk /\ Fails(p))
  <2>1. disk' = disk /\ IsDisk(disk')
    BY <1>4 DEF ProviderInv, Shapes
  <2>2. CASE pc # "post"
    <3>1. Quiet(p, r)
      BY <1>2, <1>4, <2>1 DEF Quiet
    <3>2. Permitted(p, r)
      BY <1>2, <1>4, <2>2 DEF Permitted, Inside
    <3> QED BY <3>1, <3>2, QuietStep
  <2>3. CASE pc = "post"
    <3>1. /\ proc' = [q \in Workers |-> proc'[q]] /\ \A q \in Workers : IsProc(proc'[q])
          /\ proc'[p] = r /\ \A q \in Workers : q # p => proc'[q] = proc[q]
      BY <1>2, BecomesProc DEF ProviderInv
    <3>2. Shapes' /\ LockIsHeld'
      BY <1>2, <1>4, <2>1, <2>3, <3>1 DEF ProviderInv, Shapes, LockIsHeld, Inside
    <3>3. SentIsRecorded'
      BY <1>4 DEF ProviderInv, SentIsRecorded
    <3>4. StartedOnce' /\ AnswerIsDecoded' /\ WithinReservation'
      BY <1>4 DEF StartedOnce, AnswerIsDecoded, WithinReservation
    <3> QED BY <3>2, <3>3, <3>4 DEF ProviderInv
  <2> QED BY <2>2, <2>3
<1> QED BY <1>1, <1>3, <1>4

LEMMA StartStep ==
  ASSUME ProviderInv, NEW p \in Workers, Start(p)
  PROVE  ProviderInv'
BY RecordStep DEF Start, Record, At, Inside

LEMMA CompleteStep ==
  ASSUME ProviderInv, NEW p \in Workers, Complete(p)
  PROVE  ProviderInv'
BY RecordStep DEF Complete, Record, At, Inside

LEMMA RecordFailureStep ==
  ASSUME ProviderInv, NEW p \in Workers, RecordFailure(p)
  PROVE  ProviderInv'
<1>1. PICK status : /\ proc[p].pc \in {"unsent", "refused", "undecodable"}
                    /\ Record(p, "result", status, Fails(p))
  BY DEF RecordFailure, At
<1>2. UNCHANGED <<route, wave, posts>>
  BY DEF RecordFailure
<1> DEFINE pc == "failed"
<1>3. \/ /\ route.ledger /\ ~Appends("result") /\ Fails(p) /\ UNCHANGED disk
      \/ /\ ~(route.ledger /\ ~Appends("result"))
         /\ IF pc = "failed" THEN Fails(p) ELSE Goto(p, pc) /\ UNCHANGED flock
         /\ disk' = IF route.ledger
                      THEN [disk EXCEPT !.ledger = Append(@, Event("result", p, status))]
                      ELSE disk
  BY <1>1 DEF Record
<1>4. /\ proc[p].pc \in Inside /\ pc \in {"post", "store", "failed"}
      /\ ("result" = "started" => proc[p].pc = "start")
      /\ pc # "post" /\ pc # "store"
  BY <1>1 DEF Inside
<1>5. "result" \in {"started", "result"}
  OBVIOUS
<1> HIDE DEF pc
<1> QED BY <1>2, <1>3, <1>4, <1>5, RecordStep

\* The request is sent, and there is a reply or there is none.
LEMMA PostStep ==
  ASSUME ProviderInv, NEW p \in Workers, Post(p)
  PROVE  ProviderInv'
<1>0. /\ proc[p].pc = "post" /\ UNCHANGED <<route, wave, disk, flock>> /\ Shapes
      /\ posts' = posts \cup {[key |-> proc[p].key, wave |-> wave, id |-> proc[p].id]}
  BY DEF Post, At, ProviderInv
<1>1. PICK r : /\ Becomes(p, r) /\ IsProc(r) /\ r.pc \in {"unsent", "keep"}
               /\ r.key = proc[p].key
  <2>1. CASE Goto(p, "unsent")
    BY <1>0, <2>1, GotoBecomes
  <2>2. CASE \E reply \in Replies : proc' = [proc EXCEPT ![p].pc = "keep", ![p].reply = reply]
    <3>1. PICK reply : proc' = [proc EXCEPT ![p].pc = "keep", ![p].reply = reply]
      BY <2>2
    <3> DEFINE f == [proc EXCEPT ![p].pc = "keep"]
               g == [f EXCEPT ![p].reply = reply]
    <3>2. /\ f = [q \in Workers |-> f[q]] /\ \A q \in Workers : q # p => f[q] = proc[q]
          /\ IsProc(f[p]) /\ f[p].pc = "keep" /\ f[p].key = proc[p].key
      BY <1>0 DEF Shapes, IsProc
    <3>3. proc' = g
      BY <3>1
    <3> HIDE DEF f
    <3>4. /\ g = [q \in Workers |-> g[q]] /\ \A q \in Workers : q # p => g[q] = f[q]
          /\ IsProc(g[p]) /\ g[p].pc = f[p].pc /\ g[p].key = f[p].key
      BY <3>2 DEF IsProc
    <3> HIDE DEF g
    <3>5. g = [proc EXCEPT ![p] = g[p]]
      BY <1>0, <3>2, <3>4 DEF Shapes
    <3> QED BY <3>2, <3>3, <3>4, <3>5 DEF Becomes
  <2> QED BY <2>1, <2>2 DEF Post
<1>2. /\ proc' = [q \in Workers |-> proc'[q]] /\ \A q \in Workers : IsProc(proc'[q])
      /\ proc'[p] = r /\ \A q \in Workers : q # p => proc'[q] = proc[q]
  BY <1>0, <1>1, BecomesProc
<1>3. Shapes'
  BY <1>0, <1>2 DEF Shapes
<1>4. LockIsHeld'
  BY <1>0, <1>1, <1>2 DEF ProviderInv, LockIsHeld, Inside
<1>5. StartedOnce'
  BY <1>0, <1>1, <1>2 DEF ProviderInv, StartedOnce
<1>6. SentIsRecorded'
  <2>1. route.ledger => Recorded(proc[p].key, wave, proc[p].id)
    BY <1>0 DEF ProviderInv, SentIsRecorded
  <2>2. \A k, w, a : Recorded(k, w, a)' <=> Recorded(k, w, a)
    BY <1>0 DEF Recorded
  <2> QED BY <1>0, <1>1, <1>2, <2>1, <2>2 DEF ProviderInv, SentIsRecorded
<1>7. AnswerIsDecoded' /\ WithinReservation'
  BY <1>0, <1>1, <1>2
     DEF ProviderInv, AnswerIsDecoded, Decoded, DecodedIn, WithinReservation, Reserved
<1> QED BY <1>3, <1>4, <1>5, <1>6, <1>7 DEF ProviderInv

\* A journal file is created, or the call fails; ledger and cache stay as they are.
LEMMA KeepStep ==
  ASSUME ProviderInv, NEW p \in Workers, NEW stage, UNCHANGED <<route, wave, posts>>,
         proc[p].pc \in Inside, NEW pc \in Inside \ {"post", "start", "store"},
         \/ Fails(p) /\ UNCHANGED disk
         \/ /\ Goto(p, pc) /\ UNCHANGED flock
            /\ disk' = IF route.journal
                         THEN [disk EXCEPT !.journal = Put(@, File(p, stage),
                                             [id |-> proc[p].id, reply |-> proc[p].reply])]
                         ELSE disk
  PROVE  ProviderInv'
<1>1. CASE Fails(p) /\ UNCHANGED disk
  BY <1>1, FailsStep
<1>2. CASE /\ Goto(p, pc) /\ UNCHANGED flock
           /\ \/ UNCHANGED disk
              \/ \E j : disk' = [disk EXCEPT !.journal = j]
  <2>1. PICK r : Becomes(p, r) /\ IsProc(r) /\ r.pc = pc /\ r.key = proc[p].key
    BY <1>2, GotoBecomes DEF ProviderInv
  <2>2. IsDisk(disk') /\ disk'.ledger = disk.ledger /\ disk'.cache = disk.cache
    BY <1>2 DEF ProviderInv, Shapes, IsDisk
  <2>3. Quiet(p, r)
    BY <2>1, <2>2 DEF Quiet
  <2>4. Permitted(p, r)
    BY <1>2, <2>1 DEF Permitted, Inside
  <2> QED BY <2>3, <2>4, QuietStep
<1> QED BY <1>1, <1>2

LEMMA KeepResponseStep ==
  ASSUME ProviderInv, NEW p \in Workers, KeepResponse(p)
  PROVE  ProviderInv'
<1> DEFINE pc == IF proc[p].reply = "refused" THEN "refused" ELSE "reconcile"
<1>1. /\ proc[p].pc \in Inside /\ UNCHANGED <<route, wave, posts>>
      /\ pc \in Inside \ {"post", "start", "store"}
  BY DEF KeepResponse, At, Inside
<1>2. Keep(p, "response", Goto(p, pc) /\ UNCHANGED flock)
  BY DEF KeepResponse
<1>3. PICK c : c = pc
  OBVIOUS
<1>4. Keep(p, "response", Goto(p, c) /\ UNCHANGED flock)
  BY <1>2, <1>3 DEF Keep, Goto
<1> HIDE DEF pc
<1> QED BY <1>1, <1>3, <1>4, KeepStep DEF Keep

LEMMA KeepGenerationStep ==
  ASSUME ProviderInv, NEW p \in Workers, KeepGeneration(p)
  PROVE  ProviderInv'
<1>1. /\ proc[p].pc \in Inside /\ UNCHANGED <<route, wave, posts>>
      /\ "decode" \in Inside \ {"post", "start", "store"}
  BY DEF KeepGeneration, At, Inside
<1>2. Keep(p, "generation", Goto(p, "decode") /\ UNCHANGED flock)
  BY DEF KeepGeneration
<1> QED BY <1>1, <1>2, KeepStep DEF Keep

LEMMA ReconcileStep ==
  ASSUME ProviderInv, NEW p \in Workers, Reconcile(p)
  PROVE  ProviderInv'
<1>1. proc[p].pc \in Inside /\ UNCHANGED <<route, wave, disk, posts>>
  BY DEF Reconcile, At, Inside
<1>2. CASE Fails(p)
  BY <1>1, <1>2, FailsStep
<1>3. CASE Goto(p, "generation") /\ UNCHANGED flock
  BY <1>1, <1>3, GoesOn DEF Inside
<1> QED BY <1>2, <1>3 DEF Reconcile

LEMMA DecodeStep ==
  ASSUME ProviderInv, NEW p \in Workers, Decode(p)
  PROVE  ProviderInv'
<1>1. proc[p].pc \in Inside /\ UNCHANGED <<route, wave, disk, posts>>
  BY DEF Decode, At, Inside
<1>2. CASE Fails(p)
  BY <1>1, <1>2, FailsStep
<1>3. CASE (Goto(p, "complete") \/ Goto(p, "undecodable")) /\ UNCHANGED flock
  BY <1>1, <1>3, GoesOn DEF Inside
<1> QED BY <1>2, <1>3 DEF Decode

\* CampaignCache::store.
LEMMA StoreStep ==
  ASSUME ProviderInv, NEW p \in Workers, Store(p)
  PROVE  ProviderInv'
<1>0. /\ proc[p].pc = "store" /\ UNCHANGED <<route, wave, posts>> /\ IsDisk(disk)
      /\ route.ledger => Decoded(proc[p].id)
  BY DEF Store, At, ProviderInv, Shapes, AnswerIsDecoded
<1>1. CASE Fails(p) /\ UNCHANGED disk
  BY <1>0, <1>1, FailsStep
<1>2. CASE Return(p, "answered", proc[p].id) /\ UNCHANGED disk
  BY <1>0, <1>2, AnswerStep
<1>3. CASE /\ Return(p, "answered", proc[p].id)
           /\ disk' = [disk EXCEPT !.cache = Put(@, proc[p].key, proc[p].id)]
  <2> DEFINE k == proc[p].key
             id == proc[p].id
             c == Put(disk.cache, k, id)
  <2>1. \A x \in DOMAIN c : (x \in DOMAIN disk.cache /\ c[x] = disk.cache[x]) \/ c[x] = id
    BY DEF Put
  <2>2. disk' = [disk EXCEPT !.cache = c]
    BY <1>3
  <2> HIDE DEF c
  <2>3. IsDisk(disk') /\ disk'.ledger = disk.ledger /\ disk'.cache = c
    BY <1>0, <2>2 DEF IsDisk
  <2> QED BY <1>0, <1>3, <2>1, <2>3, AnswerStep
<1> QED BY <1>1, <1>2, <1>3 DEF Store

\* Every step of a call.
LEMMA ExtractionStep ==
  ASSUME ProviderInv, NEW p \in Workers, Extraction(p)
  PROVE  ProviderInv'
BY LockStep, LoadStep, ResumeStep, NameStep, StartStep, PostStep, KeepResponseStep,
   ReconcileStep, KeepGenerationStep, DecodeStep, RecordFailureStep, CompleteStep, StoreStep
   DEF Extraction

\* What a crash leaves of a write is in the journal, or cuts the last line of the ledger.
LEMMA CrashStep ==
  ASSUME ProviderInv, NEW p \in Workers, Crash(p)
  PROVE  ProviderInv' /\ disk'.ledger = disk.ledger
<1>1. Becomes(p, Down) /\ Released(p) /\ UNCHANGED <<route, wave, posts>>
  BY DEF Crash, Becomes, Released
<1>2. \/ disk' = disk \/ disk' = [disk EXCEPT !.torn = TRUE]
      \/ \E j : disk' = [disk EXCEPT !.journal = j]
  BY DEF Crash, Written
<1>3. IsDisk(disk') /\ disk'.ledger = disk.ledger /\ disk'.cache = disk.cache
  BY <1>2 DEF ProviderInv, Shapes, IsDisk
<1>4. IsProc(Down) /\ Down.pc = "off"
  BY DEF IsProc, Down
<1>5. PICK r : r = Down
  OBVIOUS
<1>6. Quiet(p, r)
  BY <1>1, <1>3, <1>4, <1>5 DEF Quiet
<1>7. Permitted(p, r)
  BY <1>1, <1>4, <1>5 DEF Permitted, Inside
<1> QED BY <1>3, <1>6, <1>7, QuietStep

LEMMA BootStep ==
  ASSUME ProviderInv, NEW p \in Workers, Boot(p)
  PROVE  ProviderInv'
<1> DEFINE r == [Down EXCEPT !.pc = "idle", !.prefix = Len(disk.ledger), !.cut = disk.torn]
<1>1. Becomes(p, r) /\ UNCHANGED <<route, wave, disk, flock, posts>>
  BY DEF Boot, Becomes
<1>2. IsProc(r) /\ r.pc = "idle"
  <2> DEFINE f == [Down EXCEPT !.pc = "idle"]
             g == [f EXCEPT !.prefix = Len(disk.ledger)]
             h == [g EXCEPT !.cut = disk.torn]
  <2>1. r = h
    OBVIOUS
  <2>2. IsProc(f) /\ f.pc = "idle"
    <3>1. PICK d : d = Down
      OBVIOUS
    <3>2. IsProc(d)
      BY <3>1 DEF IsProc, Down
    <3> QED BY <3>1, <3>2 DEF IsProc
  <2> HIDE DEF f
  <2>3. IsProc(g) /\ g.pc = "idle"
    BY <2>2 DEF IsProc
  <2> HIDE DEF g
  <2>4. IsProc(h) /\ h.pc = "idle"
    BY <2>3 DEF IsProc
  <2> QED BY <2>1, <2>4
<1> HIDE DEF r
<1>3. PICK s : s = r
  OBVIOUS
<1>4. Quiet(p, s)
  BY <1>1, <1>2, <1>3 DEF Quiet, ProviderInv, Shapes
<1>5. Permitted(p, s)
  BY <1>1, <1>2, <1>3 DEF Permitted, Inside
<1> QED BY <1>4, <1>5, QuietStep

\* In the next wave no worker is left from the last one.
LEMMA NextWaveStep ==
  ASSUME ProviderInv, NextWave
  PROVE  ProviderInv'
<1>1. UNCHANGED <<route, disk, flock, proc, posts>> /\ \A p \in Workers : proc[p].pc = "off"
  BY DEF NextWave, At
<1>2. Shapes' /\ LockIsHeld'
  BY <1>1 DEF ProviderInv, Shapes, LockIsHeld
<1>3. StartedOnce'
  BY <1>1 DEF ProviderInv, StartedOnce
<1>4. SentIsRecorded'
  BY <1>1 DEF ProviderInv, SentIsRecorded, Recorded
<1>5. AnswerIsDecoded' /\ WithinReservation'
  BY <1>1 DEF ProviderInv, AnswerIsDecoded, Decoded, DecodedIn, WithinReservation, Reserved
<1> QED BY <1>2, <1>3, <1>4, <1>5 DEF ProviderInv

\* A step that only moves a worker that is not inside a call.
LEMMA OutsideStep ==
  ASSUME ProviderInv, NEW p \in Workers, NEW r, IsProc(r), Becomes(p, r),
         UNCHANGED <<route, wave, disk, flock, posts>>,
         r.pc \notin Inside \cup {"answered"}, r.pc = "lock" => r.key \in Keys
  PROVE  ProviderInv'
<1>1. Quiet(p, r)
  BY DEF Quiet, ProviderInv, Shapes
<1>2. Permitted(p, r)
  BY DEF Permitted, Inside
<1> QED BY <1>1, <1>2, QuietStep

LEMMA IdleStep ==
  ASSUME ProviderInv, NEW p \in Workers, Goto(p, "idle"),
         UNCHANGED <<route, wave, disk, flock, posts>>
  PROVE  ProviderInv'
<1>1. PICK r : Becomes(p, r) /\ IsProc(r) /\ r.pc = "idle"
  BY GotoBecomes DEF ProviderInv
<1> QED BY <1>1, OutsideStep DEF Inside

\* The ledger only grows, so what it says is decoded stays so.
Grows == disk'.ledger = disk.ledger \/ \E e : disk'.ledger = Append(disk.ledger, e)

LEMMA LedgerGrows ==
  ASSUME IsDisk(disk), NEW p \in Workers, Extraction(p)
  PROVE  Grows /\ route' = route
<1>1. CASE Lock(p) \/ Load(p) \/ Resume(p) \/ Name(p) \/ Post(p) \/ Reconcile(p) \/ Decode(p)
  BY <1>1 DEF Lock, Load, Resume, Name, Post, Reconcile, Decode, Grows
<1>2. CASE Start(p)
  <2>1. disk' = disk \/ \E e : disk' = [disk EXCEPT !.ledger = Append(@, e)]
    BY <1>2 DEF Start, Record
  <2> QED BY <1>2, <2>1 DEF Start, IsDisk, Grows
<1>3. CASE Complete(p)
  <2>1. disk' = disk \/ \E e : disk' = [disk EXCEPT !.ledger = Append(@, e)]
    BY <1>3 DEF Complete, Record
  <2> QED BY <1>3, <2>1 DEF Complete, IsDisk, Grows
<1>4. CASE RecordFailure(p)
  <2>1. disk' = disk \/ \E e : disk' = [disk EXCEPT !.ledger = Append(@, e)]
    BY <1>4 DEF RecordFailure, Record
  <2> QED BY <1>4, <2>1 DEF RecordFailure, IsDisk, Grows
<1>5. CASE KeepResponse(p) \/ KeepGeneration(p) \/ Store(p)
  <2>1. \/ disk' = disk \/ \E j : disk' = [disk EXCEPT !.journal = j]
        \/ \E c : disk' = [disk EXCEPT !.cache = c]
    BY <1>5 DEF KeepResponse, KeepGeneration, Keep, Store
  <2> QED BY <1>5, <2>1 DEF KeepResponse, KeepGeneration, Store, IsDisk, Grows
<1> QED BY <1>1, <1>2, <1>3, <1>4, <1>5 DEF Extraction

LEMMA DecodedStays ==
  ASSUME IsDisk(disk), Grows
  PROVE  \A a : DecodedIn(disk.ledger, a) => DecodedIn(disk'.ledger, a)
<1>1. IsSeq(disk.ledger)
  BY DEF IsDisk
<1>2. CASE disk'.ledger = disk.ledger
  BY <1>2 DEF DecodedIn
<1>3. ASSUME NEW e, disk'.ledger = Append(disk.ledger, e)
      PROVE  \A a : DecodedIn(disk.ledger, a) => DecodedIn(disk'.ledger, a)
  <2>1. /\ DOMAIN disk.ledger = 1..Len(disk.ledger) /\ Len(disk.ledger) \in Nat
        /\ DOMAIN disk'.ledger = 1..Len(disk.ledger) + 1
        /\ \A i \in DOMAIN disk.ledger : disk'.ledger[i] = disk.ledger[i]
    BY <1>1, <1>3, AppendIsSeq
  <2> QED BY <2>1 DEF Decoded, DecodedIn
<1> QED BY <1>2, <1>3 DEF Grows

-----------------------------------------------------------------------------
(***************************************************************************)
(* The invariant of the jobs.                                              *)
(***************************************************************************)

IsClaim(c) ==
  /\ c = [at |-> c.at, job |-> c.job, gen |-> c.gen, packets |-> c.packets, targets |-> c.targets]
  /\ c.gen \in Nat /\ IsSeq(c.packets)

IsJob(r) ==
  /\ r = [state |-> r.state, gen |-> r.gen, attempts |-> r.attempts, prepared |-> r.prepared]
  /\ r.gen \in Nat /\ IsSeq(r.prepared)

JobShapes ==
  /\ claim = [p \in Workers |-> claim[p]] /\ \A p \in Workers : IsClaim(claim[p])
  /\ job = [j \in Jobs |-> job[j]] /\ \A j \in Jobs : IsJob(job[j])
  /\ rows = [j \in Jobs |-> rows[j]]

\* A claim is of a job, and no newer than the job's last one.
ClaimIsFenced ==
  \A p \in Workers : claim[p].at # "free" =>
    Mine(p) \in Jobs /\ claim[p].gen <= job[Mine(p)].gen

\* The item has at most one active row.
RowIsSingle == \A j \in Jobs : rows[j] = {} \/ \E a : rows[j] = {a}

\* Who still owns a folded job has seen its active row, unless that is another writer's
\* edit; then what it has seen is what the edit replaced.
Seen(c) ==
  \/ c.targets = rows[c.job]
  \/ rows[c.job] = {Edited} /\ c.targets \subseteq {Seed}

TargetsAreSeen ==
  \A p \in Workers : claim[p].at \in {"compile", "persist"} /\ Owns(p) => Seen(claim[p])

\* The observations of the workers, those that are kept with a job and those that became
\* rows are of answers that the ledger has as decoded.
AllDecoded(ledger, packets) == \A i \in DOMAIN packets : DecodedIn(ledger, packets[i])

MemoryIsDecoded ==
  route.ledger =>
    /\ \A p \in Workers : AllDecoded(disk.ledger, claim[p].packets)
    /\ \A j \in Jobs : /\ AllDecoded(disk.ledger, job[j].prepared)
                       /\ \A a \in rows[j] \ {Seed, Edited} : a # Nothing /\ DecodedIn(disk.ledger, a)

JobInv == JobShapes /\ ClaimIsFenced /\ RowIsSingle /\ TargetsAreSeen /\ MemoryIsDecoded

\* The route stays, and the ledger grows.
Lasting == route' = route /\ \A a : DecodedIn(disk.ledger, a) => DecodedIn(disk'.ledger, a)

LEMMA LastingDisk ==
  ASSUME IsDisk(disk), route' = route, disk'.ledger = disk.ledger
  PROVE  Lasting
BY DecodedStays DEF Grows, Lasting

\* A job row may change as long as it keeps its generation and is not set running.
Settles(j, g) ==
  /\ job' = [job EXCEPT ![j] = g] /\ IsJob(g)
  /\ g.gen = job[j].gen /\ (g.state = "running" => job[j].state = "running")
  /\ route.ledger => AllDecoded(disk.ledger, g.prepared)

JobSettles == UNCHANGED job \/ \E j \in Jobs : \E g : Settles(j, g)

\* A claim may go on with its job, or be given up.
Continues(p, c) ==
  /\ claim' = [claim EXCEPT ![p] = c] /\ IsClaim(c)
  /\ c.at # "free" => claim[p].at # "free" /\ c.job = claim[p].job /\ c.gen = claim[p].gen
  /\ c.at \in {"compile", "persist"} =>
       \/ c.targets = rows[c.job]
       \/ c.targets = claim[p].targets /\ claim[p].at \in {"compile", "persist"}
  /\ route.ledger => AllDecoded(disk.ledger, c.packets)

LEMMA SettlesStep ==
  ASSUME JobInv, Lasting, JobSettles
  PROVE  /\ job' = [j \in Jobs |-> job'[j]]
         /\ \A j \in Jobs : /\ IsJob(job'[j]) /\ job'[j].gen = job[j].gen
                            /\ job'[j].state = "running" => job[j].state = "running"
                            /\ route.ledger => AllDecoded(disk'.ledger, job'[j].prepared)
<1>0. \A s : AllDecoded(disk.ledger, s) => AllDecoded(disk'.ledger, s)
  BY DEF AllDecoded, Lasting
<1>1. CASE UNCHANGED job
  BY <1>0, <1>1 DEF JobInv, JobShapes, MemoryIsDecoded
<1>2. ASSUME NEW j \in Jobs, NEW g, Settles(j, g)
      PROVE  /\ job' = [k \in Jobs |-> job'[k]]
             /\ \A k \in Jobs : /\ IsJob(job'[k]) /\ job'[k].gen = job[k].gen
                                /\ job'[k].state = "running" => job[k].state = "running"
                                /\ route.ledger => AllDecoded(disk'.ledger, job'[k].prepared)
  <2>1. /\ job' = [k \in Jobs |-> job'[k]] /\ job'[j] = g
        /\ \A k \in Jobs : k # j => job'[k] = job[k]
    BY <1>2 DEF Settles, JobInv, JobShapes
  <2>2. ASSUME NEW k \in Jobs
        PROVE  /\ IsJob(job'[k]) /\ job'[k].gen = job[k].gen
               /\ job'[k].state = "running" => job[k].state = "running"
               /\ route.ledger => AllDecoded(disk.ledger, job'[k].prepared)
    <3>1. CASE k = j
      BY <1>2, <2>1, <3>1 DEF Settles
    <3>2. CASE k # j
      BY <2>1, <3>2 DEF JobInv, JobShapes, MemoryIsDecoded
    <3> QED BY <3>1, <3>2
  <2> QED BY <1>0, <2>1, <2>2
<1> QED BY <1>1, <1>2 DEF JobSettles

LEMMA ServiceStep ==
  ASSUME JobInv, Lasting, JobSettles, UNCHANGED rows,
         UNCHANGED claim \/ \E p \in Workers : \E c : Continues(p, c)
  PROVE  JobInv'
<1>0. \A s : AllDecoded(disk.ledger, s) => AllDecoded(disk'.ledger, s)
  BY DEF AllDecoded, Lasting
<1>1. /\ job' = [j \in Jobs |-> job'[j]]
      /\ \A j \in Jobs : /\ IsJob(job'[j]) /\ job'[j].gen = job[j].gen
                         /\ job'[j].state = "running" => job[j].state = "running"
                         /\ route.ledger => AllDecoded(disk'.ledger, job'[j].prepared)
  BY SettlesStep
<1>2. /\ claim' = [q \in Workers |-> claim'[q]]
      /\ \A q \in Workers : claim'[q] = claim[q] \/ Continues(q, claim'[q])
  <2>1. CASE UNCHANGED claim
    BY <2>1 DEF JobInv, JobShapes
  <2>2. ASSUME NEW p \in Workers, NEW c, Continues(p, c)
        PROVE  /\ claim' = [q \in Workers |-> claim'[q]]
               /\ \A q \in Workers : claim'[q] = claim[q] \/ Continues(q, claim'[q])
    <3>1. /\ claim' = [q \in Workers |-> claim'[q]] /\ claim'[p] = c
          /\ \A q \in Workers : q # p => claim'[q] = claim[q]
      BY <2>2 DEF Continues, JobInv, JobShapes
    <3> QED BY <2>2, <3>1
  <2> QED BY <2>1, <2>2
<1>3. JobShapes'
  BY <1>1, <1>2 DEF JobInv, JobShapes, Continues
<1>4. ClaimIsFenced'
  BY <1>1, <1>2 DEF JobInv, ClaimIsFenced, Mine, Continues
<1>5. RowIsSingle'
  BY DEF JobInv, RowIsSingle
<1>6. TargetsAreSeen'
  <2> SUFFICES ASSUME NEW q \in Workers, claim'[q].at \in {"compile", "persist"}, Owns(q)'
               PROVE  Seen(claim[q])'
    BY DEF TargetsAreSeen
  <2>1. claim'[q].job = claim[q].job /\ claim'[q].gen = claim[q].gen /\ claim[q].at # "free"
    BY <1>2 DEF Continues
  <2>2. Owns(q)
    BY <1>1, <2>1 DEF Owns, Mine, JobInv, ClaimIsFenced
  <2>3. claim[q].at \in {"compile", "persist"} => Seen(claim[q])
    BY <2>2 DEF JobInv, TargetsAreSeen
  <2>4. \/ claim'[q].targets = rows[claim'[q].job]
        \/ claim'[q].targets = claim[q].targets /\ claim[q].at \in {"compile", "persist"}
    BY <1>2 DEF Continues
  <2> QED BY <2>1, <2>3, <2>4 DEF Seen
<1>7. MemoryIsDecoded'
  <2>1. route.ledger => \A q \in Workers : AllDecoded(disk'.ledger, claim'[q].packets)
    BY <1>0, <1>2 DEF JobInv, MemoryIsDecoded, Continues
  <2>2. route.ledger => \A j \in Jobs : \A a \in rows'[j] \ {Seed, Edited} :
                          a # Nothing /\ DecodedIn(disk'.ledger, a)
    BY DEF JobInv, MemoryIsDecoded, Lasting
  <2> QED BY <1>1, <2>1, <2>2 DEF MemoryIsDecoded, Lasting
<1> QED BY <1>3, <1>4, <1>5, <1>6, <1>7 DEF JobInv

-----------------------------------------------------------------------------
(***************************************************************************)
(* The steps of the jobs.                                                  *)
(***************************************************************************)

\* What every step other than the last of a compile keeps: the invariants, and that a job
\* is not done.
Inv == ProviderInv /\ JobInv
NoneDone == \A j \in Jobs : job'[j].state = "done" => job[j].state = "done"

LEMMA ProviderStays ==
  ASSUME ProviderInv, UNCHANGED provider
  PROVE  ProviderInv' /\ Lasting
<1>1. UNCHANGED <<route, wave, disk, flock, proc, posts>>
  BY DEF provider
<1>2. ProviderInv'
  BY <1>1 DEF ProviderInv, Shapes, LockIsHeld, StartedOnce, SentIsRecorded, Recorded,
              AnswerIsDecoded, Decoded, WithinReservation, Reserved
<1> QED BY <1>1, <1>2 DEF Lasting

\* The steps of a call touch no job.
LEMMA ServiceStays ==
  ASSUME JobInv, Lasting, UNCHANGED Service
  PROVE  JobInv' /\ NoneDone
<1>1. UNCHANGED <<job, rows, claim>>
  BY DEF Service
<1> QED BY <1>1, ServiceStep DEF JobSettles, NoneDone

\* The state of the worker's job, changed when the worker still owns it.
LEMMA RowSettles ==
  ASSUME JobInv, NEW p \in Workers, NEW state, state # "running", Mine(p) \in Jobs,
         job' = [job EXCEPT ![Mine(p)].state = state]
  PROVE  JobSettles /\ (state # "done" => NoneDone)
<1> DEFINE j == Mine(p)
           g == [job[j] EXCEPT !.state = state]
<1>1. job' = [job EXCEPT ![j] = g]
  OBVIOUS
<1>2. IsJob(job[j])
  BY DEF JobInv, JobShapes
<1>3. IsJob(g) /\ g.gen = job[j].gen /\ g.state = state /\ g.prepared = job[j].prepared
  BY <1>2 DEF IsJob
<1> HIDE DEF g
<1>4. PICK h : h = g
  OBVIOUS
<1>5. PICK k \in Jobs : k = j
  OBVIOUS
<1>6. route.ledger => AllDecoded(disk.ledger, h.prepared)
  BY <1>3, <1>4 DEF JobInv, MemoryIsDecoded
<1>7. Settles(k, h)
  BY <1>1, <1>3, <1>4, <1>5, <1>6 DEF Settles
<1>8. state # "done" => NoneDone
  BY <1>1, <1>3 DEF NoneDone, JobInv, JobShapes
<1> QED BY <1>7, <1>8 DEF JobSettles

LEMMA FailJobSettles ==
  ASSUME JobInv, NEW p \in Workers, FailJob(p)
  PROVE  JobSettles /\ NoneDone
<1>1. CASE UNCHANGED job
  BY <1>1 DEF JobSettles, NoneDone
<1>2. CASE Mine(p) \in Jobs /\ job' = [job EXCEPT ![Mine(p)].state = "failed"]
  <2>1. PICK state : state = "failed"
    OBVIOUS
  <2>2. state # "running" /\ state # "done"
    BY <2>1
  <2>3. job' = [job EXCEPT ![Mine(p)].state = state]
    BY <1>2, <2>1
  <2> QED BY <1>2, <2>2, <2>3, RowSettles
<1>3. CASE Mine(p) \notin Jobs /\ job' = [job EXCEPT ![Mine(p)].state = "failed"]
  <2>1. job' = job
    BY <1>3 DEF JobInv, JobShapes
  <2> QED BY <1>1, <2>1
<1> QED BY <1>1, <1>2, <1>3 DEF FailJob

LEMMA FreeIsClaim ==
  IsClaim(Free) /\ Free.at = "free" /\ Free.packets = <<>>
<1>1. <<>> \in Seq({})
  OBVIOUS
<1> QED BY <1>1 DEF IsClaim, Free, IsSeq

LEMMA GivesUp ==
  ASSUME NEW p \in Workers, claim' = [claim EXCEPT ![p] = Free]
  PROVE  \E c : Continues(p, c)
<1>1. PICK c : c = Free
  OBVIOUS
<1>2. IsClaim(c) /\ c.at = "free" /\ c.packets = <<>>
  BY <1>1, FreeIsClaim
<1>3. Continues(p, c)
  BY <1>1, <1>2 DEF Continues, AllDecoded
<1> QED BY <1>3

\* A newer claim leaves every older one without its job.
LEMMA ClaimStep ==
  ASSUME Inv, NEW p \in Workers, Claim(p)
  PROVE  Inv' /\ NoneDone
<1>0. UNCHANGED provider /\ rows' = rows /\ JobInv
  BY DEF Claim, Inv
<1>1. ProviderInv' /\ Lasting
  BY <1>0, ProviderStays DEF Inv
<1>2. PICK j \in Jobs :
        /\ job' = [job EXCEPT ![j].state = "running", ![j].gen = @ + 1, ![j].attempts = @ + 1]
        /\ claim' = [claim EXCEPT ![p] = [Free EXCEPT !.at = "fetch", !.job = j,
                                                      !.gen = job[j].gen + 1]]
  BY DEF Claim
<1> DEFINE n == job[j].gen + 1
<1>3. /\ job' = [k \in Jobs |-> job'[k]] /\ \A k \in Jobs : k # j => job'[k] = job[k]
      /\ IsJob(job'[j]) /\ job'[j].gen = n /\ job'[j].state = "running"
      /\ job'[j].prepared = job[j].prepared
  <2> DEFINE f == [job EXCEPT ![j].state = "running"]
             g == [f EXCEPT ![j].gen = n]
             h == [g EXCEPT ![j].attempts = job[j].attempts + 1]
  <2>1. job' = h
    BY <1>2
  <2>2. IsJob(job[j])
    BY <1>0 DEF JobInv, JobShapes
  <2>3. /\ f = [k \in Jobs |-> f[k]] /\ \A k \in Jobs : k # j => f[k] = job[k]
        /\ IsJob(f[j]) /\ f[j].state = "running" /\ f[j].prepared = job[j].prepared
    BY <1>0, <2>2 DEF IsJob, JobInv, JobShapes
  <2> HIDE DEF f
  <2>4. /\ g = [k \in Jobs |-> g[k]] /\ \A k \in Jobs : k # j => g[k] = f[k]
        /\ IsJob(g[j]) /\ g[j].gen = n /\ g[j].state = "running"
        /\ g[j].prepared = job[j].prepared
    BY <2>2, <2>3 DEF IsJob
  <2> HIDE DEF g
  <2>5. /\ h = [k \in Jobs |-> h[k]] /\ \A k \in Jobs : k # j => h[k] = g[k]
        /\ IsJob(h[j]) /\ h[j].gen = n /\ h[j].state = "running"
        /\ h[j].prepared = job[j].prepared
    BY <2>4 DEF IsJob
  <2> HIDE DEF h
  <2> QED BY <2>1, <2>3, <2>4, <2>5
<1>4. /\ claim' = [q \in Workers |-> claim'[q]]
      /\ \A q \in Workers : q # p => claim'[q] = claim[q]
      /\ IsClaim(claim'[p]) /\ claim'[p].at = "fetch" /\ claim'[p].job = j
      /\ claim'[p].gen = n /\ claim'[p].packets = <<>>
  <2>0. PICK d, m : d = Free /\ m = n
    OBVIOUS
  <2> DEFINE f == [d EXCEPT !.at = "fetch"]
             g == [f EXCEPT !.job = j]
             h == [g EXCEPT !.gen = m]
  <2>1. IsClaim(d) /\ d.packets = <<>> /\ m \in Nat
    BY <1>0, <2>0, FreeIsClaim DEF JobInv, JobShapes, IsJob
  <2>2. IsClaim(f) /\ f.at = "fetch" /\ f.packets = <<>>
    BY <2>1 DEF IsClaim
  <2>3. claim' = [claim EXCEPT ![p] = h]
    BY <1>2, <2>0
  <2> HIDE DEF f
  <2>4. IsClaim(g) /\ g.at = "fetch" /\ g.packets = <<>> /\ g.job = j
    BY <2>2 DEF IsClaim
  <2> HIDE DEF g
  <2>5. IsClaim(h) /\ h.at = "fetch" /\ h.packets = <<>> /\ h.job = j /\ h.gen = m
    BY <2>1, <2>4 DEF IsClaim
  <2> HIDE DEF h
  <2> QED BY <1>0, <2>0, <2>3, <2>5 DEF JobInv, JobShapes
<1>5. n \in Nat /\ job[j].gen \in Nat /\ \A k \in Jobs : job[k].gen \in Nat
  BY DEF Inv, JobInv, JobShapes, IsJob
<1>6. \A q \in Workers : claim[q].gen \in Nat
  BY DEF Inv, JobInv, JobShapes, IsClaim
<1>7. JobShapes'
  BY <1>0, <1>3, <1>4 DEF JobInv, JobShapes
<1> HIDE DEF n
<1>8. ClaimIsFenced'
  <2> SUFFICES ASSUME NEW q \in Workers, claim'[q].at # "free"
               PROVE  claim'[q].job \in Jobs /\ claim'[q].gen <= job'[claim'[q].job].gen
    BY DEF ClaimIsFenced, Mine
  <2>1. CASE q = p
    BY <1>3, <1>4, <1>5, <2>1
  <2>2. CASE q # p
    <3>1. claim'[q] = claim[q] /\ claim[q].job \in Jobs /\ claim[q].gen <= job[claim[q].job].gen
      BY <1>0, <1>4, <2>2 DEF JobInv, ClaimIsFenced, Mine
    <3>2. CASE claim[q].job = j
      BY <1>3, <1>5, <1>6, <3>1, <3>2 DEF n
    <3>3. CASE claim[q].job # j
      BY <1>3, <3>1, <3>3
    <3> QED BY <3>2, <3>3
  <2> QED BY <2>1, <2>2
<1>9. RowIsSingle'
  BY <1>0 DEF JobInv, RowIsSingle
<1>10. TargetsAreSeen'
  <2> SUFFICES ASSUME NEW q \in Workers, claim'[q].at \in {"compile", "persist"}, Owns(q)'
               PROVE  Seen(claim[q])'
    BY DEF TargetsAreSeen
  <2>1. q # p /\ claim'[q] = claim[q]
    BY <1>4
  <2>2. claim[q].job \in Jobs /\ claim[q].gen <= job[claim[q].job].gen
    BY <1>0, <2>1 DEF JobInv, ClaimIsFenced, Mine
  <2>3. claim[q].job # j
    BY <1>3, <1>5, <1>6, <2>1, <2>2 DEF Owns, Mine, n
  <2>4. Owns(q)
    BY <1>3, <2>1, <2>2, <2>3 DEF Owns, Mine
  <2> QED BY <1>0, <2>1, <2>4 DEF JobInv, TargetsAreSeen, Seen
<1>11. MemoryIsDecoded'
  <2>0. \A t : AllDecoded(disk.ledger, t) => AllDecoded(disk'.ledger, t)
    BY <1>1 DEF AllDecoded, Lasting
  <2>1. AllDecoded(disk'.ledger, <<>>)
    BY DEF AllDecoded
  <2>2. route.ledger => \A q \in Workers : AllDecoded(disk'.ledger, claim'[q].packets)
    BY <1>0, <1>4, <2>0, <2>1 DEF JobInv, MemoryIsDecoded
  <2>3. route.ledger => \A k \in Jobs :
                          /\ AllDecoded(disk'.ledger, job'[k].prepared)
                          /\ \A a \in rows'[k] \ {Seed, Edited} :
                               a # Nothing /\ DecodedIn(disk'.ledger, a)
    BY <1>0, <1>1, <1>3, <2>0 DEF JobInv, MemoryIsDecoded, Lasting
  <2> QED BY <1>1, <2>2, <2>3 DEF MemoryIsDecoded, Lasting
<1>12. NoneDone
  BY <1>3 DEF NoneDone
<1> QED BY <1>1, <1>7, <1>8, <1>9, <1>10, <1>11, <1>12 DEF Inv, JobInv

LEMMA BuryStep ==
  ASSUME Inv, NEW j \in Jobs, Bury(j)
  PROVE  Inv' /\ NoneDone
<1>0. /\ UNCHANGED provider /\ UNCHANGED <<rows, claim>> /\ JobInv
      /\ job' = [job EXCEPT ![j].state = "failed"]
  BY DEF Bury, Inv
<1>1. ProviderInv' /\ Lasting
  BY <1>0, ProviderStays DEF Inv
<1> DEFINE g == [job[j] EXCEPT !.state = "failed"]
<1>2. IsJob(job[j])
  BY <1>0 DEF JobInv, JobShapes
<1>3. IsJob(g) /\ g.gen = job[j].gen /\ g.state = "failed" /\ g.prepared = job[j].prepared
  BY <1>2 DEF IsJob
<1>4. job' = [job EXCEPT ![j] = g]
  BY <1>0
<1> HIDE DEF g
<1>5. PICK h : h = g
  OBVIOUS
<1>6. Settles(j, h)
  BY <1>0, <1>3, <1>4, <1>5 DEF Settles, JobInv, MemoryIsDecoded
<1>7. NoneDone
  BY <1>0, <1>3, <1>4 DEF NoneDone, JobInv, JobShapes
<1> QED BY <1>0, <1>1, <1>6, <1>7, ServiceStep DEF Inv, JobSettles

\* A step of a worker between two calls that keeps its claim, but for where it is and what
\* it has prepared.
LEMMA OnwardStep ==
  ASSUME Inv, NEW p \in Workers, NEW c, UNCHANGED provider, UNCHANGED rows,
         JobSettles, Continues(p, c), NoneDone
  PROVE  Inv' /\ NoneDone
BY ProviderStays, ServiceStep DEF Inv

LEMMA FetchPreparedStep ==
  ASSUME Inv, NEW p \in Workers, FetchPrepared(p)
  PROVE  Inv' /\ NoneDone
<1>0. UNCHANGED provider /\ UNCHANGED <<job, rows>> /\ JobInv /\ claim[p].at = "fetch"
      /\ IsClaim(claim[p]) /\ Mine(p) \in Jobs /\ IsJob(job[Mine(p)])
  BY DEF FetchPrepared, Inv, At_, JobInv, JobShapes, ClaimIsFenced
<1>1. JobSettles /\ NoneDone
  BY <1>0 DEF JobSettles, NoneDone
<1> DEFINE j == Mine(p)
           f == [claim[p] EXCEPT !.at = "fold"]
           g == [f EXCEPT !.packets = job[j].prepared]
           e == [claim[p] EXCEPT !.at = "extract"]
<1>2. CASE claim' = [claim EXCEPT ![p] = g]
  <2>1. IsClaim(f) /\ f.at = "fold" /\ f.job = claim[p].job /\ f.gen = claim[p].gen
    BY <1>0 DEF IsClaim
  <2> HIDE DEF f
  <2>2. /\ IsClaim(g) /\ g.at = "fold" /\ g.job = claim[p].job /\ g.gen = claim[p].gen
        /\ g.packets = job[j].prepared
    BY <1>0, <2>1 DEF IsClaim, IsJob
  <2> HIDE DEF g
  <2>3. PICK c : c = g
    OBVIOUS
  <2>4. Continues(p, c)
    BY <1>0, <1>2, <2>2, <2>3 DEF Continues, JobInv, MemoryIsDecoded
  <2> QED BY <1>0, <1>1, <2>4, OnwardStep
<1>3. CASE claim' = [claim EXCEPT ![p] = e]
  <2>1. /\ IsClaim(e) /\ e.at = "extract" /\ e.job = claim[p].job /\ e.gen = claim[p].gen
        /\ e.packets = claim[p].packets
    BY <1>0 DEF IsClaim
  <2> HIDE DEF e
  <2>2. PICK c : c = e
    OBVIOUS
  <2>3. Continues(p, c)
    BY <1>0, <1>3, <2>1, <2>2 DEF Continues, JobInv, MemoryIsDecoded
  <2> QED BY <1>0, <1>1, <2>3, OnwardStep
<1> QED BY <1>2, <1>3 DEF FetchPrepared

\* The next call is about a key of the source.
LEMMA ExtractStep ==
  ASSUME Inv, NEW p \in Workers, Extract(p)
  PROVE  Inv' /\ NoneDone
<1>0. /\ UNCHANGED <<route, wave, disk, flock, posts>> /\ UNCHANGED Service /\ Shapes
      /\ IsClaim(claim[p]) /\ Len(claim[p].packets) < Len(Batches) /\ IsDisk(disk)
  BY DEF Extract, Service, Inv, ProviderInv, Shapes, JobInv, JobShapes
<1> DEFINE k == Batches[Len(claim[p].packets) + 1]
           f == [proc EXCEPT ![p].pc = "lock"]
           g == [f EXCEPT ![p].id = Nothing]
           h == [g EXCEPT ![p].answer = Nothing]
           i == [h EXCEPT ![p].key = k]
<1>1. k \in Keys
  <2>1. Len(claim[p].packets) \in Nat
    BY <1>0, AppendIsSeq DEF IsClaim
  <2> QED BY <1>0, <2>1, JobAssumption DEF JobAssumption
<1>2. proc' = i
  BY DEF Extract
<1> HIDE DEF k
<1>3. /\ f = [q \in Workers |-> f[q]] /\ \A q \in Workers : q # p => f[q] = proc[q]
      /\ IsProc(f[p]) /\ f[p].pc = "lock"
  BY <1>0 DEF Shapes, IsProc
<1> HIDE DEF f
<1>4. /\ g = [q \in Workers |-> g[q]] /\ \A q \in Workers : q # p => g[q] = f[q]
      /\ IsProc(g[p]) /\ g[p].pc = f[p].pc
  BY <1>3 DEF IsProc
<1> HIDE DEF g
<1>5. /\ h = [q \in Workers |-> h[q]] /\ \A q \in Workers : q # p => h[q] = g[q]
      /\ IsProc(h[p]) /\ h[p].pc = g[p].pc
  BY <1>4 DEF IsProc
<1> HIDE DEF h
<1>6. /\ i = [q \in Workers |-> i[q]] /\ \A q \in Workers : q # p => i[q] = h[q]
      /\ IsProc(i[p]) /\ i[p].pc = h[p].pc /\ i[p].key = k
  BY <1>5 DEF IsProc
<1> HIDE DEF i
<1>7. i = [proc EXCEPT ![p] = i[p]]
  BY <1>0, <1>3, <1>4, <1>5, <1>6 DEF Shapes
<1>8. PICK r : Becomes(p, r) /\ IsProc(r) /\ r.pc = "lock" /\ r.key \in Keys
  BY <1>1, <1>2, <1>3, <1>4, <1>5, <1>6, <1>7 DEF Becomes
<1>9. ProviderInv'
  BY <1>0, <1>8, OutsideStep DEF Inside, Inv
<1>10. Lasting
  BY <1>0, LastingDisk
<1> QED BY <1>0, <1>9, <1>10, ServiceStays DEF Inv

\* An answer that the ledger has as decoded, or none, becomes the batch's observations.
LEMMA AnsweredStep ==
  ASSUME Inv, NEW p \in Workers, Answered(p)
  PROVE  Inv' /\ NoneDone
<1>0. /\ UNCHANGED <<route, wave, disk, flock, posts>> /\ UNCHANGED <<job, rows>>
      /\ Goto(p, "idle") /\ proc[p].pc = "answered"
      /\ claim' = [claim EXCEPT ![p].packets = Append(@, proc[p].answer)]
      /\ IsClaim(claim[p]) /\ IsDisk(disk) /\ JobInv
  BY DEF Answered, At, Inv, ProviderInv, Shapes, JobInv, JobShapes
<1>1. ProviderInv' /\ Lasting
  BY <1>0, IdleStep, LastingDisk DEF Inv
<1> DEFINE s == claim[p].packets
           a == proc[p].answer
           t == Append(s, a)
           c == [claim[p] EXCEPT !.packets = t]
<1>2. claim' = [claim EXCEPT ![p] = c]
  BY <1>0
<1>3. /\ IsSeq(Append(s, a)) /\ DOMAIN s = 1..Len(s) /\ Len(s) \in Nat
      /\ DOMAIN Append(s, a) = 1..Len(s) + 1
      /\ \A i \in DOMAIN s : Append(s, a)[i] = s[i] /\ Append(s, a)[Len(s) + 1] = a
  BY <1>0, AppendIsSeq DEF IsClaim
<1>4. route.ledger => AllDecoded(disk.ledger, Append(s, a))
  <2>1. route.ledger => DecodedIn(disk.ledger, a)
    BY <1>0 DEF Inv, ProviderInv, AnswerIsDecoded, Decoded
  <2>2. route.ledger => AllDecoded(disk.ledger, s)
    BY <1>0 DEF JobInv, MemoryIsDecoded
  <2>3. Append(s, a)[Len(s) + 1] = a
    BY <1>0, AppendIsSeq DEF IsClaim
  <2>4. \A i \in 1..Len(s) + 1 : i \in 1..Len(s) \/ i = Len(s) + 1
    BY <1>3
  <2> HIDE DEF s, a
  <2> QED BY <1>3, <2>1, <2>2, <2>3, <2>4 DEF AllDecoded
<1>5. /\ IsClaim(c) /\ c.at = claim[p].at /\ c.job = claim[p].job /\ c.gen = claim[p].gen
      /\ c.targets = claim[p].targets /\ c.packets = Append(s, a)
  <2>1. IsSeq(t) /\ t = Append(s, a)
    BY <1>3
  <2> HIDE DEF t
  <2>2. /\ IsClaim(c) /\ c.at = claim[p].at /\ c.job = claim[p].job /\ c.gen = claim[p].gen
        /\ c.targets = claim[p].targets /\ c.packets = t
    <3>1. IsSeq(t) /\ IsClaim(claim[p])
      BY <1>0, <2>1
    <3> QED BY <3>1 DEF IsClaim
  <2> QED BY <2>1, <2>2
<1> HIDE DEF c
<1>6. PICK d : d = c
  OBVIOUS
<1>7. Continues(p, d)
  BY <1>2, <1>4, <1>5, <1>6 DEF Continues
<1>8. JobSettles /\ NoneDone
  BY <1>0 DEF JobSettles, NoneDone
<1> QED BY <1>0, <1>1, <1>7, <1>8, ServiceStep DEF Inv

LEMMA RefusedStep ==
  ASSUME Inv, NEW p \in Workers, Refused(p)
  PROVE  Inv' /\ NoneDone
<1>0. /\ UNCHANGED <<route, wave, disk, flock, posts>> /\ UNCHANGED rows
      /\ Goto(p, "idle") /\ FailJob(p) /\ claim' = [claim EXCEPT ![p] = Free]
      /\ IsDisk(disk) /\ JobInv
  BY DEF Refused, Inv, ProviderInv, Shapes
<1>1. ProviderInv' /\ Lasting
  BY <1>0, IdleStep, LastingDisk DEF Inv
<1> QED BY <1>0, <1>1, FailJobSettles, GivesUp, ServiceStep DEF Inv

LEMMA StorePreparedStep ==
  ASSUME Inv, NEW p \in Workers, StorePrepared(p)
  PROVE  Inv' /\ NoneDone
<1>0. /\ UNCHANGED provider /\ UNCHANGED rows /\ JobInv /\ claim[p].at = "extract"
      /\ IsClaim(claim[p]) /\ Mine(p) \in Jobs /\ IsJob(job[Mine(p)])
      /\ claim' = [claim EXCEPT ![p].at = "fold"]
  BY DEF StorePrepared, Inv, At_, JobInv, JobShapes, ClaimIsFenced
<1> DEFINE j == Mine(p)
           c == [claim[p] EXCEPT !.at = "fold"]
           g == [job[j] EXCEPT !.prepared = claim[p].packets]
<1>1. claim' = [claim EXCEPT ![p] = c]
  BY <1>0
<1>2. /\ IsClaim(c) /\ c.at = "fold" /\ c.job = claim[p].job /\ c.gen = claim[p].gen
      /\ c.packets = claim[p].packets
  BY <1>0 DEF IsClaim
<1> HIDE DEF c
<1>3. PICK d : d = c
  OBVIOUS
<1>4. Continues(p, d)
  BY <1>0, <1>1, <1>2, <1>3 DEF Continues, JobInv, MemoryIsDecoded
<1>5. CASE UNCHANGED job
  <2>1. JobSettles /\ NoneDone
    BY <1>5 DEF JobSettles, NoneDone
  <2> QED BY <1>0, <1>4, <2>1, OnwardStep
<1>6. CASE job' = [job EXCEPT ![j] = g]
  <2>1. /\ IsJob(g) /\ g.gen = job[j].gen /\ g.state = job[j].state
        /\ g.prepared = claim[p].packets
    BY <1>0 DEF IsJob, IsClaim
  <2> HIDE DEF g
  <2>2. PICK k \in Jobs : k = j
    BY <1>0
  <2>3. PICK h : h = g
    OBVIOUS
  <2>4. Settles(k, h)
    BY <1>0, <1>6, <2>1, <2>2, <2>3 DEF Settles, JobInv, MemoryIsDecoded
  <2>5. NoneDone
    BY <1>0, <1>6, <2>1 DEF NoneDone, JobInv, JobShapes
  <2>6. JobSettles
    BY <2>4 DEF JobSettles
  <2> QED BY <1>0, <1>4, <2>5, <2>6, OnwardStep
<1> QED BY <1>5, <1>6 DEF StorePrepared

LEMMA FoldStep ==
  ASSUME Inv, NEW p \in Workers, Fold(p)
  PROVE  Inv' /\ NoneDone
<1>0. /\ UNCHANGED provider /\ UNCHANGED rows /\ JobInv /\ claim[p].at = "fold"
      /\ IsClaim(claim[p])
  BY DEF Fold, Inv, At_, JobInv, JobShapes
<1>1. CASE FailJob(p) /\ claim' = [claim EXCEPT ![p] = Free]
  BY <1>0, <1>1, FailJobSettles, GivesUp, OnwardStep
<1>2. CASE /\ claim' = [claim EXCEPT ![p].at = "compile", ![p].targets = rows[Mine(p)]]
           /\ UNCHANGED job
  <2> DEFINE active == rows[Mine(p)]
             f == [claim[p] EXCEPT !.at = "compile"]
             g == [f EXCEPT !.targets = active]
  <2>1. claim' = [claim EXCEPT ![p] = g]
    <3> DEFINE u == [claim EXCEPT ![p].at = "compile"]
    <3>1. claim' = [u EXCEPT ![p].targets = active]
      BY <1>2
    <3>2. u = [q \in Workers |-> IF q = p THEN f ELSE claim[q]]
      BY <1>0 DEF JobInv, JobShapes
    <3> HIDE DEF u
    <3>3. claim' = [q \in Workers |-> IF q = p THEN g ELSE claim[q]]
      BY <3>1, <3>2
    <3> HIDE DEF g
    <3> QED BY <1>0, <3>3 DEF JobInv, JobShapes
  <2> HIDE DEF active
  <2>2. /\ IsClaim(f) /\ f.at = "compile" /\ f.job = claim[p].job /\ f.gen = claim[p].gen
        /\ f.packets = claim[p].packets
    BY <1>0 DEF IsClaim
  <2> HIDE DEF f
  <2>3. /\ IsClaim(g) /\ g.at = "compile" /\ g.job = claim[p].job /\ g.gen = claim[p].gen
        /\ g.packets = claim[p].packets /\ g.targets = active
    BY <2>2 DEF IsClaim
  <2> HIDE DEF g
  <2>4. PICK c : c = g
    OBVIOUS
  <2>5. Continues(p, c)
    BY <1>0, <2>1, <2>3, <2>4 DEF Continues, JobInv, MemoryIsDecoded, active, Mine
  <2>6. JobSettles /\ NoneDone
    BY <1>2 DEF JobSettles, NoneDone
  <2> QED BY <1>0, <2>5, <2>6, OnwardStep
<1> QED BY <1>1, <1>2 DEF Fold

LEMMA CompileStep ==
  ASSUME Inv, NEW p \in Workers, Compile(p)
  PROVE  Inv' /\ NoneDone
<1>0. /\ UNCHANGED provider /\ UNCHANGED rows /\ JobInv /\ claim[p].at = "compile"
      /\ IsClaim(claim[p])
  BY DEF Compile, Inv, At_, JobInv, JobShapes
<1>1. CASE FailJob(p) /\ claim' = [claim EXCEPT ![p] = Free]
  BY <1>0, <1>1, FailJobSettles, GivesUp, OnwardStep
<1>2. CASE claim' = [claim EXCEPT ![p].at = "persist"] /\ UNCHANGED job
  <2> DEFINE f == [claim[p] EXCEPT !.at = "persist"]
  <2>1. claim' = [claim EXCEPT ![p] = f]
    BY <1>2
  <2>2. /\ IsClaim(f) /\ f.at = "persist" /\ f.job = claim[p].job /\ f.gen = claim[p].gen
        /\ f.packets = claim[p].packets /\ f.targets = claim[p].targets
    BY <1>0 DEF IsClaim
  <2> HIDE DEF f
  <2>3. PICK c : c = f
    OBVIOUS
  <2>4. Continues(p, c)
    BY <1>0, <2>1, <2>2, <2>3 DEF Continues, JobInv, MemoryIsDecoded
  <2>5. JobSettles /\ NoneDone
    BY <1>2 DEF JobSettles, NoneDone
  <2> QED BY <1>0, <2>4, <2>5, OnwardStep
<1> QED BY <1>1, <1>2 DEF Compile

\* The last observation of the packets is one.
LEMMA LastIsSaid ==
  ASSUME NEW packets, IsSeq(packets), Said(packets) # {}
  PROVE  LastSaid(packets) \in DOMAIN packets /\ packets[LastSaid(packets)] # Nothing
<1>1. DOMAIN packets = 1..Len(packets) /\ Len(packets) \in Nat
  BY AppendIsSeq
<1>2. Said(packets) \in SUBSET (1..Len(packets))
  BY <1>1 DEF Said
<1>3. Max(Said(packets)) \in Said(packets)
  BY <1>1, <1>2, MaxIsIn
<1> QED BY <1>3 DEF Said, LastSaid

\* What a compile that ends a job closes.
ClosesItsOwn ==
  \A j \in Jobs : job'[j].state = "done" /\ job[j].state # "done" =>
    \E p \in Workers :
      /\ Mine(p) = j
      /\ rows[j] \ rows'[j] \subseteq claim[p].targets
      /\ rows'[j] \ rows[j] # {} => claim[p].targets = rows[j]

LEMMA PersistStep ==
  ASSUME Inv, NEW p \in Workers, Persist(p)
  PROVE  Inv' /\ ClosesItsOwn
<1> DEFINE j == Mine(p)
           packets == claim[p].packets
           left == rows[j] \ claim[p].targets
           adds == ~Deleting(packets)
           row == packets[LastSaid(packets)]
<1>0. /\ UNCHANGED provider /\ JobInv /\ claim[p].at = "persist" /\ IsClaim(claim[p])
      /\ j \in Jobs /\ IsJob(job[j]) /\ claim' = [claim EXCEPT ![p] = Free]
  BY DEF Persist, Inv, At_, JobInv, JobShapes, ClaimIsFenced
<1>1. ProviderInv' /\ Lasting
  BY <1>0, ProviderStays DEF Inv
<1>2. PICK c : Continues(p, c)
  BY <1>0, GivesUp
<1>3. \/ UNCHANGED <<job, rows>>
      \/ job' = [job EXCEPT ![j].state = "done"] /\ UNCHANGED rows
      \/ job' = [job EXCEPT ![j].state = "queued"] /\ UNCHANGED rows
      \/ /\ Owns(p) /\ Said(packets) # {} /\ ~(adds /\ left # {})
         /\ job' = [job EXCEPT ![j].state = "done"]
         /\ rows' = [rows EXCEPT ![j] = left \cup (IF adds THEN {row} ELSE {})]
  BY DEF Persist, Release, Leaves
<1>4. CASE UNCHANGED <<job, rows>>
  <2>1. JobSettles /\ NoneDone
    BY <1>4 DEF JobSettles, NoneDone
  <2> QED BY <1>0, <1>1, <1>2, <1>4, <2>1, ServiceStep DEF Inv, NoneDone, ClosesItsOwn
<1>5. CASE job' = [job EXCEPT ![j].state = "queued"] /\ UNCHANGED rows
  <2>0. PICK state : state = "queued"
    OBVIOUS
  <2>1. JobSettles /\ NoneDone
    <3>1. state # "running" /\ state # "done" /\ job' = [job EXCEPT ![Mine(p)].state = state]
      BY <1>5, <2>0
    <3> QED BY <1>0, <3>1, RowSettles
  <2> QED BY <1>0, <1>1, <1>2, <1>5, <2>1, ServiceStep DEF Inv, NoneDone, ClosesItsOwn
<1>6. ASSUME job' = [job EXCEPT ![j].state = "done"]
      PROVE  /\ JobSettles
             /\ \A k \in Jobs : k # j => job'[k] = job[k]
             /\ job'[j].state = "done"
  <2>0. PICK state : state = "done"
    OBVIOUS
  <2>1. state # "running" /\ job' = [job EXCEPT ![Mine(p)].state = state]
    BY <1>6, <2>0
  <2>2. JobSettles
    BY <1>0, <2>1, RowSettles
  <2> QED BY <1>0, <1>6, <2>2 DEF JobInv, JobShapes, IsJob
<1>7. CASE job' = [job EXCEPT ![j].state = "done"] /\ UNCHANGED rows
  <2>1. ClosesItsOwn
    BY <1>0, <1>6, <1>7 DEF ClosesItsOwn
  <2> QED BY <1>0, <1>1, <1>2, <1>6, <1>7, <2>1, ServiceStep DEF Inv
<1>8. CASE /\ Owns(p) /\ Said(packets) # {} /\ ~(adds /\ left # {})
           /\ job' = [job EXCEPT ![j].state = "done"]
           /\ rows' = [rows EXCEPT ![j] = left \cup (IF adds THEN {row} ELSE {})]
  <2>1. /\ rows' = [k \in Jobs |-> rows'[k]] /\ \A k \in Jobs : k # j => rows'[k] = rows[k]
        /\ rows'[j] = left \cup (IF adds THEN {row} ELSE {})
    BY <1>0, <1>8 DEF JobInv, JobShapes
  <2>2. JobSettles /\ (\A k \in Jobs : k # j => job'[k] = job[k]) /\ job'[j].state = "done"
    BY <1>6, <1>8
  <2>3. Seen(claim[p])
    BY <1>0, <1>8 DEF JobInv, TargetsAreSeen
  <2>4. rows'[j] \ rows[j] # {} => claim[p].targets = rows[j]
    <3>1. CASE ~adds
      BY <2>1, <3>1
    <3>2. CASE left = {}
      BY <2>3, <3>2 DEF Seen, Mine, Seed, Edited
    <3> QED BY <1>8, <3>1, <3>2
  <2>5. ClosesItsOwn
    BY <1>0, <2>1, <2>2, <2>4 DEF ClosesItsOwn
  <2>6. row # Nothing /\ (route.ledger => DecodedIn(disk.ledger, row))
    BY <1>0, <1>8, LastIsSaid DEF IsClaim, JobInv, MemoryIsDecoded, AllDecoded
  <2> HIDE DEF row, adds, left
  <2>7. /\ claim' = [q \in Workers |-> claim'[q]] /\ claim'[p] = Free
        /\ \A q \in Workers : q # p => claim'[q] = claim[q]
    BY <1>0 DEF JobInv, JobShapes
  <2>8. /\ job' = [k \in Jobs |-> job'[k]]
        /\ \A k \in Jobs : /\ IsJob(job'[k]) /\ job'[k].gen = job[k].gen
                           /\ job'[k].state = "running" => job[k].state = "running"
                           /\ route.ledger => AllDecoded(disk'.ledger, job'[k].prepared)
    BY <1>0, <1>1, <2>2, SettlesStep
  <2>9. JobShapes'
    BY <1>0, <2>1, <2>7, <2>8, FreeIsClaim DEF JobInv, JobShapes
  <2>10. ClaimIsFenced'
    BY <1>0, <2>7, <2>8, FreeIsClaim DEF JobInv, ClaimIsFenced, Mine
  <2>11. RowIsSingle'
    <3>1. rows'[j] = {} \/ \E a : rows'[j] = {a}
      <4>1. CASE ~adds
        <5>1. rows'[j] \subseteq rows[j]
          BY <2>1, <4>1 DEF left
        <5>2. rows[j] = {} \/ \E a : rows[j] = {a}
          BY <1>0 DEF JobInv, RowIsSingle
        <5>3. ASSUME NEW a, rows[j] = {a}
              PROVE  rows'[j] = {} \/ rows'[j] = {a}
          BY <5>1, <5>3
        <5> QED BY <5>1, <5>2, <5>3
      <4>2. CASE adds /\ left = {}
        BY <2>1, <4>2
      <4> QED BY <1>8, <4>1, <4>2 DEF adds, left
    <3> QED BY <1>0, <2>1, <3>1 DEF JobInv, RowIsSingle
  <2>12. TargetsAreSeen'
    <3> SUFFICES ASSUME NEW q \in Workers, claim'[q].at \in {"compile", "persist"}, Owns(q)'
                 PROVE  Seen(claim[q])'
      BY DEF TargetsAreSeen
    <3>1. q # p /\ claim'[q] = claim[q] /\ claim[q].job \in Jobs
      BY <1>0, <2>7, FreeIsClaim DEF JobInv, ClaimIsFenced, Mine
    <3>2. claim[q].job # j
      BY <2>2, <3>1 DEF Owns, Mine
    <3>3. Owns(q)
      BY <2>2, <3>1, <3>2 DEF Owns, Mine
    <3> QED BY <1>0, <2>1, <3>1, <3>2, <3>3 DEF JobInv, TargetsAreSeen, Seen
  <2>13. MemoryIsDecoded'
    <3>0. \A t : AllDecoded(disk.ledger, t) => AllDecoded(disk'.ledger, t)
      BY <1>1 DEF AllDecoded, Lasting
    <3>1. AllDecoded(disk'.ledger, <<>>)
      BY DEF AllDecoded
    <3>2. route.ledger => \A q \in Workers : AllDecoded(disk'.ledger, claim'[q].packets)
      BY <1>0, <2>7, <3>0, <3>1, FreeIsClaim DEF JobInv, MemoryIsDecoded
    <3>3. route.ledger => \A k \in Jobs : \A a \in rows'[k] \ {Seed, Edited} :
                            a # Nothing /\ DecodedIn(disk.ledger, a)
      BY <1>0, <2>1, <2>6 DEF JobInv, MemoryIsDecoded, left
    <3> QED BY <1>1, <2>8, <3>2, <3>3 DEF MemoryIsDecoded, Lasting
  <2> QED BY <1>1, <2>5, <2>9, <2>10, <2>11, <2>12, <2>13 DEF Inv, JobInv
<1> QED BY <1>3, <1>4, <1>5, <1>7, <1>8

\* Another writer's row is not yet one that a worker of the job has seen.
LEMMA EditStep ==
  ASSUME Inv, NEW j \in Jobs, Edit(j)
  PROVE  Inv' /\ NoneDone
<1>0. /\ UNCHANGED provider /\ UNCHANGED <<job, claim>> /\ JobInv
      /\ rows[j] \subseteq {Seed} /\ rows' = [rows EXCEPT ![j] = {Edited}]
  BY DEF Edit, Inv
<1>1. ProviderInv' /\ Lasting
  BY <1>0, ProviderStays DEF Inv
<1>2. /\ rows' = [k \in Jobs |-> rows'[k]] /\ rows'[j] = {Edited}
      /\ \A k \in Jobs : k # j => rows'[k] = rows[k]
  BY <1>0 DEF JobInv, JobShapes
<1>3. JobShapes' /\ ClaimIsFenced'
  BY <1>0, <1>2 DEF JobInv, JobShapes, ClaimIsFenced, Mine
<1>4. RowIsSingle'
  BY <1>0, <1>2 DEF JobInv, RowIsSingle
<1>5. TargetsAreSeen'
  <2> SUFFICES ASSUME NEW q \in Workers, claim[q].at \in {"compile", "persist"}, Owns(q)
               PROVE  Seen(claim[q])'
    BY <1>0 DEF TargetsAreSeen, Owns, Mine
  <2>1. claim[q].job \in Jobs /\ Seen(claim[q])
    BY <1>0 DEF JobInv, TargetsAreSeen, ClaimIsFenced, Mine
  <2>2. CASE claim[q].job = j
    BY <1>0, <1>2, <2>1, <2>2 DEF Seen, Seed, Edited
  <2>3. CASE claim[q].job # j
    BY <1>0, <1>2, <2>1, <2>3 DEF Seen
  <2> QED BY <2>2, <2>3
<1>6. MemoryIsDecoded'
  <2>0. \A t : AllDecoded(disk.ledger, t) => AllDecoded(disk'.ledger, t)
    BY <1>1 DEF AllDecoded, Lasting
  <2>1. route.ledger => \A q \in Workers : AllDecoded(disk'.ledger, claim'[q].packets)
    BY <1>0, <2>0 DEF JobInv, MemoryIsDecoded
  <2>2. route.ledger => \A k \in Jobs : AllDecoded(disk'.ledger, job'[k].prepared)
    BY <1>0, <2>0 DEF JobInv, MemoryIsDecoded
  <2>3. route.ledger => \A k \in Jobs : \A a \in rows'[k] \ {Seed, Edited} :
                          a # Nothing /\ DecodedIn(disk.ledger, a)
    BY <1>0, <1>2 DEF JobInv, MemoryIsDecoded
  <2> QED BY <1>1, <2>1, <2>2, <2>3 DEF MemoryIsDecoded, Lasting
<1>7. NoneDone
  BY <1>0 DEF NoneDone
<1> QED BY <1>1, <1>3, <1>4, <1>5, <1>6, <1>7 DEF Inv, JobInv

LEMMA WorkerCrashStep ==
  ASSUME Inv, NEW p \in Workers, WorkerCrash(p)
  PROVE  Inv' /\ NoneDone
<1>0. /\ Crash(p) /\ claim' = [claim EXCEPT ![p] = Free] /\ UNCHANGED <<job, rows>>
      /\ IsDisk(disk) /\ JobInv /\ ProviderInv
  BY DEF WorkerCrash, Inv, ProviderInv, Shapes
<1>1. ProviderInv' /\ Lasting
  BY <1>0, CrashStep, LastingDisk DEF Crash
<1>2. JobSettles /\ NoneDone
  BY <1>0 DEF JobSettles, NoneDone
<1> QED BY <1>0, <1>1, <1>2, GivesUp, ServiceStep DEF Inv

LEMMA StopStep ==
  ASSUME Inv, NEW p \in Workers, Stop(p)
  PROVE  Inv' /\ NoneDone
<1>0. /\ Becomes(p, Down) /\ UNCHANGED <<route, wave, disk, flock, posts>>
      /\ UNCHANGED Service /\ IsDisk(disk)
  BY DEF Stop, Becomes, Service, Inv, ProviderInv, Shapes
<1>1. PICK r : r = Down
  OBVIOUS
<1>2. IsProc(r) /\ r.pc = "off"
  BY <1>1 DEF IsProc, Down
<1>3. ProviderInv'
  BY <1>0, <1>1, <1>2, OutsideStep DEF Inside, Inv
<1>4. Lasting
  BY <1>0, LastingDisk
<1> QED BY <1>0, <1>3, <1>4, ServiceStays DEF Inv

\* The steps of the provider alone.
LEMMA CallStep ==
  ASSUME Inv, UNCHANGED Service,
         NextWave \/ \E p \in Workers : Extraction(p) \/ Boot(p)
  PROVE  Inv' /\ NoneDone
<1>0. IsDisk(disk) /\ ProviderInv /\ JobInv
  BY DEF Inv, ProviderInv, Shapes
<1>1. CASE NextWave
  BY <1>0, <1>1, NextWaveStep, LastingDisk, ServiceStays DEF NextWave, Inv
<1>2. ASSUME NEW p \in Workers, Boot(p)
      PROVE  Inv' /\ NoneDone
  BY <1>0, <1>2, BootStep, LastingDisk, ServiceStays DEF Boot, Inv
<1>3. ASSUME NEW p \in Workers, Extraction(p)
      PROVE  Inv' /\ NoneDone
  <2>1. ProviderInv' /\ Lasting
    BY <1>0, <1>3, ExtractionStep, LedgerGrows, DecodedStays DEF Lasting
  <2> QED BY <1>0, <2>1, ServiceStays DEF Inv
<1> QED BY <1>1, <1>2, <1>3

-----------------------------------------------------------------------------
(***************************************************************************)
(* The theorems.                                                           *)
(***************************************************************************)

LEMMA InitInv == Init => Inv
<1> SUFFICES ASSUME Init
             PROVE  Inv
  OBVIOUS
<1>0. <<>> \in Seq({})
  OBVIOUS
<1>1. IsSeq(<<>>) /\ DOMAIN <<>> = {}
  BY <1>0 DEF IsSeq
<1>2. PICK d : d = Down
  OBVIOUS
<1>3. IsProc(d) /\ d.pc = "off"
  BY <1>2 DEF IsProc, Down
<1>4. /\ proc = [p \in Workers |-> d] /\ flock = [k \in Keys |-> NoKey] /\ posts = {}
      /\ disk = [ledger |-> <<>>, torn |-> FALSE, journal |-> <<>>, cache |-> <<>>]
  BY <1>2 DEF Init, ProviderInit
<1>5. /\ IsDisk(disk) /\ disk.ledger = <<>> /\ disk.cache = <<>>
  BY <1>1, <1>4 DEF IsDisk
<1>6. Shapes /\ LockIsHeld /\ StartedOnce /\ SentIsRecorded /\ AnswerIsDecoded
  BY <1>1, <1>3, <1>4, <1>5
     DEF Shapes, LockIsHeld, StartedOnce, SentIsRecorded, AnswerIsDecoded, Inside
<1>7. WithinReservation
  <2>1. {i \in DOMAIN disk.ledger : disk.ledger[i].event = "started"} = {}
    BY <1>1, <1>5
  <2>2. Reserved = 0
    BY <2>1, FS_EmptySet DEF Reserved
  <2> QED BY <2>2, ExtractionAssumption DEF WithinReservation, ExtractionAssumption
<1>8. PICK c, g : c = Free /\ g = Queued
  OBVIOUS
<1>9. IsClaim(c) /\ c.at = "free" /\ c.packets = <<>>
  BY <1>8, FreeIsClaim
<1>10. IsJob(g) /\ g.prepared = <<>>
  BY <1>1, <1>8 DEF IsJob, Queued
<1>11. /\ claim = [p \in Workers |-> c] /\ job = [j \in Jobs |-> g]
       /\ rows \in [Jobs -> {{}, {Seed}}]
  BY <1>8 DEF Init
<1>12. JobShapes /\ ClaimIsFenced /\ RowIsSingle /\ TargetsAreSeen
  BY <1>9, <1>10, <1>11 DEF JobShapes, ClaimIsFenced, RowIsSingle, TargetsAreSeen
<1>13. MemoryIsDecoded
  BY <1>9, <1>10, <1>11 DEF MemoryIsDecoded, AllDecoded
<1> QED BY <1>6, <1>7, <1>12, <1>13 DEF Inv, ProviderInv, JobInv

\* A step of the system.
LEMMA NextInv ==
  ASSUME Inv, Next
  PROVE  Inv' /\ ClosesItsOwn
<1>0. NoneDone => ClosesItsOwn
  BY DEF NoneDone, ClosesItsOwn
<1>1. ASSUME NEW p \in Workers, Work(p)
      PROVE  Inv' /\ (NoneDone \/ ClosesItsOwn)
  <2>1. CASE Extraction(p) /\ UNCHANGED Service
    BY <2>1, CallStep
  <2> QED BY <1>1, <2>1, ClaimStep, FetchPreparedStep, ExtractStep, AnsweredStep, RefusedStep,
             StorePreparedStep, FoldStep, CompileStep, PersistStep DEF Work
<1>2. ASSUME NEW p \in Workers, WorkerCrash(p) \/ Started(p) \/ Stop(p)
      PROVE  Inv' /\ NoneDone
  BY <1>2, WorkerCrashStep, StopStep, CallStep DEF Started
<1>3. ASSUME NEW j \in Jobs, Edit(j) \/ Bury(j)
      PROVE  Inv' /\ NoneDone
  BY <1>3, EditStep, BuryStep
<1>4. CASE Wave
  BY <1>0, <1>4, CallStep DEF Wave
<1>5. CASE Idle
  <2>1. UNCHANGED provider /\ UNCHANGED Service
    BY <1>5 DEF Idle, vars, Service
  <2> QED BY <1>0, <2>1, ProviderStays, ServiceStays DEF Inv
<1> QED BY <1>0, <1>1, <1>2, <1>3, <1>4, <1>5 DEF Next

LEMMA StutterInv ==
  ASSUME Inv, UNCHANGED vars
  PROVE  Inv'
<1>1. UNCHANGED provider /\ UNCHANGED Service
  BY DEF vars, Service
<1> QED BY <1>1, ProviderStays, ServiceStays DEF Inv

LEMMA Invariance == Spec => []Inv
<1>1. Inv /\ [Next]_vars => Inv'
  BY NextInv, StutterInv
<1> QED BY InitInv, <1>1, PTL DEF Spec

\* On the campaign route, with its ledger and its cache, extract_sync sends an extraction
\* at most once in a wave: for any number of workers, keys, waves and crashes, wherever
\* they crash.
THEOREM ExtractionIsPaidOnce == Spec => []PaidOnce
<1>1. Inv => PaidOnce
  <2> SUFFICES ASSUME Inv, route.cache, route.ledger, NEW k \in Keys, NEW w \in 1..MaxWave
               PROVE  Cardinality(Sent(k, w)) <= 1
    BY DEF PaidOnce
  <2>1. \A x, y \in Sent(k, w) : x = y
    <3> SUFFICES ASSUME NEW x \in Sent(k, w), NEW y \in Sent(k, w)
                 PROVE  x = y
      OBVIOUS
    <3>1. /\ x.key = k /\ x.wave = w /\ y.key = k /\ y.wave = w
          /\ x = [key |-> x.key, wave |-> x.wave, id |-> x.id]
          /\ y = [key |-> y.key, wave |-> y.wave, id |-> y.id]
          /\ Recorded(x.key, x.wave, x.id) /\ Recorded(y.key, y.wave, y.id)
      BY DEF Sent, Inv, ProviderInv, SentIsRecorded
    <3>2. PICK i \in DOMAIN disk.ledger : StartOf(disk.ledger[i], k, w) /\ disk.ledger[i].id = x.id
      BY <3>1 DEF Recorded
    <3>3. PICK j \in DOMAIN disk.ledger : StartOf(disk.ledger[j], k, w) /\ disk.ledger[j].id = y.id
      BY <3>1 DEF Recorded
    <3>4. i = j
      BY <3>2, <3>3 DEF Inv, ProviderInv, StartedOnce
    <3> QED BY <3>1, <3>2, <3>3, <3>4
  <2>2. Sent(k, w) = {} \/ \E x : Sent(k, w) = {x}
    BY <2>1
  <2>3. CASE Sent(k, w) = {}
    <3>1. Cardinality({}) = 0
      BY FS_EmptySet
    <3> QED BY <2>3, <3>1
  <2>4. ASSUME NEW x, Sent(k, w) = {x}
        PROVE  Cardinality(Sent(k, w)) <= 1
    <3>1. Cardinality({x}) = 1
      BY FS_Singleton
    <3> QED BY <2>4, <3>1
  <2> QED BY <2>2, <2>3, <2>4
<1> QED BY <1>1, Invariance, PTL

\* The attempt ledger is the record of the campaign: it stays within the reservation,
\* nothing is sent that it does not have as started, and no row of memory comes from an
\* attempt that it does not have as decoded.
THEOREM LedgerIsRecord == Spec => []LedgerIsTheRecord
<1>1. Inv => LedgerIsTheRecord
  <2> SUFFICES ASSUME Inv, route.ledger
               PROVE  /\ Reserved <= Cap
                      /\ \A x \in posts : \E i \in DOMAIN disk.ledger :
                           disk.ledger[i].event = "started" /\ disk.ledger[i].id = x.id
                      /\ \A j \in Jobs : \A a \in rows[j] \ {Seed, Edited} :
                           \E i \in DOMAIN disk.ledger :
                             disk.ledger[i].id = a /\ disk.ledger[i].status = "decoded"
    BY DEF LedgerIsTheRecord
  <2>1. Reserved <= Cap
    BY DEF Inv, ProviderInv, WithinReservation
  <2>2. \A x \in posts : \E i \in DOMAIN disk.ledger :
          disk.ledger[i].event = "started" /\ disk.ledger[i].id = x.id
    BY DEF Inv, ProviderInv, SentIsRecorded, Recorded, StartOf
  <2>3. \A j \in Jobs : \A a \in rows[j] \ {Seed, Edited} : \E i \in DOMAIN disk.ledger :
          disk.ledger[i].id = a /\ disk.ledger[i].status = "decoded"
    BY DEF Inv, JobInv, MemoryIsDecoded, DecodedIn
  <2> QED BY <2>1, <2>2, <2>3
<1> QED BY <1>1, Invariance, PTL

\* A compile closes the rows it was folded on and no others, whichever workers lose and
\* take over its job and whoever edits the item meanwhile; and the item never has two
\* active rows.
THEOREM EditIsKept == Spec => EditIsNotBuried
<1>1. ASSUME Inv, Inv', Next
      PROVE  \A j \in Jobs :
               /\ Cardinality(rows'[j]) <= 1
               /\ job'[j].state = "done" /\ job[j].state # "done" =>
                    \E p \in Workers :
                      /\ Mine(p) = j
                      /\ rows[j] \ rows'[j] \subseteq claim[p].targets
                      /\ rows'[j] \ rows[j] # {} => claim[p].targets = rows[j]
  <2> SUFFICES ASSUME NEW j \in Jobs
               PROVE  Cardinality(rows'[j]) <= 1
    BY <1>1, NextInv DEF ClosesItsOwn
  <2>1. rows'[j] = {} \/ \E a : rows'[j] = {a}
    BY <1>1 DEF Inv, JobInv, RowIsSingle
  <2>2. CASE rows'[j] = {}
    BY <2>2, FS_EmptySet
  <2>3. ASSUME NEW a, rows'[j] = {a}
        PROVE  Cardinality(rows'[j]) <= 1
    <3>1. Cardinality({a}) = 1
      BY FS_Singleton
    <3> QED BY <2>3, <3>1
  <2> QED BY <2>1, <2>2, <2>3
<1> QED BY <1>1, Invariance, PTL DEF Spec, EditIsNotBuried
=============================================================================
