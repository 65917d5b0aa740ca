---------------------------- MODULE RecallProofs ----------------------------
(***************************************************************************)
(* Proofs about recall.  Beside the writers of a scope (RecallSession),    *)
(* for any episodes, readers and bounds: what survives the forgetting of   *)
(* its episode, that an answer is current and that what is owed is served. *)
(* About a deep recall (DeepRecall), for any caps, prices, retries, turns  *)
(* of the model, bills below a request's ceiling and candidates: that what *)
(* is billed is accounted for, and what an answer rests on.                *)
(***************************************************************************)
EXTENDS RecallSession, DeepRecall, SequenceTheorems, FiniteSetTheorems, WellFoundedInduction, TLAPS

---------------------------------------------------------------------------
(***************************************************************************)
(* The inductive invariant: the rows, the writers and the readers.         *)
(***************************************************************************)
Compiling == [at : {"idle", "fetched", "open"}, stamp : Times, blocked : BOOLEAN]

Shapes ==
  /\ now \in Times
  /\ episodes \in [Episodes -> {"absent", "live", "forgotten"}]
  /\ rows \in Seq(Row) /\ Len(rows) <= MaxRows
  /\ compiles \in [Episodes -> Compiling]
  /\ traces \in [Readers -> SUBSET {"recalled", "degraded"}]

\* Only an open row is corrected, and it stays so until the correction commits.
FixIsOpen ==
  fix.on => /\ fix.unit \in DOMAIN rows /\ Live(fix.unit) /\ Open(fix.unit)
            /\ fix.stamp \in Times /\ fix.stamp <= now

ClosedIsPast == \A i \in DOMAIN rows : ~Open(i) => rows[i].tto <= now

\* A live unit cites its source, and whatever cites an episode was made from it.
CitesOwn ==
  \A i \in DOMAIN rows :
    /\ Live(i) /\ rows[i].src # NoEpisode => rows[i].src \in rows[i].cites
    /\ \A e \in rows[i].cites : i \in Derived(OfEpisode(e))

\* A forget under way covers all that carries its episode: the lock keeps more out.
ForgetCovers ==
  forget.on /\ forget.kind = "episode" =>
    /\ forget.target \in Episodes
    /\ \A i \in DOMAIN rows : Live(i) /\ Carries(i, forget.target) => i \in forget.units

WritersInv ==
  /\ Shapes /\ FixIsOpen /\ ClosedIsPast /\ CitesOwn /\ ForgetCovers
  /\ raced \subseteq DOMAIN rows /\ SurvivesOnlyByRace

Stages == {"idle", "snapshot", "candidates", "vector", "units", "citations", "sources",
           "trace", "pending", "episodes", "degraded", "retrace", "done", "failed"}
Checked == {"citations", "sources", "trace", "pending", "episodes", "degraded", "retrace"}

Reading ==
  [pc : Stages, deep : BOOLEAN, pinned : BOOLEAN, asof : Times, valid : Times,
   supported : BOOLEAN, pool : SUBSET Rows, items : SUBSET Rows, cited : SUBSET Rows,
   raw : SUBSET Episodes, closed : SUBSET Rows, gone : SUBSET Rows, owed : SUBSET Matching]

\* What one recall has read is of rows that were there; a row that was closed or gone
\* when it began can no longer be recalled.
ReadOk(q) ==
  /\ q \in Reading
  /\ q.pool \cup q.items \cup q.closed \cup q.gone \subseteq DOMAIN rows
  /\ \A i \in q.gone : ~Live(i)
  /\ ~q.pinned =>
       /\ \A i \in q.closed : ~Live(i) \/ rows[i].tto <= q.asof
       /\ (q.pool \cup q.items) \cap q.closed = {}
  /\ q.pc \in Checked => Direct(q.items) \cap q.gone = {}
  /\ q.pc \in {"degraded", "retrace"} => q.raw # {}

ReadersInv == reads \in [Readers -> Reading] /\ \A r \in Readers : ReadOk(reads[r])

RecallInv == WritersInv /\ ReadersInv

---------------------------------------------------------------------------
(***************************************************************************)
(* The recursive queries, and how the rows may change.                     *)
(***************************************************************************)
LEMMA DerivedHas ==
  ASSUME NEW S
  PROVE  /\ S \subseteq DOMAIN rows => S \subseteq Derived(S)
         /\ S \subseteq DOMAIN rows' => S \subseteq Derived(S)'
BY DEF Derived

LEMMA DerivedCloses ==
  ASSUME NEW S, NEW i
  PROVE  /\ i \in DOMAIN rows /\ rows[i].prev \in Derived(S) => i \in Derived(S)
         /\ i \in DOMAIN rows' /\ rows'[i].prev \in Derived(S)' => i \in Derived(S)'
BY DEF Derived, Made

\* Rows keep their source and their predecessor; one that is deleted stays deleted, and
\* one that is closed keeps its time.
RowsGrow ==
  /\ DOMAIN rows \subseteq DOMAIN rows'
  /\ \A i \in DOMAIN rows :
       /\ rows'[i].prev = rows[i].prev /\ rows'[i].src = rows[i].src
       /\ rows'[i].cites \subseteq rows[i].cites
       /\ rows'[i].tto = rows[i].tto \/ rows'[i].tto <= now
       /\ Live(i)' => /\ Live(i) /\ rows'[i].cites = rows[i].cites
                      /\ rows'[i].tto = rows[i].tto \/ Open(i)

LEMMA DerivedGrows ==
  ASSUME RowsGrow, NEW S, NEW R, S \subseteq R, S \subseteq DOMAIN rows
  PROVE  Derived(S) \subseteq Derived(R)'
<1> SUFFICES ASSUME NEW i \in Derived(S)
             PROVE  i \in Derived(R)'
    OBVIOUS
<1>1. i \in DOMAIN rows /\ i \in DOMAIN rows'
    BY DEF Derived, RowsGrow
<1>2. ASSUME NEW T \in SUBSET DOMAIN rows', R \cup Made(T)' \subseteq T
      PROVE  i \in T
    <2>1. PICK U : U = T \cap DOMAIN rows
        OBVIOUS
    <2>2. S \subseteq U
        BY <1>2, <2>1
    <2>3. Made(U) \subseteq U
        BY <1>2, <2>1 DEF Made, RowsGrow
    <2> QED BY <2>1, <2>2, <2>3 DEF Derived
<1> QED BY <1>1, <1>2 DEF Derived

\* A row that a commit inserts is compiled from an episode no forget has locked, or
\* corrects the row the correction holds and copies its citations.
Inserted(i) ==
  /\ rows'[i].tto = Inf
  /\ \/ \E e \in Episodes :
          /\ rows'[i].src = e /\ rows'[i].cites = {e} /\ e \notin LockedEpisodes
          /\ episodes[e] = "forgotten" => i \in raced'
     \/ /\ fix.on /\ rows'[i].prev = fix.unit /\ rows'[i].cites = rows[fix.unit].cites
        /\ rows'[i].cites \cap LockedEpisodes = {}
        /\ rows'[i].src \in {NoEpisode, rows[fix.unit].src}

RowsStep == RowsGrow /\ \A i \in DOMAIN rows' \ DOMAIN rows : Inserted(i)

LEMMA CitesOwnStays ==
  ASSUME WritersInv, RowsStep
  PROVE  CitesOwn'
<1> SUFFICES ASSUME NEW i \in DOMAIN rows'
             PROVE  /\ Live(i)' /\ rows'[i].src # NoEpisode => rows'[i].src \in rows'[i].cites
                    /\ \A e \in rows'[i].cites : i \in Derived(OfEpisode(e))'
    BY DEF CitesOwn
<1>0. CitesOwn /\ RowsGrow /\ FixIsOpen
    BY DEF WritersInv, RowsStep
<1>1. ASSUME NEW e, NEW k \in DOMAIN rows, k \in Derived(OfEpisode(e))
      PROVE  k \in Derived(OfEpisode(e))'
    <2>1. PICK S, R : S = OfEpisode(e) /\ R = OfEpisode(e)'
        OBVIOUS
    <2>2. S \subseteq R /\ S \subseteq DOMAIN rows
        BY <1>0, <2>1 DEF OfEpisode, RowsGrow
    <2>3. Derived(S) \subseteq Derived(R)'
        BY <1>0, <2>2, DerivedGrows
    <2>4. k \in Derived(R)'
        BY <1>1, <2>1, <2>3
    <2> QED BY <2>1, <2>4 DEF Derived
<1>2. CASE i \in DOMAIN rows
    BY <1>0, <1>1, <1>2 DEF CitesOwn, RowsGrow
<1>3. CASE i \notin DOMAIN rows
    <2>0. Inserted(i)
        BY <1>3 DEF RowsStep
    <2>1. ASSUME NEW e \in Episodes, rows'[i].src = e, rows'[i].cites = {e}
          PROVE  /\ rows'[i].src \in rows'[i].cites
                 /\ \A x \in rows'[i].cites : i \in Derived(OfEpisode(x))'
        <3>1. PICK R : R = OfEpisode(e)'
            OBVIOUS
        <3>2. i \in R /\ R \subseteq DOMAIN rows'
            BY <2>1, <3>1 DEF OfEpisode
        <3>3. i \in Derived(R)'
            BY <3>2, DerivedHas
        <3>4. i \in Derived(OfEpisode(e))'
            BY <3>1, <3>3 DEF Derived
        <3> QED BY <2>1, <3>4
    <2>2. ASSUME fix.on, rows'[i].prev = fix.unit, rows'[i].cites = rows[fix.unit].cites,
                 rows'[i].src \in {NoEpisode, rows[fix.unit].src}
          PROVE  /\ rows'[i].src # NoEpisode => rows'[i].src \in rows'[i].cites
                 /\ \A x \in rows'[i].cites : i \in Derived(OfEpisode(x))'
        <3>1. PICK k : k = fix.unit
            OBVIOUS
        <3>2. k \in DOMAIN rows /\ Live(k)
            BY <1>0, <2>2, <3>1 DEF FixIsOpen
        <3>3. rows'[i].src # NoEpisode => rows'[i].src \in rows'[i].cites
            BY <1>0, <2>2, <3>1, <3>2 DEF CitesOwn
        <3>4. ASSUME NEW x \in rows'[i].cites
              PROVE  i \in Derived(OfEpisode(x))'
            <4>1. k \in Derived(OfEpisode(x))
                BY <1>0, <2>2, <3>1, <3>2 DEF CitesOwn
            <4>2. k \in Derived(OfEpisode(x))'
                BY <1>1, <3>2, <4>1
            <4>3. PICK R : R = OfEpisode(x)'
                OBVIOUS
            <4>4. rows'[i].prev \in Derived(R)'
                BY <2>2, <3>1, <4>2, <4>3 DEF Derived
            <4>5. i \in Derived(R)'
                BY <4>4, DerivedCloses
            <4> QED BY <4>3, <4>5 DEF Derived
        <3> QED BY <3>3, <3>4
    <2> QED BY <2>0, <2>1, <2>2 DEF Inserted
<1> QED BY <1>2, <1>3

\* What carries a forgotten episode goes back to a compile that raced.
LEMMA SurvivorsStay ==
  ASSUME WritersInv, RowsStep, raced \subseteq raced', raced' \subseteq DOMAIN rows',
         NEW i \in DOMAIN rows', NEW e \in Episodes, Live(i)', Carries(i, e)',
         episodes[e] = "forgotten"
  PROVE  i \in Derived(raced)'
<1>0. /\ CitesOwn /\ RowsGrow /\ FixIsOpen /\ SurvivesOnlyByRace /\ raced \subseteq DOMAIN rows
      /\ NoEpisode \notin Episodes
    BY RecallBounds DEF WritersInv, RowsStep
<1>1. PICK S, R : S = raced /\ R = raced'
    OBVIOUS
<1>2. Derived(S) \subseteq Derived(R)'
    BY <1>0, <1>1, DerivedGrows
<1>3. ASSUME NEW k \in DOMAIN rows, Live(k), Carries(k, e)
      PROVE  k \in Derived(R)'
    <2>1. k \in Derived(raced)
        BY <1>0, <1>3 DEF SurvivesOnlyByRace
    <2> QED BY <1>1, <1>2, <2>1
<1>4. i \in Derived(R)'
    <2>1. CASE i \in DOMAIN rows
        BY <1>0, <1>3, <2>1 DEF RowsGrow, Carries
    <2>2. CASE i \notin DOMAIN rows
        <3>0. Inserted(i)
            BY <2>2 DEF RowsStep
        <3>1. ASSUME NEW x \in Episodes, rows'[i].src = x, rows'[i].cites = {x},
                     episodes[x] = "forgotten" => i \in raced'
              PROVE  i \in Derived(R)'
            <4>1. i \in R /\ R \subseteq DOMAIN rows'
                BY <1>1, <3>1 DEF Carries
            <4> QED BY <4>1, DerivedHas
        <3>2. ASSUME fix.on, rows'[i].prev = fix.unit, rows'[i].cites = rows[fix.unit].cites,
                     rows'[i].src \in {NoEpisode, rows[fix.unit].src}
              PROVE  i \in Derived(R)'
            <4>1. PICK k : k = fix.unit
                OBVIOUS
            <4>2. k \in DOMAIN rows /\ Live(k)
                BY <1>0, <3>2, <4>1 DEF FixIsOpen
            <4>3. Carries(k, e)
                BY <1>0, <3>2, <4>1 DEF Carries
            <4>4. k \in Derived(R)'
                BY <1>3, <4>2, <4>3
            <4> QED BY <3>2, <4>1, <4>4, DerivedCloses
        <3> QED BY <3>0, <3>1, <3>2 DEF Inserted
    <2> QED BY <2>1, <2>2
<1> QED BY <1>1, <1>4 DEF Derived

\* Nothing that carries an episode comes in while a forget has it locked.
LEMMA LockKeepsOut ==
  ASSUME WritersInv, RowsStep, NEW i \in DOMAIN rows', NEW e \in LockedEpisodes,
         e \in Episodes, Carries(i, e)', Live(i)'
  PROVE  i \in DOMAIN rows /\ Live(i) /\ Carries(i, e)
<1>0. CitesOwn /\ RowsGrow /\ FixIsOpen /\ NoEpisode \notin Episodes
    BY RecallBounds DEF WritersInv, RowsStep
<1>1. CASE i \in DOMAIN rows
    BY <1>0, <1>1 DEF RowsGrow, Carries
<1>2. CASE i \notin DOMAIN rows
    <2>0. Inserted(i)
        BY <1>2 DEF RowsStep
    <2>1. PICK k : k = fix.unit
        OBVIOUS
    <2>2. fix.on => (rows[k].src # NoEpisode => rows[k].src \in rows[k].cites)
        BY <1>0, <2>1 DEF FixIsOpen, CitesOwn
    <2> QED BY <1>0, <2>0, <2>1, <2>2 DEF Inserted, Carries
<1> QED BY <1>1, <1>2

---------------------------------------------------------------------------
(***************************************************************************)
(* The commits.                                                            *)
(***************************************************************************)
RowsTyped == rows \in Seq(Row) /\ Len(rows) <= MaxRows

LEMMA Lengths ==
  /\ rows \in Seq(Row) => /\ Len(rows) \in Nat /\ DOMAIN rows = 1 .. Len(rows)
                          /\ \A i \in DOMAIN rows : rows[i] \in Row
  /\ rows' \in Seq(Row) => /\ Len(rows') \in Nat /\ DOMAIN rows' = 1 .. Len(rows')
                           /\ \A i \in DOMAIN rows' : rows'[i] \in Row
BY LenProperties

LEMMA TimesAreNat ==
  /\ LastTime \in Nat \ {0} /\ Inf \in Nat /\ Inf \in 1 .. Inf /\ 1 \in Times
  /\ \A t \in Times : t \in Nat /\ t \in 0 .. LastTime /\ t \in 1 .. Inf /\ t < Inf
BY RecallBounds DEF Inf, Times

LEMMA CompileCommitsRows ==
  ASSUME WritersInv, NEW e \in Episodes, NEW derived, CompileCommits(e, derived)
  PROVE  RowsTyped' /\ RowsStep /\ raced \subseteq raced' /\ raced' \subseteq DOMAIN rows'
<1>0. /\ rows \in Seq(Row) /\ Len(rows) < MaxRows /\ raced \subseteq DOMAIN rows
      /\ compiles[e] \in Compiling /\ MaxRows \in Nat
    BY RecallBounds DEF WritersInv, Shapes, CompileCommits
<1>1. Len(rows) \in Nat /\ DOMAIN rows = 1 .. Len(rows)
    BY <1>0, Lengths
<1>2. CASE ~(derived /\ ~compiles[e].blocked)
    <2>1. rows' = rows /\ raced' = raced
        BY <1>2 DEF CompileCommits
    <2> QED BY <1>0, <1>1, <2>1 DEF RowsTyped, RowsStep, RowsGrow, Live
<1>3. CASE derived /\ ~compiles[e].blocked
    <2>1. PICK u : u = CompiledRow(e)
        OBVIOUS
    <2>2. u = [src |-> e, cites |-> {e}, prev |-> 0, state |-> "active",
               tfrom |-> compiles[e].stamp, tto |-> Inf, from |-> 0, to |-> Inf]
        BY <2>1 DEF CompiledRow
    <2>3. u \in Row
        <3>1. compiles[e].stamp \in Times
            BY <1>0 DEF Compiling
        <3>2. 0 \in 0 .. MaxRows /\ 0 \in 0 .. LastTime
            BY <1>0, TimesAreNat
        <3> QED BY <2>2, <3>1, <3>2, TimesAreNat DEF Row
    <2>4. rows' = Append(rows, u)
        BY <1>3, <2>1 DEF CompileCommits
    <2>5. /\ rows' \in Seq(Row) /\ Len(rows') = Len(rows) + 1
          /\ \A i \in 1 .. Len(rows) : rows'[i] = rows[i]
          /\ rows'[Len(rows) + 1] = u
        BY <1>0, <2>3, <2>4, AppendProperties
    <2>6. DOMAIN rows' = 1 .. (Len(rows) + 1)
        BY <2>5, LenProperties
    <2>7. raced' = IF episodes[e] = "forgotten" THEN raced \cup {Len(rows) + 1} ELSE raced
        BY <1>3 DEF CompileCommits
    <2>8. raced \subseteq raced' /\ raced' \subseteq DOMAIN rows'
        BY <1>0, <1>1, <2>6, <2>7
    <2>9. RowsGrow
        BY <1>1, <2>5, <2>6 DEF RowsGrow, Live
    <2>10. ASSUME NEW i \in DOMAIN rows' \ DOMAIN rows
           PROVE  Inserted(i)
        <3>1. i = Len(rows) + 1
            BY <1>1, <2>6
        <3>2. rows'[i].tto = Inf /\ rows'[i].src = e /\ rows'[i].cites = {e}
            BY <2>2, <2>5, <3>1
        <3>3. e \notin LockedEpisodes
            BY DEF CompileCommits
        <3>4. episodes[e] = "forgotten" => i \in raced'
            BY <2>7, <3>1
        <3> QED BY <3>2, <3>3, <3>4 DEF Inserted
    <2>11. RowsTyped'
        BY <1>0, <1>1, <2>5 DEF RowsTyped
    <2> QED BY <2>8, <2>9, <2>10, <2>11 DEF RowsStep
<1> QED BY <1>2, <1>3

LEMMA CorrectCommitsRows ==
  ASSUME WritersInv, CorrectCommits
  PROVE  RowsTyped' /\ RowsStep
<1>0. PICK i, s, x : i = fix.unit /\ s = fix.stamp /\ x = rows[i]
    OBVIOUS
<1>1. /\ rows \in Seq(Row) /\ i \in DOMAIN rows /\ x.state # "deleted" /\ x.tto = Inf
      /\ s \in Times /\ s <= now /\ MaxRows \in Nat /\ Len(rows) <= MaxRows /\ fix.on
    BY <1>0, RecallBounds DEF WritersInv, Shapes, FixIsOpen, CorrectCommits, Live, Open
<1>2. Len(rows) \in Nat /\ DOMAIN rows = 1 .. Len(rows) /\ x \in Row /\ i \in 0 .. MaxRows
    BY <1>0, <1>1, Lengths
<1>3. PICK new, rest, old :
        /\ new = [x EXCEPT !.src = NoEpisode, !.from = s, !.tfrom = s, !.prev = i]
        /\ rest = [x EXCEPT !.to = s, !.tfrom = s, !.prev = i]
        /\ old = [x EXCEPT !.state = "superseded", !.tto = s]
    OBVIOUS
<1>4. /\ new \in Row /\ new.tto = Inf /\ new.prev = i /\ new.cites = x.cites
      /\ new.src = NoEpisode
    BY <1>1, <1>2, <1>3, TimesAreNat DEF Row
<1>5. /\ rest \in Row /\ rest.tto = Inf /\ rest.prev = i /\ rest.cites = x.cites
      /\ rest.src = x.src
    BY <1>1, <1>2, <1>3, TimesAreNat DEF Row
<1>6. /\ old \in Row /\ old.prev = x.prev /\ old.src = x.src /\ old.cites = x.cites
      /\ old.tto = s
    BY <1>1, <1>2, <1>3, TimesAreNat DEF Row
<1>7. PICK split : split = (x.from < s)
    OBVIOUS
<1>8. PICK base, tail :
        /\ base = [rows EXCEPT ![i].state = "superseded", ![i].tto = s]
        /\ tail = IF split THEN <<rest>> ELSE <<>>
    OBVIOUS
<1>9. rows' = (base \o <<new>>) \o tail
    BY <1>0, <1>3, <1>7, <1>8, Zenon DEF CorrectCommits
<1>10. base = [rows EXCEPT ![i] = old]
    <2>1. PICK y : y = [x EXCEPT !.state = "superseded"]
        OBVIOUS
    <2>2. PICK B : B = [rows EXCEPT ![i] = y]
        OBVIOUS
    <2>3. base = [B EXCEPT ![i].tto = s]
        BY <1>0, <1>8, <2>1, <2>2, Zenon
    <2>4. B[i] = y
        BY <1>1, <2>2
    <2>5. old = [y EXCEPT !.tto = s]
        BY <1>3, <2>1, Zenon
    <2>6. base = [B EXCEPT ![i] = old]
        BY <2>3, <2>4, <2>5, Zenon
    <2>7. rows = [j \in 1 .. Len(rows) |-> rows[j]]
        BY <1>1, LenProperties
    <2> QED BY <2>2, <2>6, <2>7
<1>11. /\ base \in Seq(Row) /\ Len(base) = Len(rows)
       /\ \A j \in 1 .. Len(rows) : base[j] = IF j = i THEN old ELSE rows[j]
    BY <1>1, <1>2, <1>6, <1>10, ExceptSeq
<1>12. <<new>> \in Seq(Row) /\ Len(<<new>>) = 1 /\ <<new>>[1] = new
    <2>1. <<new>> \in Seq(Row)
        BY <1>4
    <2>2. Len(<<new>>) = 1 /\ <<new>>[1] = new
        OBVIOUS
    <2> QED BY <2>1, <2>2
<1>13. PICK mid : mid = base \o <<new>>
    OBVIOUS
<1>14. /\ mid \in Seq(Row) /\ Len(mid) = Len(rows) + 1
       /\ \A j \in 1 .. Len(rows) : mid[j] = base[j]
       /\ mid[Len(rows) + 1] = new
    <2>1. PICK one \in Seq(Row) : one = <<new>> /\ Len(one) = 1 /\ one[1] = new
        BY <1>12
    <2>2. mid = base \o one
        BY <1>13, <2>1
    <2>3. /\ base \o one \in Seq(Row) /\ Len(base \o one) = Len(base) + Len(one)
          /\ \A j \in 1 .. Len(base) + Len(one) :
               (base \o one)[j] = IF j <= Len(base) THEN base[j] ELSE one[j - Len(base)]
        <3>1. base \in Seq(Row)
            BY <1>11
        <3> QED BY <3>1, ConcatProperties, Zenon
    <2>4. Len(rows) \in Nat
        BY <1>1, LenProperties
    <2>5. \A j \in 1 .. Len(rows) : mid[j] = base[j]
        BY <1>11, <2>1, <2>2, <2>3, <2>4
    <2>6. mid[Len(rows) + 1] = new
        BY <1>11, <2>1, <2>2, <2>3, <2>4
    <2> QED BY <1>11, <2>1, <2>2, <2>3, <2>5, <2>6
<1>15. /\ tail \in Seq(Row) /\ Len(tail) \in {0, 1} /\ (Len(tail) = 1 => tail[1] = rest)
       /\ Len(rows) + 1 + Len(tail) <= MaxRows
    <2>0. Len(rows) + (IF split THEN 2 ELSE 1) <= MaxRows
        BY <1>0, <1>7 DEF CorrectCommits
    <2>1. CASE split
        <3>1. tail = <<rest>>
            BY <1>8, <2>1
        <3>2. <<rest>> \in Seq(Row)
            BY <1>5
        <3>3. Len(<<rest>>) = 1 /\ <<rest>>[1] = rest
            OBVIOUS
        <3> QED BY <1>1, <1>2, <2>0, <2>1, <3>1, <3>2, <3>3
    <2>2. CASE ~split
        <3>1. tail = <<>>
            BY <1>8, <2>2
        <3>2. <<>> \in Seq(Row) /\ Len(<<>>) = 0
            OBVIOUS
        <3> QED BY <1>1, <1>2, <2>0, <2>2, <3>1, <3>2
    <2> QED BY <2>1, <2>2
<1>16. /\ rows' \in Seq(Row) /\ Len(rows') = Len(rows) + 1 + Len(tail)
       /\ \A j \in 1 .. Len(rows') :
            rows'[j] = IF j <= Len(rows) + 1 THEN mid[j] ELSE tail[j - (Len(rows) + 1)]
    <2>1. rows' = mid \o tail
        BY <1>9, <1>13
    <2>2. /\ mid \o tail \in Seq(Row) /\ Len(mid \o tail) = Len(mid) + Len(tail)
          /\ \A j \in 1 .. Len(mid) + Len(tail) :
               (mid \o tail)[j] = IF j <= Len(mid) THEN mid[j] ELSE tail[j - Len(mid)]
        BY <1>14, <1>15, ConcatProperties
    <2>3. PICK z : z = mid \o tail
        OBVIOUS
    <2> QED BY <1>14, <2>1, <2>2, <2>3
<1>17. DOMAIN rows' = 1 .. Len(rows')
    BY <1>16, LenProperties
<1>18. \A j \in DOMAIN rows : rows'[j] = IF j = i THEN old ELSE rows[j]
    BY <1>2, <1>11, <1>14, <1>15, <1>16, <1>17
<1>19. RowsGrow
    <2>1. DOMAIN rows \subseteq DOMAIN rows'
        BY <1>2, <1>15, <1>16, <1>17
    <2> QED BY <1>0, <1>1, <1>6, <1>18, <2>1 DEF RowsGrow, Live, Open
<1>20. ASSUME NEW j \in DOMAIN rows' \ DOMAIN rows
       PROVE  Inserted(j)
    <2>1. rows'[j] = new \/ rows'[j] = rest
        <3>0. Len(tail) \in Nat /\ Len(tail) <= 1
            <4>1. CASE Len(tail) = 0
                BY <4>1
            <4>2. CASE Len(tail) = 1
                BY <4>2
            <4> QED BY <1>15, <4>1, <4>2, Zenon
        <3>1. PICK n \in Nat, t \in Nat : n = Len(rows) /\ t = Len(tail) /\ t <= 1
            BY <1>2, <3>0, Zenon
        <3>2. j \in (n + 1) .. (n + 1 + t)
            BY <1>2, <1>16, <1>17, <3>1
        <3>3. CASE j = n + 1
            BY <1>14, <1>16, <3>1, <3>3
        <3>4. CASE j = n + 2
            <4>1. t = 1 /\ j - (Len(rows) + 1) = 1 /\ ~(j <= Len(rows) + 1)
                BY <3>1, <3>2, <3>4
            <4>2. rows'[j] = tail[j - (Len(rows) + 1)]
                BY <1>16, <1>17, <4>1
            <4> QED BY <1>15, <3>1, <4>1, <4>2
        <3>5. j = n + 1 \/ j = n + 2
            BY <3>1, <3>2
        <3> QED BY <3>3, <3>4, <3>5, Zenon
    <2>2. x.cites \cap LockedEpisodes = {}
        BY <1>0 DEF CorrectCommits, CitationLocks
    <2> QED BY <1>0, <1>1, <1>4, <1>5, <2>1, <2>2 DEF Inserted
<1>21. RowsTyped'
    BY <1>15, <1>16 DEF RowsTyped
<1> QED BY <1>19, <1>20, <1>21 DEF RowsStep

\* What is left of a row that is forgotten.
LEMMA Blanked ==
  ASSUME NEW x \in Row, NEW t \in 1 .. Inf
  PROVE  /\ LET y == [x EXCEPT !.state = "deleted", !.tto = t, !.cites = {}]
            IN  /\ y \in Row /\ y.prev = x.prev /\ y.src = x.src /\ y.cites = {}
                /\ y.tto = t /\ y.state = "deleted"
         /\ LET y == [x EXCEPT !.state = "deleted", !.cites = {}]
            IN  /\ y \in Row /\ y.prev = x.prev /\ y.src = x.src /\ y.cites = {}
                /\ y.tto = x.tto /\ y.state = "deleted"
BY DEF Row

LEMMA SameLength ==
  ASSUME rows \in Seq(Row), rows' \in [DOMAIN rows -> Row]
  PROVE  rows' \in Seq(Row) /\ Len(rows') = Len(rows) /\ DOMAIN rows' = DOMAIN rows
<1>1. Len(rows) \in Nat /\ DOMAIN rows = 1 .. Len(rows)
    BY Lengths
<1>2. rows' \in [1 .. Len(rows) -> Row]
    BY <1>1
<1>3. rows' \in Seq(Row)
    BY <1>1, <1>2, SeqDef
<1>4. DOMAIN rows' = 1 .. Len(rows') /\ Len(rows') \in Nat
    BY <1>3, LenProperties
<1> QED BY <1>1, <1>2, <1>3, <1>4

LEMMA ForgetCommitsRows ==
  ASSUME WritersInv, ForgetCommits
  PROVE  /\ RowsTyped' /\ RowsStep /\ DOMAIN rows' = DOMAIN rows
         /\ \A i \in DOMAIN rows : /\ i \in forget.units => ~Live(i)'
                                   /\ i \notin forget.units => rows'[i] = rows[i]
<1>0. rows \in Seq(Row) /\ Len(rows) <= MaxRows /\ now \in 1 .. Inf /\ now <= now
    BY TimesAreNat DEF WritersInv, Shapes
<1>1. \A i \in DOMAIN rows : rows[i] \in Row
    BY <1>0, Lengths
<1>2. PICK F : F = forget.units
    OBVIOUS
<1>3. rows' = [i \in DOMAIN rows |->
                IF i \in F /\ Live(i)
                THEN [rows[i] EXCEPT !.state = "deleted", !.tto = now, !.cites = {}]
                ELSE rows[i]]
    BY <1>2 DEF ForgetCommits
<1>4. ASSUME NEW i \in DOMAIN rows
      PROVE  /\ rows'[i] \in Row
             /\ \/ rows'[i] = rows[i] /\ ~(i \in F /\ Live(i))
                \/ /\ rows'[i].prev = rows[i].prev /\ rows'[i].src = rows[i].src
                   /\ rows'[i].cites = {} /\ rows'[i].tto = now /\ rows'[i].state = "deleted"
                   /\ i \in F
    <2>1. CASE i \in F /\ Live(i)
        <3>1. PICK x, t : x = rows[i] /\ t = now
            OBVIOUS
        <3>2. PICK y : y = [x EXCEPT !.state = "deleted", !.tto = t, !.cites = {}]
            OBVIOUS
        <3>0. x \in Row /\ t \in 1 .. Inf
            BY <1>0, <1>1, <3>1
        <3>3. /\ y \in Row /\ y.prev = x.prev /\ y.src = x.src /\ y.cites = {}
              /\ y.tto = t /\ y.state = "deleted"
            BY <3>0, <3>2, Blanked
        <3>4. rows'[i] = y
            BY <1>3, <2>1, <3>1, <3>2
        <3> QED BY <2>1, <3>1, <3>3, <3>4
    <2>2. CASE ~(i \in F /\ Live(i))
        <3>1. rows'[i] = rows[i]
            BY <1>3, <2>2
        <3> QED BY <1>1, <2>2, <3>1
    <2> QED BY <2>1, <2>2
<1>5. rows' \in [DOMAIN rows -> Row]
    <2>1. DOMAIN rows' = DOMAIN rows /\ rows' = [i \in DOMAIN rows |-> rows'[i]]
        BY <1>3
    <2> QED BY <1>4, <2>1
<1>6. rows' \in Seq(Row) /\ Len(rows') = Len(rows) /\ DOMAIN rows' = DOMAIN rows
    BY <1>0, <1>5, SameLength
<1>7. RowsTyped' /\ RowsStep
    BY <1>0, <1>4, <1>6 DEF RowsTyped, RowsStep, RowsGrow, Live
<1> QED BY <1>2, <1>4, <1>6, <1>7 DEF Live

LEMMA EraseRows ==
  ASSUME WritersInv, Erase
  PROVE  /\ RowsTyped' /\ RowsStep /\ DOMAIN rows' = DOMAIN rows
         /\ \A i \in DOMAIN rows : ~Live(i)'
<1>0. rows \in Seq(Row) /\ Len(rows) <= MaxRows /\ now \in 1 .. Inf
    BY TimesAreNat DEF WritersInv, Shapes
<1>1. \A i \in DOMAIN rows : rows[i] \in Row
    BY <1>0, Lengths
<1>2. rows' = [i \in DOMAIN rows |-> [rows[i] EXCEPT !.state = "deleted", !.cites = {}]]
    BY DEF Erase
<1>3. ASSUME NEW i \in DOMAIN rows
      PROVE  /\ rows'[i] \in Row /\ rows'[i].prev = rows[i].prev /\ rows'[i].src = rows[i].src
             /\ rows'[i].cites = {} /\ rows'[i].tto = rows[i].tto /\ rows'[i].state = "deleted"
    <2>1. PICK y : y = [rows[i] EXCEPT !.state = "deleted", !.cites = {}]
        OBVIOUS
    <2>2. /\ y \in Row /\ y.prev = rows[i].prev /\ y.src = rows[i].src /\ y.cites = {}
          /\ y.tto = rows[i].tto /\ y.state = "deleted"
        BY <1>0, <1>1, <2>1, Blanked
    <2>3. rows'[i] = y
        BY <1>2, <2>1
    <2> QED BY <2>2, <2>3
<1>4. rows' \in [DOMAIN rows -> Row]
    <2>1. DOMAIN rows' = DOMAIN rows /\ rows' = [i \in DOMAIN rows |-> rows'[i]]
        BY <1>2
    <2> QED BY <1>3, <2>1
<1>5. rows' \in Seq(Row) /\ Len(rows') = Len(rows) /\ DOMAIN rows' = DOMAIN rows
    BY <1>0, <1>4, SameLength
<1>6. RowsTyped' /\ RowsStep
    BY <1>0, <1>3, <1>5 DEF RowsTyped, RowsStep, RowsGrow, Live
<1> QED BY <1>3, <1>5, <1>6 DEF Live

---------------------------------------------------------------------------
(***************************************************************************)
(* The writers' part of the invariant, action by action.                   *)
(***************************************************************************)
LEMMA ForgetCoversStays ==
  ASSUME WritersInv, RowsStep, forget' = forget
  PROVE  ForgetCovers'
<1> SUFFICES ASSUME forget.on, forget.kind = "episode"
             PROVE  /\ forget.target \in Episodes
                    /\ \A i \in DOMAIN rows' :
                         Live(i)' /\ Carries(i, forget.target)' => i \in forget.units
    BY Zenon DEF ForgetCovers
<1>1. PICK e : e = forget.target
    OBVIOUS
<1>2. e \in Episodes /\ e \in LockedEpisodes
    BY <1>1 DEF WritersInv, ForgetCovers, LockedEpisodes
<1>3. ASSUME NEW i \in DOMAIN rows', Live(i)', Carries(i, e)'
      PROVE  i \in forget.units
    <2>1. i \in DOMAIN rows /\ Live(i) /\ Carries(i, e)
        BY <1>2, <1>3, LockKeepsOut
    <2> QED BY <1>1, <2>1 DEF WritersInv, ForgetCovers
<1>4. \A i \in DOMAIN rows' : Live(i)' /\ Carries(i, e)' => i \in forget.units
    BY <1>3
<1> QED BY <1>1, <1>2, <1>4 DEF Carries

LEMMA ClosedStays ==
  ASSUME WritersInv, RowsStep, now' \in Times, now <= now', RowsTyped'
  PROVE  ClosedIsPast'
<1> SUFFICES ASSUME NEW i \in DOMAIN rows', rows'[i].tto # Inf
             PROVE  rows'[i].tto <= now'
    BY DEF ClosedIsPast, Open
<1>1. rows'[i].tto \in Nat /\ now \in Nat /\ now' \in Nat
    <2>1. rows'[i] \in Row
        BY Lengths DEF RowsTyped
    <2>2. rows'[i].tto \in 1 .. Inf
        BY <2>1 DEF Row
    <2> QED BY <2>2, TimesAreNat DEF WritersInv, Shapes
<1>2. i \in DOMAIN rows
    BY DEF RowsStep, Inserted
<1>3. rows'[i].tto <= now
    BY <1>2 DEF RowsStep, RowsGrow, WritersInv, ClosedIsPast, Open
<1> QED BY <1>1, <1>3

LEMMA WritersKeep ==
  ASSUME WritersInv, RowsStep, raced \subseteq raced', raced' \subseteq DOMAIN rows',
         Shapes', now <= now', FixIsOpen', ForgetCovers',
         \A i \in DOMAIN rows', e \in Episodes :
           Live(i)' /\ Carries(i, e)' /\ episodes'[e] = "forgotten" => episodes[e] = "forgotten",
         subject' \/ \A r \in Readers : traces'[r] = {}
  PROVE  WritersInv'
<1>1. ClosedIsPast'
    BY ClosedStays DEF Shapes, RowsTyped
<1>2. CitesOwn'
    BY CitesOwnStays
<1>3. ASSUME NEW i \in DOMAIN rows', NEW e \in Episodes, Live(i)', Carries(i, e)',
             episodes'[e] = "forgotten"
      PROVE  i \in Derived(raced)'
    BY <1>3, SurvivorsStay
<1>4. SurvivesOnlyByRace'
    BY <1>3 DEF SurvivesOnlyByRace
<1> QED BY <1>1, <1>2, <1>4 DEF WritersInv

\* Steps that leave the rows alone.
LEMMA QuietStep ==
  ASSUME rows' = rows
  PROVE  RowsStep
BY DEF RowsStep, RowsGrow, Live

LEMMA CompileKeeps ==
  ASSUME WritersInv, NEW e \in Episodes, NEW derived, CompileCommits(e, derived)
  PROVE  WritersInv'
<1>1. RowsTyped' /\ RowsStep /\ raced \subseteq raced' /\ raced' \subseteq DOMAIN rows'
    BY CompileCommitsRows
<1>2. Idle \in Compiling
    BY TimesAreNat DEF Idle, Compiling
<1>3. Shapes'
    BY <1>1, <1>2 DEF CompileCommits, WritersInv, Shapes, RowsTyped
<1>4. FixIsOpen'
    <2> SUFFICES ASSUME fix.on
                 PROVE  FixIsOpen'
        BY DEF FixIsOpen, CompileCommits
    <2>1. fix.unit \in DOMAIN rows /\ rows \in Seq(Row)
        BY DEF WritersInv, FixIsOpen, Shapes
    <2>2. \A i \in DOMAIN rows : rows'[i] = rows[i]
        <3>1. Len(rows) \in Nat /\ DOMAIN rows = 1 .. Len(rows)
            BY <2>1, Lengths
        <3>2. CASE rows' = rows
            BY <3>2
        <3>3. CASE rows' = Append(rows, CompiledRow(e))
            BY <2>1, <3>1, <3>3
        <3> QED BY <3>2, <3>3 DEF CompileCommits
    <2>3. DOMAIN rows \subseteq DOMAIN rows'
        BY <1>1 DEF RowsStep, RowsGrow
    <2> QED BY <2>1, <2>2, <2>3 DEF WritersInv, FixIsOpen, CompileCommits, Live, Open
<1>5. ForgetCovers'
    BY <1>1, ForgetCoversStays DEF CompileCommits
<1>6. now <= now'
    BY TimesAreNat DEF WritersInv, Shapes, CompileCommits
<1> QED BY <1>1, <1>3, <1>4, <1>5, <1>6, WritersKeep DEF CompileCommits, WritersInv,
           SurvivesOnlyByRace

LEMMA CorrectKeeps ==
  ASSUME WritersInv, CorrectCommits
  PROVE  WritersInv'
<1>1. RowsTyped' /\ RowsStep
    BY CorrectCommitsRows
<1>2. /\ now' = now /\ subject' = subject /\ episodes' = episodes /\ compiles' = compiles
      /\ forget' = forget /\ raced' = raced /\ traces' = traces /\ fix' = NoFix
    BY DEF CorrectCommits
<1>3. Shapes'
    BY <1>1, <1>2 DEF WritersInv, Shapes, RowsTyped
<1>4. FixIsOpen'
    BY <1>2 DEF FixIsOpen, NoFix
<1>5. ForgetCovers'
    BY <1>1, <1>2, ForgetCoversStays
<1>6. now <= now'
    BY <1>2, TimesAreNat DEF WritersInv, Shapes
<1>7. raced' \subseteq DOMAIN rows'
    BY <1>1, <1>2 DEF RowsStep, RowsGrow, WritersInv
<1> QED BY <1>1, <1>2, <1>3, <1>4, <1>5, <1>6, <1>7, WritersKeep DEF WritersInv,
           SurvivesOnlyByRace

LEMMA ForgetKeeps ==
  ASSUME WritersInv, ForgetCommits
  PROVE  WritersInv'
<1>1. /\ RowsTyped' /\ RowsStep /\ DOMAIN rows' = DOMAIN rows
      /\ \A i \in DOMAIN rows : /\ i \in forget.units => ~Live(i)'
                                /\ i \notin forget.units => rows'[i] = rows[i]
    BY ForgetCommitsRows
<1>2. /\ now' = now /\ subject' = subject /\ compiles' = compiles /\ fix' = fix
      /\ raced' = raced /\ traces' = traces /\ forget' = NoForget
    BY DEF ForgetCommits
<1>3. Shapes'
    <2>1. episodes' \in [Episodes -> {"absent", "live", "forgotten"}]
        BY DEF ForgetCommits, WritersInv, Shapes
    <2> QED BY <1>1, <1>2, <2>1 DEF WritersInv, Shapes, RowsTyped
<1>4. FixIsOpen'
    BY <1>1, <1>2 DEF WritersInv, FixIsOpen, ForgetCommits, Live, Open
<1>5. ForgetCovers'
    BY <1>2 DEF ForgetCovers, NoForget
<1>6. now <= now' /\ raced' \subseteq DOMAIN rows'
    BY <1>1, <1>2, TimesAreNat DEF WritersInv, Shapes
<1>7. ASSUME NEW i \in DOMAIN rows', NEW e \in Episodes, Live(i)', Carries(i, e)',
             episodes'[e] = "forgotten"
      PROVE  episodes[e] = "forgotten"
    <2>1. rows'[i] = rows[i] /\ i \in DOMAIN rows /\ i \notin forget.units
        BY <1>1, <1>7
    <2>2. Live(i) /\ Carries(i, e)
        BY <1>7, <2>1 DEF Live, Carries
    <2>3. CASE forget.kind = "episode" /\ forget.target = e
        BY <2>1, <2>2, <2>3 DEF WritersInv, ForgetCovers, ForgetCommits
    <2>4. CASE ~(forget.kind = "episode" /\ forget.target = e)
        BY <1>7, <2>4 DEF ForgetCommits, WritersInv, Shapes
    <2> QED BY <2>3, <2>4
<1> QED BY <1>1, <1>2, <1>3, <1>4, <1>5, <1>6, <1>7, WritersKeep DEF WritersInv,
           SurvivesOnlyByRace

LEMMA EraseKeeps ==
  ASSUME WritersInv, Erase
  PROVE  WritersInv'
<1>1. /\ RowsTyped' /\ RowsStep /\ DOMAIN rows' = DOMAIN rows
      /\ \A i \in DOMAIN rows : ~Live(i)'
    BY EraseRows
<1>2. /\ now' = now /\ fix' = fix /\ forget' = forget /\ raced' = raced
      /\ ~fix.on /\ ~forget.on
    BY DEF Erase
<1>3. Idle \in Compiling
    BY TimesAreNat DEF Idle, Compiling
<1>4. Shapes'
    BY <1>1, <1>2, <1>3 DEF Erase, WritersInv, Shapes, RowsTyped
<1>5. FixIsOpen' /\ ForgetCovers'
    BY <1>2 DEF FixIsOpen, ForgetCovers
<1>6. now <= now' /\ raced' \subseteq DOMAIN rows'
    BY <1>1, <1>2, TimesAreNat DEF WritersInv, Shapes
<1>7. \A r \in Readers : traces'[r] = {}
    BY DEF Erase
<1> QED BY <1>1, <1>2, <1>4, <1>5, <1>6, <1>7, WritersKeep

LEMMA QuietKeeps ==
  ASSUME WritersInv, rows' = rows, raced' = raced, Shapes', now <= now', FixIsOpen',
         ForgetCovers',
         \A e \in Episodes : episodes'[e] = "forgotten" => episodes[e] = "forgotten",
         subject' \/ \A r \in Readers : traces'[r] = {}
  PROVE  WritersInv'
BY QuietStep, WritersKeep DEF WritersInv

\* Whatever carries an episode is among the units its forget marks.
LEMMA ForgetMarksAll ==
  ASSUME WritersInv, NEW e \in Episodes, NEW i \in DOMAIN rows, Live(i), Carries(i, e)
  PROVE  i \in Derived(OfEpisode(e))
<1>1. e \in rows[i].cites
    BY RecallBounds DEF WritersInv, CitesOwn, Carries
<1> QED BY <1>1 DEF WritersInv, CitesOwn

LEMMA WriteKeeps ==
  ASSUME WritersInv, Write
  PROVE  WritersInv'
<1>0. /\ Shapes /\ FixIsOpen /\ ForgetCovers /\ now \in Times /\ now \in Nat
      /\ subject \/ \A r \in Readers : traces[r] = {}
    BY TimesAreNat DEF WritersInv, Shapes, SurvivesOnlyByRace
<1>1. ASSUME rows' = rows, raced' = raced, fix' = fix, forget' = forget, traces' = traces,
             subject' = subject, Shapes', now <= now',
             \A e \in Episodes : episodes'[e] = "forgotten" => episodes[e] = "forgotten"
      PROVE  WritersInv'
    <2>1. FixIsOpen'
        BY <1>0, <1>1 DEF FixIsOpen, Live, Open, Shapes, Times
    <2>2. ForgetCovers'
        BY <1>0, <1>1 DEF ForgetCovers, Live, Carries
    <2> QED BY <1>0, <1>1, <2>1, <2>2, QuietKeeps
<1>2. CASE Tick
    <2>1. Shapes' /\ now <= now'
        BY <1>0, <1>2, RecallBounds DEF Tick, Shapes, Times, store, writers
    <2> QED BY <1>1, <1>2, <2>1 DEF Tick, store, writers
<1>3. ASSUME NEW e \in Episodes, Retain(e)
      PROVE  WritersInv'
    <2>1. episodes' = [episodes EXCEPT ![e] = "live"]
        BY <1>3 DEF Retain
    <2>2. Shapes' /\ now <= now'
        BY <1>0, <1>3, <2>1 DEF Retain, Shapes, writers
    <2>3. \A x \in Episodes : episodes'[x] = "forgotten" => episodes[x] = "forgotten"
        BY <1>0, <2>1 DEF Shapes
    <2> QED BY <1>1, <1>3, <2>2, <2>3 DEF Retain, writers
<1>4. ASSUME NEW e \in Episodes, Fetch(e) \/ Fail(e) \/ ReadTombstones(e)
      PROVE  WritersInv'
    <2>1. compiles' \in [Episodes -> Compiling]
        <3>1. ASSUME NEW x \in Compiling
              PROVE  [x EXCEPT !.at = "fetched"] \in Compiling
            BY DEF Compiling
        <3>2. CASE Fetch(e)
            <4>1. CASE compiles' = compiles
                BY <1>0, <4>1 DEF Shapes
            <4>2. CASE compiles' = [compiles EXCEPT ![e].at = "fetched"]
                <5>1. PICK y : y = [compiles[e] EXCEPT !.at = "fetched"]
                    OBVIOUS
                <5>2. y \in Compiling
                    BY <1>0, <3>1, <5>1 DEF Shapes
                <5>3. compiles' = [compiles EXCEPT ![e] = y]
                    BY <4>2, <5>1, Zenon
                <5> QED BY <1>0, <5>2, <5>3 DEF Shapes
            <4> QED BY <3>2, <4>1, <4>2 DEF Fetch
        <3>3. CASE Fail(e)
            <4>1. Idle \in Compiling
                BY TimesAreNat DEF Idle, Compiling
            <4> QED BY <1>0, <3>3, <4>1 DEF Fail, Shapes
        <3>4. CASE ReadTombstones(e)
            <4>1. PICK b \in BOOLEAN : b = (episodes[e] = "forgotten")
                OBVIOUS
            <4>2. PICK y : y = [at |-> "open", stamp |-> now, blocked |-> b]
                OBVIOUS
            <4>3. y \in Compiling
                BY <1>0, <4>2 DEF Compiling
            <4>4. compiles' = [compiles EXCEPT ![e] = y]
                BY <3>4, <4>1, <4>2, Zenon DEF ReadTombstones
            <4> QED BY <1>0, <4>3, <4>4 DEF Shapes
        <3> QED BY <1>4, <3>2, <3>3, <3>4
    <2>2. /\ now' = now /\ subject' = subject /\ episodes' = episodes /\ rows' = rows
          /\ fix' = fix /\ forget' = forget /\ raced' = raced /\ traces' = traces
        BY <1>4 DEF Fetch, Fail, ReadTombstones, store
    <2>3. Shapes' /\ now <= now'
        BY <1>0, <2>1, <2>2 DEF Shapes
    <2> QED BY <1>1, <2>2, <2>3
<1>5. ASSUME NEW i \in DOMAIN rows, Correct(i)
      PROVE  WritersInv'
    <2>1. /\ now' = now /\ subject' = subject /\ episodes' = episodes /\ rows' = rows
          /\ forget' = forget /\ raced' = raced /\ traces' = traces /\ compiles' = compiles
        BY <1>5 DEF Correct, store
    <2>2. Shapes' /\ now <= now'
        BY <1>0, <2>1 DEF Shapes
    <2>3. FixIsOpen'
        BY <1>0, <1>5, <2>1 DEF Correct, FixIsOpen, Live, Open
    <2>4. ForgetCovers'
        BY <1>0, <2>1 DEF ForgetCovers, Live, Carries
    <2> QED BY <1>0, <2>1, <2>2, <2>3, <2>4, QuietKeeps
<1>6. ASSUME NEW e \in Episodes, ForgetEpisode(e)
      PROVE  WritersInv'
    <2>1. /\ now' = now /\ subject' = subject /\ episodes' = episodes /\ rows' = rows
          /\ fix' = fix /\ raced' = raced /\ traces' = traces /\ compiles' = compiles
        BY <1>6 DEF ForgetEpisode, store
    <2>2. Shapes' /\ now <= now'
        BY <1>0, <2>1 DEF Shapes
    <2>3. FixIsOpen'
        BY <1>0, <2>1 DEF FixIsOpen, Live, Open
    <2>4. forget'.target = e /\ forget'.units = Derived(OfEpisode(e))
        BY <1>6 DEF ForgetEpisode
    <2>5. \A i \in DOMAIN rows : Live(i) /\ Carries(i, e) => i \in forget'.units
        BY <2>4, ForgetMarksAll
    <2>6. ForgetCovers'
        BY <2>1, <2>4, <2>5 DEF ForgetCovers, Live, Carries
    <2> QED BY <1>0, <2>1, <2>2, <2>3, <2>6, QuietKeeps
<1>7. ASSUME NEW i \in DOMAIN rows, ForgetUnit(i)
      PROVE  WritersInv'
    <2>1. /\ now' = now /\ subject' = subject /\ episodes' = episodes /\ rows' = rows
          /\ fix' = fix /\ raced' = raced /\ traces' = traces /\ compiles' = compiles
        BY <1>7 DEF ForgetUnit, store
    <2>2. Shapes' /\ now <= now'
        BY <1>0, <2>1 DEF Shapes
    <2>3. FixIsOpen'
        BY <1>0, <2>1 DEF FixIsOpen, Live, Open
    <2>4. forget'.kind = "unit"
        BY <1>7 DEF ForgetUnit
    <2>5. ForgetCovers'
        BY <2>4 DEF ForgetCovers
    <2> QED BY <1>0, <2>1, <2>2, <2>3, <2>5, QuietKeeps
<1>8. CASE Deadlock
    <2>1. /\ now' = now /\ subject' = subject /\ episodes' = episodes /\ rows' = rows
          /\ raced' = raced /\ traces' = traces /\ compiles' = compiles
        BY <1>8 DEF Deadlock, store
    <2>2. Shapes' /\ now <= now'
        BY <1>0, <2>1 DEF Shapes
    <2>3. FixIsOpen'
        BY <1>0, <1>8, <2>1 DEF Deadlock, FixIsOpen, Live, Open, NoFix
    <2>4. ForgetCovers'
        BY <1>0, <1>8, <2>1 DEF Deadlock, ForgetCovers, Live, Carries, NoForget
    <2> QED BY <1>0, <2>1, <2>2, <2>3, <2>4, QuietKeeps
<1> QED BY <1>2, <1>3, <1>4, <1>5, <1>6, <1>7, <1>8, CompileKeeps, CorrectKeeps, ForgetKeeps,
           EraseKeeps DEF Write

LEMMA ReadKeepsWriters ==
  ASSUME WritersInv, NEW r \in Readers, Read(r)
  PROVE  WritersInv'
<1>0. /\ Shapes /\ FixIsOpen /\ ForgetCovers /\ now \in Nat
      /\ subject \/ \A x \in Readers : traces[x] = {}
    BY TimesAreNat DEF WritersInv, Shapes, SurvivesOnlyByRace
<1>1. Stays /\ (\/ traces' = traces
               \/ \E T \in SUBSET {"recalled", "degraded"} :
                    subject /\ traces' = [traces EXCEPT ![r] = T])
    BY DEF Read, Begin, Gather, FetchCandidates, PackItems, CheckUnits, CheckCitations,
           CheckSources, StoreTrace, CountPending, ReadEpisodes, LoadTrace, StoreDegraded, Storable
<1>2. /\ now' = now /\ subject' = subject /\ episodes' = episodes /\ rows' = rows
      /\ fix' = fix /\ forget' = forget /\ raced' = raced /\ compiles' = compiles
    BY <1>1 DEF Stays, store, writers
<1>3. Shapes' /\ now <= now'
    <2>1. PICK V : V = SUBSET {"recalled", "degraded"}
        OBVIOUS
    <2>2. traces \in [Readers -> V]
        BY <1>0, <2>1 DEF Shapes
    <2>3. traces' = traces \/ \E T \in V : traces' = [traces EXCEPT ![r] = T]
        BY <1>1, <2>1
    <2>4. traces' \in [Readers -> V]
        BY <2>2, <2>3
    <2> QED BY <1>0, <1>2, <2>1, <2>4 DEF Shapes
<1>4. FixIsOpen' /\ ForgetCovers'
    BY <1>0, <1>2 DEF FixIsOpen, ForgetCovers, Live, Open, Carries
<1>5. subject' \/ \A x \in Readers : traces'[x] = {}
    BY <1>0, <1>1, <1>2
<1> QED BY <1>2, <1>3, <1>4, <1>5, QuietKeeps

---------------------------------------------------------------------------
(***************************************************************************)
(* The readers' part.                                                      *)
(***************************************************************************)
LEMMA ReadStays ==
  ASSUME WritersInv, RowsStep, NEW q, ReadOk(q)
  PROVE  ReadOk(q)'
<1>0. q \in Reading /\ RowsGrow
    BY DEF ReadOk, RowsStep
<1>1. q.asof \in Nat /\ q.asof < Inf
    BY <1>0, TimesAreNat DEF Reading
<1>2. q.pool \cup q.items \cup q.closed \cup q.gone \subseteq DOMAIN rows'
    BY <1>0 DEF ReadOk, RowsGrow
<1>3. \A i \in q.gone : ~Live(i)'
    BY <1>0 DEF ReadOk, RowsGrow
<1>4. ASSUME ~q.pinned, NEW i \in q.closed, Live(i)'
      PROVE  rows'[i].tto <= q.asof
    <2>1. i \in DOMAIN rows /\ Live(i) /\ rows[i].tto <= q.asof
        BY <1>0, <1>4 DEF ReadOk, RowsGrow
    <2>2. ~Open(i)
        BY <1>1, <2>1, TimesAreNat DEF Open
    <2> QED BY <1>0, <1>4, <2>1, <2>2 DEF RowsGrow
<1>5. Direct(q.items)' = Direct(q.items)
    BY <1>0 DEF Direct, ReadOk, RowsGrow
<1> QED BY <1>0, <1>2, <1>3, <1>4, <1>5 DEF ReadOk

\* A recall that ends forgets its state.
LEMMA EndedIsOk ==
  ASSUME NEW p \in {"done", "failed"}
  PROVE  ReadOk([NoRead EXCEPT !.pc = p])
<1>1. PICK q : q = [NoRead EXCEPT !.pc = p]
    OBVIOUS
<1>2. q = [pc |-> p, deep |-> FALSE, pinned |-> FALSE, asof |-> 1, valid |-> 1,
           supported |-> FALSE, pool |-> {}, items |-> {}, cited |-> {}, raw |-> {},
           closed |-> {}, gone |-> {}, owed |-> {}]
    BY <1>1 DEF NoRead
<1>3. q \in Reading
    BY <1>2, TimesAreNat DEF Reading, Stages
<1>4. q.pc = p /\ q.pool = {} /\ q.items = {} /\ q.closed = {} /\ q.gone = {}
    BY <1>2
<1>5. ReadOk(q)
    BY <1>3, <1>4 DEF ReadOk, Checked
<1> QED BY <1>1, <1>5

LEMMA GoesOk ==
  ASSUME ReadersInv, WritersInv, rows' = rows, NEW r \in Readers, NEW new, Goes(r, new),
         new.pc \in {"done", "failed"} \/ ReadOk(new)
  PROVE  ReadersInv'
<1>1. PICK q : q = IF new.pc \in {"done", "failed"} THEN [NoRead EXCEPT !.pc = new.pc] ELSE new
    OBVIOUS
<1>2. ReadOk(q)
    <2>1. CASE new.pc \in {"done", "failed"}
        BY <1>1, <2>1, EndedIsOk
    <2>2. CASE new.pc \notin {"done", "failed"}
        BY <1>1, <2>2
    <2> QED BY <2>1, <2>2
<1>3. reads' = [reads EXCEPT ![r] = q]
    BY <1>1, Zenon DEF Goes
<1>4. reads' \in [Readers -> Reading]
    BY <1>2, <1>3 DEF ReadersInv, ReadOk
<1>5. ASSUME NEW x \in Readers
      PROVE  ReadOk(reads[x])'
    <2>1. PICK y : y = reads'[x]
        OBVIOUS
    <2>2. ReadOk(y)
        BY <1>2, <1>3, <2>1 DEF ReadersInv
    <2>3. ReadOk(y)'
        BY <2>2, QuietStep, ReadStays
    <2> QED BY <2>1, <2>3
<1> QED BY <1>4, <1>5 DEF ReadersInv

LEMMA WritersKeepReaders ==
  ASSUME ReadersInv, WritersInv, RowsStep, reads' = reads
  PROVE  ReadersInv'
<1>1. ASSUME NEW x \in Readers
      PROVE  ReadOk(reads[x])'
    <2>1. PICK y : y = reads[x]
        OBVIOUS
    <2>2. ReadOk(y)'
        BY <2>1, ReadStays DEF ReadersInv
    <2> QED BY <2>1, <2>2
<1> QED BY <1>1 DEF ReadersInv

LEMMA BeginOk ==
  ASSUME RecallInv, NEW r \in Readers, NEW deep \in BOOLEAN, NEW asof \in Times,
         NEW valid \in Times, Begin(r, deep, asof, valid)
  PROVE  ReadersInv'
<1>0. WritersInv /\ ReadersInv /\ ClosedIsPast /\ rows' = rows
    BY DEF RecallInv, WritersInv, Begin, Stays, store
<1>1. PICK p, pin, C, G, O :
        /\ p = (IF deep THEN "snapshot" ELSE "candidates") /\ pin = (asof # now \/ valid # now)
        /\ C = {i \in DOMAIN rows : ~Open(i)} /\ G = {i \in DOMAIN rows : ~Live(i)}
        /\ O = {e \in Matching : Outstanding(e)}
    OBVIOUS
<1>2. PICK new : new = [NoRead EXCEPT !.pc = p, !.deep = deep, !.pinned = pin, !.asof = asof,
                                      !.valid = valid, !.closed = C, !.gone = G, !.owed = O]
    OBVIOUS
<1>3. Goes(r, new)
    BY <1>1, <1>2, Zenon DEF Begin
<1>4. new = [pc |-> p, deep |-> deep, pinned |-> pin, asof |-> asof, valid |-> valid,
             supported |-> FALSE, pool |-> {}, items |-> {}, cited |-> {}, raw |-> {},
             closed |-> C, gone |-> G, owed |-> O]
    BY <1>2 DEF NoRead
<1>5. p \in Stages /\ pin \in BOOLEAN /\ p \notin Checked /\ p \notin {"degraded", "retrace"}
    BY <1>1 DEF Stages, Checked
<1>6. C \in SUBSET Rows /\ G \in SUBSET Rows /\ O \in SUBSET Matching
    <2>1. DOMAIN rows \subseteq Rows
        BY <1>0, Lengths, RecallBounds DEF WritersInv, Shapes, Rows
    <2> QED BY <1>1, <2>1
<1>7. new \in Reading
    BY <1>4, <1>5, <1>6 DEF Reading
<1>8. /\ new.pc = p /\ new.pinned = pin /\ new.asof = asof /\ new.pool = {} /\ new.items = {}
      /\ new.closed = C /\ new.gone = G
    BY <1>4
<1>9. ReadOk(new)
    <2>1. ASSUME ~pin, NEW i \in C
          PROVE  rows[i].tto <= asof
        BY <1>0, <1>1, <2>1 DEF ClosedIsPast
    <2>2. \A i \in G : ~Live(i)
        BY <1>1
    <2>3. C \subseteq DOMAIN rows /\ G \subseteq DOMAIN rows
        BY <1>1
    <2> QED BY <1>5, <1>7, <1>8, <2>1, <2>2, <2>3 DEF ReadOk
<1> QED BY <1>0, <1>3, <1>9, GoesOk

SameFields(q, new) ==
  /\ new.deep = q.deep /\ new.pinned = q.pinned /\ new.asof = q.asof /\ new.valid = q.valid
  /\ new.closed = q.closed /\ new.owed = q.owed

\* A step that reads nothing of the rows.
LEMMA Moves ==
  ASSUME NEW q, ReadOk(q), NEW new \in Reading, SameFields(q, new),
         new.pool = q.pool, new.items = q.items, new.gone = q.gone,
         new.pc \in Checked => q.pc \in Checked,
         new.pc \in {"degraded", "retrace"} => new.raw # {}
  PROVE  ReadOk(new)
BY DEF ReadOk, SameFields

LEMMA SetPc ==
  ASSUME NEW q \in Reading, NEW p \in Stages, NEW new, new = [q EXCEPT !.pc = p]
  PROVE  /\ new \in Reading /\ new.pc = p /\ SameFields(q, new)
         /\ new.pool = q.pool /\ new.items = q.items /\ new.gone = q.gone /\ new.raw = q.raw
BY DEF Reading, SameFields

\* What was closed before the recall began is not recallable to it.
LEMMA ClosedIsNotRecalled ==
  ASSUME WritersInv, NEW q, ReadOk(q), ~q.pinned, NEW i \in q.closed
  PROVE  ~Recallable(i, q)
<1>1. i \in DOMAIN rows /\ q.asof \in Nat
    BY TimesAreNat DEF ReadOk, Reading
<1>2. rows[i] \in Row
    BY <1>1, Lengths DEF WritersInv, Shapes
<1>3. rows[i].tto \in Nat
    BY <1>2, TimesAreNat DEF Row
<1> QED BY <1>1, <1>3 DEF ReadOk, Recallable

LEMMA GatherOk ==
  ASSUME RecallInv, NEW r \in Readers, Gather(r)
  PROVE  ReadersInv'
<1>0. WritersInv /\ ReadersInv /\ rows' = rows
    BY DEF RecallInv, Gather, Stays, store
<1>1. PICK q : q = reads[r]
    OBVIOUS
<1>2. q \in Reading /\ ReadOk(q) /\ q.pc = "snapshot"
    BY <1>0, <1>1 DEF ReadersInv, Gather
<1>3. ASSUME NEW new, Goes(r, new), new = [q EXCEPT !.pc = "failed"]
      PROVE  ReadersInv'
    <2>1. new.pc = "failed"
        BY <1>2, <1>3 DEF Reading
    <2> QED BY <1>0, <1>3, <2>1, GoesOk
<1>4. ASSUME NEW P, P \subseteq SnapshotUnits(q), NEW v \in BOOLEAN, NEW new, Goes(r, new),
             new = [q EXCEPT !.pc = "candidates", !.supported = v, !.pool = P]
      PROVE  ReadersInv'
    <2>1. P \subseteq DOMAIN rows /\ \A i \in P : Recallable(i, q)
        BY <1>4 DEF SnapshotUnits
    <2>2. DOMAIN rows \subseteq Rows
        BY <1>0, Lengths, RecallBounds DEF WritersInv, Shapes, Rows
    <2>3. /\ new \in Reading /\ new.pc = "candidates" /\ SameFields(q, new) /\ new.pool = P
          /\ new.items = q.items /\ new.gone = q.gone
        BY <1>2, <1>4, <2>1, <2>2 DEF Reading, SameFields, Stages
    <2>4. ~q.pinned => P \cap q.closed = {}
        BY <1>0, <1>2, <2>1, ClosedIsNotRecalled
    <2>5. ReadOk(new)
        BY <1>2, <2>1, <2>3, <2>4 DEF ReadOk, SameFields, Checked
    <2> QED BY <1>0, <1>4, <2>5, GoesOk
<1>5. CASE Goes(r, [q EXCEPT !.pc = "failed"])
    <2>1. PICK new : new = [q EXCEPT !.pc = "failed"]
        OBVIOUS
    <2> QED BY <1>3, <1>5, <2>1
<1>6. CASE \E S, v : /\ v \in BOOLEAN
                     /\ Goes(r, [q EXCEPT !.pc = "candidates", !.supported = v,
                                   !.pool = {i \in SnapshotUnits(q) : rows[i].src \in S}])
    <2>1. PICK S, v : /\ v \in BOOLEAN
                      /\ Goes(r, [q EXCEPT !.pc = "candidates", !.supported = v,
                                    !.pool = {i \in SnapshotUnits(q) : rows[i].src \in S}])
        BY <1>6
    <2>2. PICK P : P = {i \in SnapshotUnits(q) : rows[i].src \in S}
        OBVIOUS
    <2>3. PICK new : new = [q EXCEPT !.pc = "candidates", !.supported = v, !.pool = P]
        OBVIOUS
    <2>4. Goes(r, new) /\ P \subseteq SnapshotUnits(q)
        BY <2>1, <2>2, <2>3
    <2> QED BY <1>4, <2>1, <2>3, <2>4
<1> QED BY <1>1, <1>5, <1>6, Zenon DEF Gather

LEMMA CandidatesOk ==
  ASSUME RecallInv, NEW r \in Readers, FetchCandidates(r)
  PROVE  ReadersInv'
<1>0. WritersInv /\ ReadersInv /\ rows' = rows
    BY DEF RecallInv, FetchCandidates, Stays, store
<1>1. PICK q : q = reads[r]
    OBVIOUS
<1>2. q \in Reading /\ ReadOk(q)
    BY <1>0, <1>1 DEF ReadersInv
<1>3. PICK P : P = q.pool \cup {i \in DOMAIN rows : Recallable(i, q)}
    OBVIOUS
<1>4. PICK new : new = [q EXCEPT !.pc = "vector", !.pool = P]
    OBVIOUS
<1>5. Goes(r, new)
    BY <1>1, <1>3, <1>4, Zenon DEF FetchCandidates
<1>6. P \subseteq DOMAIN rows /\ DOMAIN rows \subseteq Rows
    BY <1>0, <1>2, <1>3, Lengths, RecallBounds DEF ReadOk, WritersInv, Shapes, Rows
<1>7. /\ new \in Reading /\ new.pc = "vector" /\ SameFields(q, new) /\ new.pool = P
      /\ new.items = q.items /\ new.gone = q.gone
    BY <1>2, <1>4, <1>6 DEF Reading, SameFields, Stages
<1>8. ~q.pinned => P \cap q.closed = {}
    BY <1>0, <1>2, <1>3, ClosedIsNotRecalled DEF ReadOk
<1>9. ReadOk(new)
    BY <1>2, <1>6, <1>7, <1>8 DEF ReadOk, SameFields, Checked
<1> QED BY <1>0, <1>5, <1>9, GoesOk

LEMMA PackOk ==
  ASSUME RecallInv, NEW r \in Readers, PackItems(r)
  PROVE  ReadersInv'
<1>0. WritersInv /\ ReadersInv /\ rows' = rows
    BY DEF RecallInv, PackItems, Stays, store
<1>1. PICK q : q = reads[r]
    OBVIOUS
<1>2. q \in Reading /\ ReadOk(q)
    BY <1>0, <1>1 DEF ReadersInv
<1>3. PICK b, S : /\ S \subseteq q.pool \cup VectorUnits(q, b)
                  /\ Goes(r, [q EXCEPT !.pc = "units", !.pool = {}, !.items = S])
    BY <1>1 DEF PackItems
<1>4. PICK new : new = [q EXCEPT !.pc = "units", !.pool = {}, !.items = S]
    OBVIOUS
<1>5. Goes(r, new)
    BY <1>3, <1>4
<1>6. S \subseteq DOMAIN rows /\ DOMAIN rows \subseteq Rows
    BY <1>0, <1>2, <1>3, Lengths, RecallBounds DEF ReadOk, WritersInv, Shapes, Rows, VectorUnits
<1>7. /\ new \in Reading /\ new.pc = "units" /\ SameFields(q, new) /\ new.pool = {}
      /\ new.items = S /\ new.gone = q.gone
    BY <1>2, <1>4, <1>6 DEF Reading, SameFields, Stages
<1>8. ~q.pinned => S \cap q.closed = {}
    BY <1>0, <1>2, <1>3, ClosedIsNotRecalled DEF ReadOk, VectorUnits
<1>9. ReadOk(new)
    BY <1>2, <1>6, <1>7, <1>8 DEF ReadOk, SameFields, Checked
<1> QED BY <1>0, <1>5, <1>9, GoesOk

LEMMA CheckUnitsOk ==
  ASSUME RecallInv, NEW r \in Readers, CheckUnits(r)
  PROVE  ReadersInv'
<1>0. WritersInv /\ ReadersInv /\ rows' = rows
    BY DEF RecallInv, CheckUnits, Stays, store
<1>1. PICK q : q = reads[r]
    OBVIOUS
<1>2. q \in Reading /\ ReadOk(q)
    BY <1>0, <1>1 DEF ReadersInv
<1>3. PICK p, G : /\ p = (IF \A i \in Direct(q.items) : Recallable(i, q)
                          THEN "citations" ELSE "failed")
                  /\ G = q.gone \cup {i \in DOMAIN rows : ~Live(i)}
    OBVIOUS
<1>4. PICK new : new = [q EXCEPT !.pc = p, !.gone = G]
    OBVIOUS
<1>5. Goes(r, new)
    BY <1>1, <1>3, <1>4, Zenon DEF CheckUnits
<1>6. G \subseteq DOMAIN rows /\ DOMAIN rows \subseteq Rows
    BY <1>0, <1>2, <1>3, Lengths, RecallBounds DEF ReadOk, WritersInv, Shapes, Rows
<1>7. p \in Stages
    BY <1>3 DEF Stages
<1>8. /\ new \in Reading /\ new.pc = p /\ SameFields(q, new) /\ new.pool = q.pool
      /\ new.items = q.items /\ new.gone = G
    BY <1>2, <1>4, <1>6, <1>7 DEF Reading, SameFields
<1>9. CASE p = "failed"
    BY <1>0, <1>5, <1>8, <1>9, GoesOk
<1>10. CASE p = "citations"
    <2>1. \A i \in Direct(q.items) : Live(i)
        BY <1>3, <1>10 DEF Recallable
    <2>2. \A i \in G : ~Live(i)
        BY <1>2, <1>3 DEF ReadOk
    <2>3. ReadOk(new)
        BY <1>2, <1>6, <1>8, <1>10, <2>1, <2>2 DEF ReadOk, SameFields
    <2> QED BY <1>0, <1>5, <2>3, GoesOk
<1> QED BY <1>3, <1>9, <1>10

LEMMA CheckCitationsOk ==
  ASSUME RecallInv, NEW r \in Readers, CheckCitations(r)
  PROVE  ReadersInv'
<1>0. WritersInv /\ ReadersInv /\ rows' = rows
    BY DEF RecallInv, CheckCitations, Stays, store
<1>1. PICK q : q = reads[r]
    OBVIOUS
<1>2. q \in Reading /\ ReadOk(q) /\ q.pc = "citations"
    BY <1>0, <1>1 DEF ReadersInv, CheckCitations
<1>3. PICK C : C = {i \in Direct(q.items) : rows[i].src \in rows[i].cites}
    OBVIOUS
<1>4. PICK new : new = [q EXCEPT !.pc = "sources", !.cited = C]
    OBVIOUS
<1>5. Goes(r, new)
    BY <1>1, <1>3, <1>4, Zenon DEF CheckCitations
<1>6. C \subseteq Rows
    BY <1>2, <1>3 DEF Direct, Reading
<1>7. /\ new \in Reading /\ new.pc = "sources" /\ SameFields(q, new) /\ new.pool = q.pool
      /\ new.items = q.items /\ new.gone = q.gone
    BY <1>2, <1>4, <1>6 DEF Reading, SameFields, Stages
<1>8. ReadOk(new)
    BY <1>2, <1>7, Moves DEF Checked
<1> QED BY <1>0, <1>5, <1>8, GoesOk

LEMMA GoesOn ==
  ASSUME RecallInv, NEW r \in Readers, rows' = rows, NEW p \in Stages,
         Goes(r, [reads[r] EXCEPT !.pc = p]),
         \/ p \in {"done", "failed"}
         \/ /\ reads[r].pc \in Checked
            /\ p \in {"degraded", "retrace"} => reads[r].raw # {}
  PROVE  ReadersInv'
<1>0. WritersInv /\ ReadersInv
    BY DEF RecallInv
<1>1. PICK q, new : q = reads[r] /\ new = [q EXCEPT !.pc = p]
    OBVIOUS
<1>2. q \in Reading /\ ReadOk(q) /\ Goes(r, new)
    BY <1>0, <1>1 DEF ReadersInv
<1>3. /\ new \in Reading /\ new.pc = p /\ SameFields(q, new) /\ new.pool = q.pool
      /\ new.items = q.items /\ new.gone = q.gone /\ new.raw = q.raw
    BY <1>1, <1>2, SetPc
<1>4. p \in {"done", "failed"} \/ ReadOk(new)
    BY <1>1, <1>2, <1>3, Moves
<1> QED BY <1>0, <1>2, <1>3, <1>4, GoesOk

LEMMA EpisodesOk ==
  ASSUME RecallInv, NEW r \in Readers, ReadEpisodes(r)
  PROVE  ReadersInv'
<1>0. WritersInv /\ ReadersInv /\ rows' = rows
    BY DEF RecallInv, ReadEpisodes, Stays, store
<1>1. PICK q, H : q = reads[r] /\ H = ScopeEpisodes \cap Matching
    OBVIOUS
<1>2. q \in Reading /\ ReadOk(q) /\ q.pc = "episodes"
    BY <1>0, <1>1 DEF ReadersInv, ReadEpisodes
<1>3. CASE H = {}
    <2>1. Goes(r, [reads[r] EXCEPT !.pc = "done"])
        BY <1>1, <1>3 DEF ReadEpisodes
    <2>2. "done" \in Stages
        BY DEF Stages
    <2> QED BY <1>0, <2>1, <2>2, GoesOn
<1>4. CASE H # {}
    <2>1. PICK S : /\ S \subseteq H /\ S # {}
                   /\ Goes(r, [q EXCEPT !.pc = "degraded", !.raw = S])
        BY <1>1, <1>4 DEF ReadEpisodes
    <2>2. PICK new : new = [q EXCEPT !.pc = "degraded", !.raw = S]
        OBVIOUS
    <2>3. Goes(r, new) /\ S \subseteq Episodes
        BY <1>1, <2>1, <2>2 DEF ScopeEpisodes
    <2>4. /\ new \in Reading /\ new.pc = "degraded" /\ SameFields(q, new) /\ new.pool = q.pool
          /\ new.items = q.items /\ new.gone = q.gone /\ new.raw = S
        BY <1>2, <2>2, <2>3 DEF Reading, SameFields, Stages
    <2>5. ReadOk(new)
        BY <1>2, <2>1, <2>4, Moves DEF Checked
    <2> QED BY <1>0, <2>3, <2>5, GoesOk
<1> QED BY <1>3, <1>4

LEMMA ReadKeepsReaders ==
  ASSUME RecallInv, NEW r \in Readers, Read(r)
  PROVE  ReadersInv'
<1>1. rows' = rows
    BY DEF Read, Begin, Gather, FetchCandidates, PackItems, CheckUnits, CheckCitations,
           CheckSources, StoreTrace, CountPending, ReadEpisodes, LoadTrace, StoreDegraded,
           Stays, store
<1>2. ASSUME CheckSources(r) \/ StoreTrace(r) \/ CountPending(r) \/ LoadTrace(r) \/ StoreDegraded(r)
      PROVE  ReadersInv'
    <2>1. PICK p \in {"trace", "pending", "episodes", "retrace", "done", "failed"} :
            /\ Goes(r, [reads[r] EXCEPT !.pc = p])
            /\ reads[r].pc \in Checked
            /\ p = "retrace" => reads[r].pc = "degraded"
        BY <1>2 DEF CheckSources, StoreTrace, CountPending, LoadTrace, StoreDegraded, Checked
    <2>2. p \in Stages
        BY DEF Stages
    <2>3. reads[r].pc = "degraded" => reads[r].raw # {}
        BY DEF RecallInv, ReadersInv, ReadOk
    <2> QED BY <1>1, <2>1, <2>2, <2>3, GoesOn
<1> QED BY <1>2, BeginOk, GatherOk, CandidatesOk, PackOk, CheckUnitsOk, CheckCitationsOk,
           EpisodesOk DEF Read

LEMMA WriteStep ==
  ASSUME WritersInv, Write
  PROVE  RowsStep /\ reads' = reads
<1>1. reads' = reads
    BY DEF Write, Tick, Retain, Fetch, Fail, ReadTombstones, ForgetEpisode, CompileCommits,
           Correct, ForgetUnit, CorrectCommits, ForgetCommits, Deadlock, Erase
<1>2. ASSUME NEW e \in Episodes,
             Retain(e) \/ Fetch(e) \/ Fail(e) \/ ReadTombstones(e) \/ ForgetEpisode(e)
      PROVE  RowsStep
    BY <1>2, QuietStep DEF Retain, Fetch, Fail, ReadTombstones, ForgetEpisode, store
<1>3. ASSUME NEW i \in DOMAIN rows, Correct(i) \/ ForgetUnit(i)
      PROVE  RowsStep
    BY <1>3, QuietStep DEF Correct, ForgetUnit, store
<1>4. ASSUME Tick \/ Deadlock
      PROVE  RowsStep
    BY <1>4, QuietStep DEF Tick, Deadlock, store
<1> QED BY <1>1, <1>2, <1>3, <1>4, CompileCommitsRows, CorrectCommitsRows, ForgetCommitsRows,
           EraseRows DEF Write

---------------------------------------------------------------------------
(***************************************************************************)
(* The theorems.                                                           *)
(***************************************************************************)
LEMMA InitInv == Init => RecallInv
<1> SUFFICES ASSUME Init PROVE RecallInv
    OBVIOUS
<1>1. rows \in Seq(Row) /\ Len(rows) = 0 /\ DOMAIN rows = {}
    <2>1. rows = <<>>
        BY DEF Init
    <2>2. <<>> \in Seq(Row) /\ Len(<<>>) = 0 /\ DOMAIN <<>> = {}
        OBVIOUS
    <2> QED BY <2>1, <2>2
<1>2. Shapes
    <2>1. Idle \in Compiling
        BY TimesAreNat DEF Idle, Compiling
    <2>2. now \in Times
        BY TimesAreNat DEF Init
    <2>3. traces \in [Readers -> SUBSET {"recalled", "degraded"}]
        BY DEF Init
    <2> QED BY <1>1, <2>1, <2>2, <2>3, RecallBounds DEF Init, Shapes
<1>3. FixIsOpen /\ ForgetCovers
    BY DEF Init, FixIsOpen, ForgetCovers, NoFix, NoForget
<1>4. WritersInv
    BY <1>1, <1>2, <1>3 DEF Init, WritersInv, ClosedIsPast, CitesOwn, SurvivesOnlyByRace
<1>5. ReadersInv
    <2>1. NoRead \in Reading
        BY TimesAreNat DEF NoRead, Reading, Stages
    <2>2. /\ NoRead.pc = "idle" /\ NoRead.pool = {} /\ NoRead.items = {} /\ NoRead.closed = {}
          /\ NoRead.gone = {}
        BY DEF NoRead
    <2>3. ReadOk(NoRead)
        BY <2>1, <2>2 DEF ReadOk, Checked
    <2> QED BY <2>1, <2>3 DEF Init, ReadersInv
<1> QED BY <1>4, <1>5 DEF RecallInv

LEMMA NextInv == RecallInv /\ [Next]_vars => RecallInv'
<1> SUFFICES ASSUME RecallInv, [Next]_vars PROVE RecallInv'
    OBVIOUS
<1>0. WritersInv /\ ReadersInv
    BY DEF RecallInv
<1>1. CASE Write
    BY <1>0, <1>1, WriteKeeps, WriteStep, WritersKeepReaders DEF RecallInv
<1>2. ASSUME NEW r \in Readers, Read(r)
      PROVE  RecallInv'
    BY <1>0, <1>2, ReadKeepsWriters, ReadKeepsReaders DEF RecallInv
<1>3. CASE UNCHANGED vars
    <2>1. /\ now' = now /\ subject' = subject /\ episodes' = episodes /\ rows' = rows
          /\ fix' = fix /\ forget' = forget /\ raced' = raced /\ compiles' = compiles
          /\ traces' = traces /\ reads' = reads
        BY <1>3 DEF vars, store, writers
    <2>2. Shapes' /\ now <= now' /\ FixIsOpen' /\ ForgetCovers'
        BY <1>0, <2>1, TimesAreNat DEF WritersInv, Shapes, FixIsOpen, ForgetCovers, Live, Open, Carries
    <2>3. WritersInv'
        BY <1>0, <2>1, <2>2, QuietKeeps DEF WritersInv, SurvivesOnlyByRace
    <2>4. ReadersInv'
        BY <1>0, <2>1, QuietStep, WritersKeepReaders
    <2> QED BY <2>3, <2>4 DEF RecallInv
<1> QED BY <1>1, <1>2, <1>3 DEF Next

LEMMA Invariance == Spec => []RecallInv
BY InitInv, NextInv, PTL DEF Spec

\* Forgetting an episode removes every unit made from it (stage_forget, and the locks of
\* the citations' foreign keys), but for what goes back to a compile that had read
\* forgotten_source before; and no trace outlives its subject (store_trace).
THEOREM OnlyRacesSurvive == Spec => []SurvivesOnlyByRace
<1>1. RecallInv => SurvivesOnlyByRace
    BY DEF RecallInv, WritersInv
<1> QED BY <1>1, Invariance, PTL

\* How a recall comes to its answer.
LEMMA Answers ==
  ASSUME RecallInv, [Next]_vars, NEW r \in Readers, Answered(r)
  PROVE  \/ StoreTrace(r) /\ ~FallsBack(reads[r])
         \/ CountPending(r) /\ Pending = {}
         \/ ReadEpisodes(r) /\ ScopeEpisodes \cap Matching = {}
         \/ StoreDegraded(r)
<1>0. reads \in [Readers -> Reading]
    BY DEF RecallInv, ReadersInv
<1>1. reads' # reads
    BY DEF Answered
<1>2. ~Write
    BY <1>1, WriteStep DEF RecallInv
<1>3. PICK x \in Readers : Read(x)
    BY <1>1, <1>2 DEF Next, vars
<1>4. ASSUME NEW new, Goes(x, new)
      PROVE  x = r /\ new.pc = "done"
    <2>1. x = r
        BY <1>0, <1>4 DEF Goes, Answered
    <2>2. PICK q : q = IF new.pc \in {"done", "failed"} THEN [NoRead EXCEPT !.pc = new.pc] ELSE new
        OBVIOUS
    <2>3. q.pc = new.pc
        BY <2>2 DEF NoRead
    <2>4. reads' = [reads EXCEPT ![x] = q]
        BY <1>4, <2>2, Zenon DEF Goes
    <2>5. reads'[r] = q
        BY <1>0, <2>1, <2>4
    <2> QED BY <2>1, <2>3, <2>5 DEF Answered
<1>5. PICK q : q = reads[x]
    OBVIOUS
<1>6. q \in Reading
    BY <1>0, <1>5
<1>7. ASSUME NEW p \in Stages, Goes(x, [q EXCEPT !.pc = p])
      PROVE  x = r /\ p = "done"
    <2>1. PICK new : new = [q EXCEPT !.pc = p]
        OBVIOUS
    <2>2. new.pc = p
        BY <1>6, <2>1, SetPc
    <2> QED BY <1>4, <1>7, <2>1, <2>2
<1>8. ASSUME NEW deep, NEW asof, NEW valid, Begin(x, deep, asof, valid)
      PROVE  FALSE
    <2>1. PICK new : /\ Goes(x, new)
                     /\ new = [NoRead EXCEPT
                                 !.pc = IF deep THEN "snapshot" ELSE "candidates", !.deep = deep,
                                 !.pinned = asof # now \/ valid # now, !.asof = asof, !.valid = valid,
                                 !.closed = {i \in DOMAIN rows : ~Open(i)},
                                 !.gone = {i \in DOMAIN rows : ~Live(i)},
                                 !.owed = {e \in Matching : Outstanding(e)}]
        BY <1>8, Zenon DEF Begin
    <2>2. new.pc \in {"snapshot", "candidates"}
        BY <2>1 DEF NoRead
    <2> QED BY <1>4, <2>1, <2>2
<1>9. ~Gather(x)
    <2>1. ASSUME NEW S, NEW v, NEW new, Goes(x, new),
                 new = [q EXCEPT !.pc = "candidates", !.supported = v, !.pool = S]
          PROVE  FALSE
        <3>1. new.pc = "candidates"
            BY <1>6, <2>1 DEF Reading
        <3> QED BY <1>4, <2>1, <3>1
    <2>2. ~Goes(x, [q EXCEPT !.pc = "failed"])
        BY <1>7 DEF Stages
    <2>3. ASSUME NEW S, NEW v, Goes(x, [q EXCEPT !.pc = "candidates", !.supported = v, !.pool = S])
          PROVE  FALSE
        BY <2>1, <2>3
    <2>4. ASSUME Gather(x)
          PROVE  \E S, v : Goes(x, [q EXCEPT !.pc = "candidates", !.supported = v, !.pool = S])
        BY <1>5, <2>2, <2>4, Zenon DEF Gather
    <2> QED BY <2>3, <2>4
<1>10. ~FetchCandidates(x)
    <2>1. ASSUME NEW S, NEW new, Goes(x, new), new = [q EXCEPT !.pc = "vector", !.pool = S]
          PROVE  FALSE
        <3>1. new.pc = "vector"
            BY <1>6, <2>1 DEF Reading
        <3> QED BY <1>4, <2>1, <3>1
    <2>2. ASSUME NEW S, Goes(x, [q EXCEPT !.pc = "vector", !.pool = S])
          PROVE  FALSE
        BY <2>1, <2>2
    <2>3. ASSUME FetchCandidates(x)
          PROVE  \E S : Goes(x, [q EXCEPT !.pc = "vector", !.pool = S])
        BY <1>5, <2>3, Zenon DEF FetchCandidates
    <2> QED BY <2>2, <2>3
<1>11. ~PackItems(x)
    <2>1. ASSUME NEW S, NEW new, Goes(x, new),
                 new = [q EXCEPT !.pc = "units", !.pool = {}, !.items = S]
          PROVE  FALSE
        <3>1. new.pc = "units"
            BY <1>6, <2>1 DEF Reading
        <3> QED BY <1>4, <2>1, <3>1
    <2>2. ASSUME NEW S, Goes(x, [q EXCEPT !.pc = "units", !.pool = {}, !.items = S])
          PROVE  FALSE
        BY <2>1, <2>2
    <2>3. ASSUME PackItems(x)
          PROVE  \E S : Goes(x, [q EXCEPT !.pc = "units", !.pool = {}, !.items = S])
        BY <1>5, <2>3, Zenon DEF PackItems
    <2> QED BY <2>2, <2>3
<1>12. ~CheckUnits(x)
    <2>1. ASSUME NEW p \in {"citations", "failed"}, NEW S, NEW new, Goes(x, new),
                 new = [q EXCEPT !.pc = p, !.gone = S]
          PROVE  FALSE
        <3>1. new.pc = p
            BY <1>6, <2>1 DEF Reading
        <3> QED BY <1>4, <2>1, <3>1
    <2>2. ASSUME NEW p \in {"citations", "failed"}, NEW S, Goes(x, [q EXCEPT !.pc = p, !.gone = S])
          PROVE  FALSE
        BY <2>1, <2>2
    <2>3. ASSUME CheckUnits(x)
          PROVE  \E p \in {"citations", "failed"} : \E S : Goes(x, [q EXCEPT !.pc = p, !.gone = S])
        <3>1. PICK p, S : /\ p = (IF \A i \in Direct(q.items) : Recallable(i, q)
                                  THEN "citations" ELSE "failed")
                          /\ S = q.gone \cup {i \in DOMAIN rows : ~Live(i)}
            OBVIOUS
        <3>2. Goes(x, [q EXCEPT !.pc = p, !.gone = S])
            BY <1>5, <2>3, <3>1, Zenon DEF CheckUnits
        <3> QED BY <3>1, <3>2
    <2> QED BY <2>2, <2>3
<1>13. ~CheckCitations(x)
    <2>1. ASSUME NEW S, NEW new, Goes(x, new), new = [q EXCEPT !.pc = "sources", !.cited = S]
          PROVE  FALSE
        <3>1. new.pc = "sources"
            BY <1>6, <2>1 DEF Reading
        <3> QED BY <1>4, <2>1, <3>1
    <2>2. ASSUME NEW S, Goes(x, [q EXCEPT !.pc = "sources", !.cited = S])
          PROVE  FALSE
        BY <2>1, <2>2
    <2>3. ASSUME CheckCitations(x)
          PROVE  \E S : Goes(x, [q EXCEPT !.pc = "sources", !.cited = S])
        BY <1>5, <2>3, Zenon DEF CheckCitations
    <2> QED BY <2>2, <2>3
<1>14. ~CheckSources(x) /\ ~LoadTrace(x)
    <2>1. ASSUME CheckSources(x) \/ LoadTrace(x)
          PROVE  \E p \in {"trace", "retrace", "failed"} : Goes(x, [q EXCEPT !.pc = p])
        BY <1>5, <2>1 DEF CheckSources, LoadTrace
    <2> QED BY <1>7, <2>1 DEF Stages
<1>15. StoreTrace(x) => x = r /\ ~FallsBack(reads[x])
    <2>1. ASSUME StoreTrace(x)
          PROVE  \E p \in {"pending", "done", "failed"} :
                   /\ Goes(x, [q EXCEPT !.pc = p])
                   /\ p = "done" => ~FallsBack(reads[x])
        BY <1>5, <2>1 DEF StoreTrace
    <2> QED BY <1>7, <2>1 DEF Stages
<1>16. CountPending(x) => x = r /\ Pending = {}
    <2>1. ASSUME CountPending(x)
          PROVE  \E p \in {"episodes", "done"} :
                   Goes(x, [q EXCEPT !.pc = p]) /\ (p = "done" => Pending = {})
        BY <1>5, <2>1 DEF CountPending
    <2> QED BY <1>7, <2>1 DEF Stages
<1>17. ReadEpisodes(x) => x = r /\ ScopeEpisodes \cap Matching = {}
    <2>1. ASSUME NEW S, NEW new, Goes(x, new), new = [q EXCEPT !.pc = "degraded", !.raw = S]
          PROVE  FALSE
        <3>1. new.pc = "degraded"
            BY <1>6, <2>1 DEF Reading
        <3> QED BY <1>4, <2>1, <3>1
    <2>2. ASSUME NEW S, Goes(x, [q EXCEPT !.pc = "degraded", !.raw = S])
          PROVE  FALSE
        BY <2>1, <2>2
    <2>3. ASSUME ReadEpisodes(x)
          PROVE  Goes(x, [q EXCEPT !.pc = "done"]) /\ ScopeEpisodes \cap Matching = {}
        <3>1. CASE ScopeEpisodes \cap Matching = {}
            BY <1>5, <2>3, <3>1 DEF ReadEpisodes
        <3>2. CASE ScopeEpisodes \cap Matching # {}
            <4>1. PICK S : Goes(x, [q EXCEPT !.pc = "degraded", !.raw = S])
                BY <1>5, <2>3, <3>2, Zenon DEF ReadEpisodes
            <4> QED BY <2>2, <4>1
        <3> QED BY <3>1, <3>2
    <2> QED BY <1>7, <2>3 DEF Stages
<1>18. StoreDegraded(x) => x = r
    <2>1. ASSUME StoreDegraded(x)
          PROVE  \E p \in {"done", "failed"} : Goes(x, [q EXCEPT !.pc = p])
        BY <1>5, <2>1 DEF StoreDegraded
    <2> QED BY <1>7, <2>1 DEF Stages
<1> QED BY <1>3, <1>8, <1>9, <1>10, <1>11, <1>12, <1>13, <1>14, <1>15, <1>16, <1>17, <1>18 DEF Read

\* An answer holds nothing that had been forgotten or corrected before the recall began,
\* nor a directly cited item that was forgotten before its citations were checked
\* (build_recall_citations), though no two of its reads share a snapshot.
THEOREM AnswersAreCurrent == Spec => AnswerIsCurrent
<1> DEFINE Current(r) == Answered(r) =>
             /\ ~reads[r].pinned => reads[r].items \cap reads[r].closed = {}
             /\ Direct(reads[r].items) \cap reads[r].gone = {}
<1>1. RecallInv /\ [Next]_vars => [\A r \in Readers : Current(r)]_vars
    <2> SUFFICES ASSUME RecallInv, [Next]_vars, NEW r \in Readers, Answered(r)
                 PROVE  /\ ~reads[r].pinned => reads[r].items \cap reads[r].closed = {}
                        /\ Direct(reads[r].items) \cap reads[r].gone = {}
        OBVIOUS
    <2>1. ReadOk(reads[r])
        BY DEF RecallInv, ReadersInv
    <2>2. reads[r].pc \in Checked
        BY Answers DEF StoreTrace, CountPending, ReadEpisodes, StoreDegraded, Checked
    <2> QED BY <2>1, <2>2 DEF ReadOk
<1>2. [][\A r \in Readers : Current(r)]_vars => AnswerIsCurrent
    BY PTL DEF AnswerIsCurrent
<1> QED BY <1>1, <1>2, Invariance, PTL DEF Spec

\* Read your own writes (recall_internal): a recall that ends empty owes nothing, although
\* the jobs and the episodes are counted after the units were read.
THEOREM OwedAreServed == Spec => OwedIsServed
<1> DEFINE Paid(r) == Answered(r) /\ Empty(r) => \A e \in reads[r].owed : ~Outstanding(e)
<1>1. RecallInv /\ [Next]_vars => [\A r \in Readers : Paid(r)]_vars
    <2> SUFFICES ASSUME RecallInv, [Next]_vars, NEW r \in Readers, Answered(r), Empty(r),
                        NEW e \in reads[r].owed
                 PROVE  ~Outstanding(e)
        OBVIOUS
    <2>1. ReadOk(reads[r]) /\ reads[r] \in Reading
        BY DEF RecallInv, ReadersInv
    <2>2. e \in Matching /\ e \in Episodes
        BY <2>1, RecallBounds DEF Reading
    <2>3. ~StoreDegraded(r)
        BY <2>1 DEF ReadOk, StoreDegraded, Empty
    <2>4. CASE CountPending(r) /\ Pending = {}
        BY <2>2, <2>4 DEF Pending, Outstanding
    <2>5. CASE ReadEpisodes(r) /\ ScopeEpisodes \cap Matching = {}
        BY <2>2, <2>5 DEF ScopeEpisodes, Outstanding
    <2> QED BY <2>3, <2>4, <2>5, Answers DEF Empty
<1>2. [][\A r \in Readers : Paid(r)]_vars => OwedIsServed
    BY PTL DEF OwedIsServed
<1> QED BY <1>1, <1>2, Invariance, PTL DEF Spec

-----------------------------------------------------------------------------
(***************************************************************************)
(* Each id once.                                                           *)
(***************************************************************************)

\* A set of naturals that is not empty has a least element.
LEMMA LeastOf ==
  ASSUME NEW T \in SUBSET Nat, T # {}
  PROVE  \E x \in T : \A y \in T : x <= y
<1>1. PICK x \in T : \A y \in T : ~(<<y, x>> \in OpToRel(<, Nat))
  BY WFMin, NatLessThanWellFounded, Zenon
<1>2. \A y \in T : ~(y < x)
  BY <1>1 DEF OpToRel
<1> QED BY <1>2

\* A bounded one has a greatest.
LEMMA GreatestOf ==
  ASSUME NEW n \in Nat, NEW T \in SUBSET (1..n), T # {}
  PROVE  \E x \in T : \A y \in T : y <= x
<1> DEFINE U == {m \in Nat : n - m \in T}
<1>1. PICK i \in T : TRUE
  OBVIOUS
<1>2. n - i \in U
  BY <1>1
<1>3. U \in SUBSET Nat /\ U # {}
  BY <1>2
<1> HIDE DEF U
<1>4. PICK m \in U : \A k \in U : m <= k
  BY <1>3, LeastOf
<1>5. m \in Nat /\ n - m \in T
  BY <1>4 DEF U
<1>6. ASSUME NEW y \in T
      PROVE  y <= n - m
  <2>1. n - y \in U
    BY DEF U
  <2> QED BY <2>1, <1>4, <1>5
<1> QED BY <1>5, <1>6

Below(T, i) == {j \in T : j < i}

\* In a bounded set of naturals there is an element for every number of smaller ones.
LEMMA RankExists ==
  ASSUME NEW n \in Nat, NEW T \in SUBSET (1..n), NEW k \in 1..Cardinality(T)
  PROVE  /\ IsFiniteSet(T) /\ Cardinality(T) \in Nat
         /\ \E i \in T : Cardinality(Below(T, i)) = k - 1
<1>0. T \in SUBSET Nat /\ \A t \in T : t <= n
  OBVIOUS
<1>1. IsFiniteSet(T) /\ Cardinality(T) \in Nat
  <2>1. IsFiniteSet(T)
    BY <1>0, FS_BoundedSetOfNaturals
  <2> QED BY <2>1, FS_CardinalityType
<1>2. \A i : Below(T, i) \in SUBSET T
  BY DEF Below
<1>3. \A i : IsFiniteSet(Below(T, i)) /\ Cardinality(Below(T, i)) \in Nat
  BY <1>1, <1>2, FS_Subset, FS_CardinalityType
<1> DEFINE High == {i \in T : k - 1 <= Cardinality(Below(T, i))}
<1>4. High \in SUBSET Nat
  BY <1>0
<1>5. High # {}
  <2>1. T # {}
    <3>1. Cardinality(T) # 0
      BY <1>1
    <3> QED BY <3>1, FS_EmptySet
  <2>2. PICK g \in T : \A y \in T : y <= g
    BY <2>1, GreatestOf, Zenon
  <2>3. Below(T, g) = T \ {g}
    <3>1. \A y \in T : y < g <=> y # g
      BY <2>2, <1>0
    <3> QED BY <3>1, Zenon DEF Below
  <2>4. Cardinality(Below(T, g)) = Cardinality(T) - 1
    BY <2>2, <2>3, <1>1, FS_RemoveElement
  <2> QED BY <2>2, <2>4, <1>1
<1>6. PICK i \in High : \A y \in High : i <= y
  BY <1>4, <1>5, LeastOf
<1>7. Cardinality(Below(T, i)) = k - 1
  <2>1. SUFFICES ASSUME k - 1 < Cardinality(Below(T, i))
                 PROVE  FALSE
    BY <1>6, <1>3
  <2>2. Below(T, i) # {}
    <3>1. Cardinality(Below(T, i)) # 0
      BY <2>1, <1>3
    <3> QED BY <3>1, FS_EmptySet
  <2>3. Below(T, i) \in SUBSET (1..n)
    BY <1>2
  <2>4. PICK p \in Below(T, i) : \A y \in Below(T, i) : y <= p
    BY <2>2, <2>3, GreatestOf, Zenon
  <2>5. p \in T /\ p < i /\ p \in Nat /\ i \in Nat
    BY <2>4, <1>6 DEF Below
  <2>6. Below(T, p) = Below(T, i) \ {p}
    <3>1. \A y \in T : y < p <=> y < i /\ y # p
      <4> TAKE y \in T
      <4>1. y < i => y <= p
        BY <2>4 DEF Below
      <4> QED BY <4>1, <2>5, <1>0
    <3> QED BY <3>1, Zenon DEF Below
  <2>7. Cardinality(Below(T, p)) = Cardinality(Below(T, i)) - 1
    BY <2>4, <2>6, <1>3, FS_RemoveElement
  <2>8. p \in High
    BY <2>1, <2>5, <2>7, <1>3
  <2> QED BY <2>5, <2>8, <1>6
<1> QED BY <1>1, <1>6, <1>7

\* No value twice.
Once(s) == \A i, j \in 1..Len(s) : s[i] = s[j] => i = j

\* Dedup names what the sequence names, each once.
LEMMA DedupIsOnce ==
  ASSUME NEW S, NEW s \in Seq(S)
  PROVE  /\ Dedup(s) \in Seq(S) /\ Once(Dedup(s))
         /\ s # <<>> => Dedup(s) # <<>>
<1> DEFINE T == FirstMentions(s)
           c == Cardinality(T)
<1>1. Len(s) \in Nat /\ T \in SUBSET (1..Len(s))
  BY DEF FirstMentions
<1>2. IsFiniteSet(T) /\ c \in Nat
  <2>1. T \in SUBSET Nat /\ \A t \in T : t <= Len(s)
    BY <1>1
  <2>2. IsFiniteSet(T)
    BY <1>1, <2>1, FS_BoundedSetOfNaturals
  <2> QED BY <2>2, FS_CardinalityType
<1>3. ASSUME NEW k \in 1..c
      PROVE  Mention(s, k) \in T /\ Cardinality(Below(T, Mention(s, k))) = k - 1
  <2> HIDE DEF T
  <2>0. \E i \in T : Cardinality(Below(T, i)) = k - 1
    BY <1>1, RankExists
  <2>1. \E i \in T : Cardinality({j \in T : j < i}) = k - 1
    BY <2>0, Zenon DEF Below
  <2>2. Mention(s, k) = CHOOSE i \in T : Cardinality({j \in T : j < i}) = k - 1
    BY DEF Mention, T
  <2> QED BY <2>1, <2>2, Zenon DEF Below
<1>4. Dedup(s) = [k \in 1..c |-> s[Mention(s, k)]]
  BY DEF Dedup
<1> HIDE DEF T
<1>5. ASSUME NEW k \in 1..c
      PROVE  s[Mention(s, k)] \in S
  <2>1. Mention(s, k) \in 1..Len(s)
    BY <1>1, <1>3, Zenon
  <2> QED BY <2>1
<1>6. Dedup(s) \in Seq(S) /\ Len(Dedup(s)) = c /\ \A k \in 1..c : Dedup(s)[k] = s[Mention(s, k)]
  BY <1>2, <1>4, <1>5
<1>7. Once(Dedup(s))
  <2> SUFFICES ASSUME NEW i \in 1..c, NEW j \in 1..c, s[Mention(s, i)] = s[Mention(s, j)]
               PROVE  i = j
    BY <1>6 DEF Once
  <2>1. Mention(s, i) \in T /\ Mention(s, j) \in T
    BY <1>3
  <2>2. \A a, b \in T : s[a] = s[b] => a = b
    <3> SUFFICES ASSUME NEW a \in T, NEW b \in T, s[a] = s[b], a < b
                 PROVE  FALSE
      BY <1>1
    <3>1. a \in 1..(b - 1)
      BY <1>1
    <3> QED BY <3>1 DEF T, FirstMentions
  <2>3. Mention(s, i) = Mention(s, j)
    BY <2>1, <2>2
  <2>4. i - 1 = j - 1
    BY <2>3, <1>3
  <2> QED BY <2>4, <1>2
<1>8. s # <<>> => c # 0
  <2> SUFFICES ASSUME s # <<>>
               PROVE  1 \in T
    BY <1>2, FS_EmptySet
  <2> QED BY DEF T, FirstMentions
<1> QED BY <1>6, <1>7, <1>8

\* A sequence without repetition has as many members as places.
LEMMA OnceCounts ==
  ASSUME NEW S, NEW s \in Seq(S), Once(s)
  PROVE  Cardinality(Range(s)) = Len(s)
<1>1. Len(s) \in Nat /\ DOMAIN s = 1..Len(s)
  OBVIOUS
<1>2. s \in Surjection(1..Len(s), Range(s))
  <2>1. s \in [1..Len(s) -> Range(s)]
    BY <1>1 DEF Range
  <2>2. \A t \in Range(s) : \E i \in 1..Len(s) : s[i] = t
    BY <1>1 DEF Range
  <2> QED BY <2>1, <2>2 DEF Surjection
<1>3. s \in Injection(1..Len(s), Range(s))
  BY <1>2 DEF Once, Injection, IsInjective, Surjection
<1>4. IsFiniteSet(1..Len(s)) /\ Cardinality(1..Len(s)) = Len(s)
  BY <1>1, FS_Interval
<1> QED BY <1>2, <1>3, <1>4, FS_Surjection

-----------------------------------------------------------------------------
(***************************************************************************)
(* The inductive invariant of the loop.                                    *)
(***************************************************************************)

Running == {"loop", "post", "sleep", "stream", "tools"}
Finish == [ids : Seq(Sources), status : STRING]
Tool == [tool : STRING, ids : Seq(Sources \cup {Unknown}), status : STRING]
Amount == [context : Nat, spend : Nat]
Usage == [context : Nat, spend : Nat, tools : Nat]
Reasons == {"completed", "wall_time", "tool_iterations", "context_tokens", "spend",
            "provider_error", "invalid_output"}

LoopType ==
  /\ clock \in Nat /\ size \in Nat /\ usage \in Usage /\ charge \in Amount /\ billed \in Amount
  /\ out \in [on : BOOLEAN, context : Nat, spend : Nat, id : GenIds \cup {NoId}]
  /\ ids \in Seq(GenIds) /\ Once(ids)

\* What the tools have recorded names sources of the manifest, each once.
NotesOk ==
  /\ notes \in [checkpoint : Seq(Sources), malformed : Nat, calls : Seq(Tool), finish : Seq(Finish)]
  /\ Once(notes.checkpoint)
  /\ notes.finish # <<>> => /\ Once(notes.finish[1].ids)
                            /\ notes.finish[1].status # "insufficient" => notes.finish[1].ids # <<>>

\* The settled usage and the reservation are within the caps, and what was
\* billed is between the settled usage and the two together.
Money ==
  /\ usage.tools <= MaxTools
  /\ usage.spend + out.spend <= MaxSpend /\ usage.context + out.context <= MaxContext
  /\ usage.spend <= billed.spend /\ billed.spend <= usage.spend + out.spend
  /\ usage.context <= billed.context /\ billed.context <= usage.context + out.context

Settled == billed.spend = usage.spend /\ billed.context = usage.context
Unsettled == /\ out.id # NoId
             /\ billed.spend = usage.spend + charge.spend
             /\ billed.context = usage.context + charge.context
Affordable == LET r == reservation_for(size)
              IN  usage.spend + r.spend <= MaxSpend /\ usage.context + r.context <= MaxContext

Phase ==
  /\ pc \in Running \cup {"settle", "measure", "check", "accepted", "failed", "over"}
  /\ pc \in {"loop", "post", "sleep", "tools"} => Settled
  /\ pc \in {"stream", "settle"} => Unsettled
  /\ pc \in {"loop", "sleep", "tools"} => out = NoRequest
  /\ pc = "post" => out = reservation_for(size)
  /\ pc \in {"post", "sleep"} => Affordable

\* The answer reports the settled usage and the reservation.
Sound ==
  /\ answer \in [status : {"completed", "capped", "partial"}, reason : Reasons, sources : Seq(Sources),
                 evidence : STRING \cup {"insufficient"}, usage : Usage, unsettled : Amount, ids : Seq(GenIds), time : Nat]
  /\ answer.reason \in StopReasons(answer.status)
  /\ answer.usage = usage /\ answer.ids = ids
  /\ answer.unsettled = [context |-> out.context, spend |-> out.spend]
  /\ Once(answer.sources)
  /\ answer.evidence # "insufficient" => answer.sources # <<>> /\ answer.status = "completed"

AnswerOk ==
  /\ pc \in Running \cup {"over"} => answer = NoAnswer
  /\ pc \in {"settle", "measure", "check", "accepted"} => Sound
  /\ pc = "failed" => \/ answer.status = "error" /\ billed = Nothing
                      \/ Sound /\ answer.time > Wall

\* A finish is not followed by a settlement: it is measured in time.
Timely ==
  /\ settleBy \in Nat /\ settleBy <= Wall
  /\ pc \in Running => clock <= LoopDeadline + 1
  /\ answer.status = "completed" =>
       /\ pc # "settle" /\ (pc = "measure" => clock <= Wall)
       /\ pc \in {"check", "accepted", "failed"} => answer.time <= Wall

GatherInv == LoopType /\ NotesOk /\ Money /\ Phase /\ AnswerOk /\ Timely

-----------------------------------------------------------------------------
(***************************************************************************)
(* Steps of the loop.                                                      *)
(***************************************************************************)

\* What the bounds say, one by one.
LEMMA Bounds ==
  /\ MaxSpend \in Nat /\ MaxContext \in Nat /\ MaxTools \in Nat /\ Wall \in Nat
  /\ Reserve \in Nat \ {0} /\ PromptSize \in Nat /\ Completion \in Nat
  /\ InPrice \in Nat /\ OutPrice \in Nat /\ PriceUnit \in Nat \ {0}
  /\ MalformedLimit \in Nat /\ Reserve <= Wall /\ BillSizes \subseteq Nat
  /\ LoopDeadline \in Nat /\ LoopDeadline + 1 <= Wall
  /\ NoId \notin GenIds /\ Unknown \notin Sources /\ Turns \subseteq Seq(Tool)
<1>1. Turns \subseteq Seq(Tool)
  BY DeepBounds, Zenon DEF DeepBounds, Tool
<1> QED BY <1>1, DeepBounds DEF DeepBounds, LoopDeadline

\* A price is rounded up to a natural number.
LEMMA MicrosType ==
  ASSUME NEW n \in Nat, NEW p \in Nat
  PROVE  reserve_micros(n, p) \in Nat
<1>1. n * p \in Nat
  OBVIOUS
<1>2. n * p + PriceUnit - 1 \in Nat
  BY <1>1, Bounds
<1> DEFINE a == n * p + PriceUnit - 1
<1> HIDE DEF a
<1>3. \A x \in Nat, d \in Nat \ {0} : x \div d \in Nat
  OBVIOUS
<1>4. a \in Nat
  BY <1>2 DEF a
<1> QED BY <1>3, <1>4, Bounds DEF reserve_micros, a

\* A reservation has no id, and room for the request.
LEMMA ReservationType ==
  ASSUME NEW n \in Nat
  PROVE  /\ reservation_for(n) \in [on : BOOLEAN, context : Nat, spend : Nat, id : GenIds \cup {NoId}]
         /\ reservation_for(n).id = NoId /\ n <= reservation_for(n).context
<1>1. reserve_micros(n, InPrice) \in Nat /\ reserve_micros(Completion, OutPrice) \in Nat
  BY MicrosType, Bounds
<1>2. reserve_micros(n, InPrice) + reserve_micros(Completion, OutPrice) \in Nat
  BY <1>1
<1> QED BY <1>2, Bounds DEF reservation_for

\* A bill is below the ceiling of its request.
LEMMA BillBounds ==
  ASSUME LoopType, NEW c \in Charges \cup {Nothing}
  PROVE  /\ c \in Amount /\ c.context <= size /\ c.spend <= out.spend
<1>1. size \in Nat /\ out.spend \in Nat
  BY DEF LoopType
<1>2. ASSUME NEW n \in Nat
      PROVE  \A b \in Upto(n) : b \in Nat /\ b <= n
  BY Bounds DEF Upto
<1>3. CASE c = Nothing
  BY <1>1, <1>3 DEF Nothing, Amount
<1>4. CASE c \in Charges
  <2>1. PICK a \in Upto(size), b \in Upto(out.spend) : c = [context |-> a, spend |-> b]
    BY <1>4 DEF Charges
  <2>2. a \in Nat /\ a <= size /\ b \in Nat /\ b <= out.spend
    BY <1>1, <1>2
  <2> QED BY <2>1, <2>2 DEF Amount
<1> QED BY <1>3, <1>4

\* A step that ends the loop leaves a sound answer.
LEMMA EndsKeeps ==
  ASSUME GatherInv, pc \in Running, NEW status, NEW STATE reason, NEW STATE finish,
         Ends(status, reason, finish),
         LoopType', NotesOk', Money', clock' = clock,
         status \in {"completed", "capped", "partial"}, reason \in Reasons,
         reason \in StopReasons(status),
         finish = <<>> \/ (finish = notes.finish /\ finish # <<>> /\ status = "completed"),
         status = "completed" => out'.id = NoId,
         out'.id # NoId => Unsettled'
  PROVE  GatherInv'
<1> DEFINE sources == IF finish = <<>> THEN notes'.checkpoint ELSE finish[1].ids
           evidence == IF finish = <<>> THEN "insufficient" ELSE finish[1].status
<1>1. answer' = [status |-> status, reason |-> reason, sources |-> sources, evidence |-> evidence,
                 usage |-> usage', unsettled |-> [context |-> out'.context, spend |-> out'.spend],
                 ids |-> ids', time |-> 0]
  BY DEF Ends, result
<1>2. /\ sources \in Seq(Sources) /\ Once(sources) /\ evidence \in STRING \cup {"insufficient"}
      /\ evidence # "insufficient" => sources # <<>> /\ status = "completed"
  <2>1. CASE finish = <<>>
    <3>1. notes'.checkpoint \in Seq(Sources)
      BY DEF NotesOk
    <3>2. Once(notes'.checkpoint)
      BY DEF NotesOk
    <3>3. sources = notes'.checkpoint /\ evidence = "insufficient"
      BY <2>1
    <3> HIDE DEF sources, evidence
    <3>4. sources \in Seq(Sources) /\ Once(sources)
      BY <3>1, <3>2, <3>3, Zenon
    <3>5. evidence \in STRING \cup {"insufficient"}
      BY <3>3
    <3> QED BY <3>3, <3>4, <3>5, Zenon
  <2>2. CASE finish # <<>>
    <3>1. finish = notes.finish /\ status = "completed"
      BY <2>2
    <3>2. notes.finish \in Seq(Finish)
      BY DEF GatherInv, NotesOk
    <3>3. finish[1] \in Finish
      BY <2>2, <3>1, <3>2
    <3>4. finish[1].ids \in Seq(Sources) /\ finish[1].status \in STRING
      BY <3>3 DEF Finish
    <3> QED BY <2>2, <3>1, <3>4 DEF GatherInv, NotesOk
  <2> QED BY <2>1, <2>2
<1> HIDE DEF sources, evidence
<1>3. Sound'
  <2>1. /\ usage' \in Usage /\ ids' \in Seq(GenIds)
        /\ [context |-> out'.context, spend |-> out'.spend] \in Amount
    BY DEF LoopType, Amount
  <2> QED BY <1>1, <1>2, <2>1 DEF Sound
<1>4. pc' = (IF out'.id # NoId THEN "settle" ELSE "measure")
  BY DEF Ends
<1>5. Phase'
  <2>1. pc' = "settle" => Unsettled'
    BY <1>4
  <2> QED BY <1>4, <2>1 DEF Phase, Running
<1>6. AnswerOk'
  BY <1>3, <1>4 DEF AnswerOk, Running
<1>7. Timely'
  <2>1. settleBy' \in Nat /\ settleBy' <= Wall
    <3>1. settleBy' = (IF clock + Reserve < Wall THEN clock + Reserve ELSE Wall)
      BY DEF Ends
    <3> QED BY <3>1, Bounds DEF GatherInv, LoopType
  <2>2. clock' <= Wall
    BY Bounds DEF GatherInv, Timely, LoopType
  <2>3. answer'.status = status
    BY <1>1
  <2> QED BY <1>4, <2>1, <2>2, <2>3 DEF Timely, Running
<1> QED BY <1>3, <1>5, <1>6, <1>7 DEF GatherInv

\* A step that goes on with the loop answers nothing.
LEMMA RunsOn ==
  ASSUME GatherInv, pc \in Running, pc' \in Running,
         answer' = answer, settleBy' = settleBy, clock' = clock
  PROVE  AnswerOk' /\ Timely'
<1>1. answer' = NoAnswer /\ answer'.status = "none"
  BY DEF GatherInv, AnswerOk, NoAnswer
<1>2. AnswerOk'
  BY <1>1 DEF AnswerOk, Running
<1>3. Timely'
  BY <1>1 DEF GatherInv, Timely, Running
<1> QED BY <1>2, <1>3

\* Parts of the invariant that a step leaves alone.
LEMMA Unmoved ==
  ASSUME GatherInv
  PROVE  /\ UNCHANGED notes => NotesOk'
         /\ UNCHANGED <<clock, loop, provider>> => LoopType' /\ NotesOk' /\ Money' /\ (Unsettled => Unsettled')
<1>1. ASSUME UNCHANGED notes PROVE NotesOk'
  BY <1>1 DEF GatherInv, NotesOk
<1>2. ASSUME UNCHANGED <<clock, loop, provider>>
      PROVE  LoopType' /\ Money' /\ (Unsettled => Unsettled')
  BY <1>2 DEF GatherInv, LoopType, Money, Unsettled, loop, provider
<1>3. UNCHANGED <<clock, loop, provider>> => UNCHANGED notes
  BY DEF loop
<1> QED BY <1>1, <1>2, <1>3

LEMMA DispatchStep ==
  ASSUME GatherInv, Dispatch
  PROVE  GatherInv'
<1> DEFINE r == reservation_for(size)
           cap == IF stop_reason # "none" THEN stop_reason ELSE Overruns(r)
<1>0. pc = "loop" /\ pc \in Running /\ out = NoRequest /\ Settled
  BY DEF Dispatch, GatherInv, Phase, Running
<1>1. CASE cap # "none"
  <2>1. UNCHANGED <<clock, loop, provider>> /\ Ends("capped", cap, <<>>)
    BY <1>1 DEF Dispatch
  <2>2. cap \in {"spend", "context_tokens", "tool_iterations"}
    BY <1>1 DEF stop_reason, Overruns
  <2>3. cap \in Reasons /\ cap \in StopReasons("capped")
    BY <2>2 DEF Reasons, StopReasons
  <2>4. out'.id = NoId
    BY <1>0, <2>1 DEF loop, NoRequest
  <2> HIDE DEF cap
  <2>5. LoopType' /\ NotesOk' /\ Money' /\ clock' = clock
    BY <2>1, Unmoved
  <2> QED BY <1>0, <2>1, <2>3, <2>4, <2>5, EndsKeeps
<1>2. CASE cap = "none"
  <2>1. /\ out' = r /\ pc' = "post" /\ charge' = Nothing /\ clock' = clock
        /\ UNCHANGED <<size, usage, ids, route, notes, settleBy, answer, billed>>
    BY <1>2 DEF Dispatch
  <2>2. ~(usage.spend + r.spend > MaxSpend) /\ ~(usage.context + r.context > MaxContext)
    BY <1>2 DEF stop_reason, Overruns
  <2>3. size \in Nat /\ usage \in Usage /\ billed \in Amount
    BY DEF GatherInv, LoopType
  <2>4. /\ r \in [on : BOOLEAN, context : Nat, spend : Nat, id : GenIds \cup {NoId}]
        /\ r.id = NoId /\ r.context \in Nat /\ r.spend \in Nat
    BY <2>3, ReservationType
  <2> HIDE DEF r, cap
  <2>5. usage.spend + r.spend <= MaxSpend /\ usage.context + r.context <= MaxContext
    BY <2>2, <2>3, <2>4, Bounds DEF Usage
  <2>6. LoopType'
    BY <2>1, <2>4 DEF GatherInv, LoopType, Nothing, Amount
  <2>7. NotesOk'
    BY <2>1, Unmoved
  <2>8. Money'
    BY <1>0, <2>1, <2>3, <2>4, <2>5 DEF GatherInv, Money, Settled, Usage
  <2>9. Phase'
    <3>1. out' = reservation_for(size')
      BY <2>1 DEF r
    <3>2. Settled' /\ Affordable'
      BY <1>0, <2>1, <2>5, <3>1 DEF Settled, Affordable
    <3> QED BY <2>1, <3>1, <3>2 DEF Phase, Running
  <2>10. AnswerOk' /\ Timely'
    BY <1>0, <2>1, RunsOn DEF Running
  <2> QED BY <2>6, <2>7, <2>8, <2>9, <2>10 DEF GatherInv
<1> QED BY <1>1, <1>2

\* At a post, a bill is covered by the reservation.
LEMMA PostBills ==
  ASSUME GatherInv, pc = "post", NEW c \in Charges \cup {Nothing}, Bills(c),
         UNCHANGED <<clock, size, usage, notes>>,
         out'.context = out.context, out'.spend = out.spend,
         out' \in [on : BOOLEAN, context : Nat, spend : Nat, id : GenIds \cup {NoId}],
         ids' \in Seq(GenIds) /\ Once(ids)'
  PROVE  /\ LoopType' /\ NotesOk' /\ Money'
         /\ billed'.spend = usage'.spend + charge'.spend
         /\ billed'.context = usage'.context + charge'.context
<1>1. /\ usage \in Usage /\ billed \in Amount /\ out.spend \in Nat /\ out.context \in Nat /\ size \in Nat
      /\ LoopType /\ Settled /\ Money
  BY DEF GatherInv, LoopType, Phase, Running
<1>2. c \in Amount /\ c.context <= size /\ c.spend <= out.spend
  BY <1>1, BillBounds
<1>3. out = reservation_for(size)
  BY DEF GatherInv, Phase
<1>4. size <= out.context
  BY <1>1, <1>3, ReservationType
<1>5. /\ charge' = c /\ billed'.spend = billed.spend + c.spend
      /\ billed'.context = billed.context + c.context
      /\ billed' \in Amount
  BY <1>1, <1>2 DEF Bills, Add, Amount
<1>6. LoopType'
  BY <1>1, <1>2, <1>5 DEF LoopType
<1>7. NotesOk'
  BY Unmoved
<1>8. /\ billed'.spend = usage'.spend + charge'.spend
      /\ billed'.context = usage'.context + charge'.context
  BY <1>1, <1>5 DEF Settled
<1>9. Money'
  <2>1. /\ usage.spend \in Nat /\ usage.context \in Nat /\ c.spend \in Nat /\ c.context \in Nat
        /\ out.spend \in Nat /\ out.context \in Nat
    BY <1>1, <1>2 DEF Usage, Amount
  <2>2. c.spend <= out.spend /\ c.context <= out.context
    BY <1>1, <1>2, <1>4, <2>1
  <2>3. usage'.spend = usage.spend /\ usage'.context = usage.context /\ usage'.tools = usage.tools
    OBVIOUS
  <2>4. billed'.spend = usage.spend + c.spend /\ billed'.context = usage.context + c.context
    BY <1>5, <1>8, <2>3
  <2>5. /\ usage.spend <= billed'.spend /\ billed'.spend <= usage.spend + out.spend
        /\ usage.context <= billed'.context /\ billed'.context <= usage.context + out.context
    BY <2>1, <2>2, <2>4
  <2>6. /\ usage.tools <= MaxTools
        /\ usage.spend + out.spend <= MaxSpend /\ usage.context + out.context <= MaxContext
    BY <1>1 DEF Money
  <2> QED BY <2>3, <2>5, <2>6 DEF Money
<1> QED BY <1>6, <1>7, <1>8, <1>9

LEMMA PostFailsStep ==
  ASSUME GatherInv, NEW c \in Charges \cup {Nothing}, PostFails(c) \/ PostTimesOut(c)
  PROVE  GatherInv'
<1>1. pc = "post" /\ pc \in Running /\ Bills(c) /\ UNCHANGED <<clock, loop>>
  BY DEF PostFails, PostTimesOut, Running
<1>2. out.id = NoId /\ out' = out /\ ids' = ids /\ clock' = clock
  BY <1>1, ReservationType DEF GatherInv, Phase, LoopType, loop
<1>3. /\ out \in [on : BOOLEAN, context : Nat, spend : Nat, id : GenIds \cup {NoId}]
      /\ ids \in Seq(GenIds) /\ Once(ids)
  BY DEF GatherInv, LoopType
<1>4. LoopType' /\ NotesOk' /\ Money'
  BY <1>1, <1>2, <1>3, PostBills DEF loop
<1>5. CASE Ends("partial", "provider_error", <<>>)
  BY <1>1, <1>2, <1>4, <1>5, EndsKeeps DEF Reasons, StopReasons
<1>6. CASE Ends("capped", "wall_time", <<>>)
  BY <1>1, <1>2, <1>4, <1>6, EndsKeeps DEF Reasons, StopReasons
<1> QED BY <1>5, <1>6 DEF PostFails, PostTimesOut

\* The reservation is cleared: nothing was billed for it.
LEMMA PostRefusedStep ==
  ASSUME GatherInv, NEW retryable \in BOOLEAN, PostRefused(retryable)
  PROVE  GatherInv'
<1>1. /\ pc = "post" /\ pc \in Running /\ out' = NoRequest /\ clock' = clock
      /\ UNCHANGED <<size, usage, ids, notes, charge, billed>>
  BY DEF PostRefused, Running, provider
<1>2. /\ usage \in Usage /\ billed \in Amount /\ Settled /\ Money /\ Affordable /\ LoopType
      /\ out.spend \in Nat /\ out.context \in Nat
  BY <1>1 DEF GatherInv, LoopType, Phase
<1>3. /\ NoRequest \in [on : BOOLEAN, context : Nat, spend : Nat, id : GenIds \cup {NoId}]
      /\ NoRequest.spend = 0 /\ NoRequest.context = 0 /\ NoRequest.id = NoId
  BY DEF NoRequest
<1>4. LoopType'
  BY <1>1, <1>2, <1>3 DEF LoopType
<1>5. NotesOk'
  BY <1>1, Unmoved
<1>6. Money'
  <2>1. usage'.spend + out'.spend <= MaxSpend /\ usage'.context + out'.context <= MaxContext
    BY <1>1, <1>2, <1>3, Bounds DEF Money, Usage
  <2> QED BY <2>1, <1>1, <1>2, <1>3 DEF Money, Settled, Usage
<1>7. CASE retryable /\ attempts <= MaxRetries
  <2>1. pc' = "sleep" /\ UNCHANGED <<settleBy, answer>>
    BY <1>7 DEF PostRefused
  <2>2. Settled' /\ Affordable'
    BY <1>1, <1>2 DEF Settled, Affordable
  <2>3. Phase'
    BY <1>1, <2>1, <2>2 DEF Phase, Running
  <2>4. AnswerOk' /\ Timely'
    BY <1>1, <2>1, RunsOn DEF Running
  <2> QED BY <1>4, <1>5, <1>6, <2>3, <2>4 DEF GatherInv
<1>8. CASE ~(retryable /\ attempts <= MaxRetries) /\ has_prior_work
  <2>1. Ends("partial", "provider_error", <<>>)
    BY <1>8 DEF PostRefused
  <2> QED BY <1>1, <1>3, <1>4, <1>5, <1>6, <2>1, EndsKeeps DEF Reasons, StopReasons
<1>9. CASE ~(retryable /\ attempts <= MaxRetries) /\ ~has_prior_work
  <2>1. Unavailable /\ UNCHANGED settleBy
    BY <1>9 DEF PostRefused
  <2>2. answer' = [NoAnswer EXCEPT !.status = "error"] /\ pc' = "failed" /\ answer'.status = "error"
    BY <2>1 DEF Unavailable, NoAnswer
  <2>3. usage.context = 0 /\ usage.spend = 0
    BY <1>9 DEF has_prior_work
  <2>4. billed' = Nothing
    BY <1>1, <1>2, <2>3 DEF Settled, Nothing, Amount
  <2>5. Phase'
    BY <2>2 DEF Phase, Running
  <2>6. AnswerOk' /\ Timely'
    BY <2>1, <2>2, <2>4 DEF AnswerOk, Timely, Running, GatherInv
  <2> QED BY <1>4, <1>5, <1>6, <2>5, <2>6 DEF GatherInv
<1> QED BY <1>7, <1>8, <1>9

LEMMA RetryStep ==
  ASSUME GatherInv, Retry
  PROVE  GatherInv'
<1>1. /\ pc = "sleep" /\ pc \in Running /\ pc' = "post" /\ out' = reservation_for(size)
      /\ charge' = Nothing /\ UNCHANGED <<clock, size, usage, ids, notes, settleBy, answer, billed>>
  BY DEF Retry, Running
<1>2. size \in Nat /\ usage \in Usage /\ billed \in Amount /\ Settled /\ Money /\ Affordable /\ LoopType
  BY <1>1 DEF GatherInv, LoopType, Phase
<1>3. /\ out' \in [on : BOOLEAN, context : Nat, spend : Nat, id : GenIds \cup {NoId}]
      /\ out'.spend \in Nat /\ out'.context \in Nat
  BY <1>1, <1>2, ReservationType
<1>4. LoopType'
  BY <1>1, <1>2, <1>3 DEF LoopType, Nothing, Amount
<1>5. NotesOk'
  BY <1>1, Unmoved
<1>6. Money'
  <2>1. usage'.spend + out'.spend <= MaxSpend /\ usage'.context + out'.context <= MaxContext
    BY <1>1, <1>2 DEF Affordable
  <2> QED BY <2>1, <1>1, <1>2, <1>3 DEF Money, Settled, Usage
<1>7. Phase'
  <2>1. Settled' /\ Affordable'
    BY <1>1, <1>2 DEF Settled, Affordable
  <2> QED BY <1>1, <2>1 DEF Phase, Running
<1>8. AnswerOk' /\ Timely'
  BY <1>1, RunsOn DEF Running
<1> QED BY <1>4, <1>5, <1>6, <1>7, <1>8 DEF GatherInv

LEMMA SleepTimesOutStep ==
  ASSUME GatherInv, SleepTimesOut
  PROVE  GatherInv'
<1>1. /\ pc = "sleep" /\ pc \in Running /\ UNCHANGED <<clock, loop, provider>>
      /\ Ends("capped", "wall_time", <<>>)
  BY DEF SleepTimesOut, Running
<1>2. out'.id = NoId
  BY <1>1 DEF GatherInv, Phase, loop, NoRequest
<1>3. LoopType' /\ NotesOk' /\ Money' /\ clock' = clock
  BY <1>1, Unmoved
<1> QED BY <1>1, <1>2, <1>3, EndsKeeps DEF Reasons, StopReasons

LEMMA StreamEndsStep ==
  ASSUME GatherInv,
         StreamTimesOut \/ \E reason \in {"provider_error", "invalid_output"} : StreamFails(reason)
  PROVE  GatherInv'
<1>1. /\ pc = "stream" /\ pc \in Running /\ UNCHANGED <<clock, loop, provider>>
      /\ \/ Ends("capped", "wall_time", <<>>)
         \/ Ends("partial", "provider_error", <<>>)
         \/ Ends("partial", "invalid_output", <<>>)
  BY DEF StreamTimesOut, StreamFails, Running
<1>2. LoopType' /\ NotesOk' /\ Money' /\ clock' = clock /\ Unsettled'
  BY <1>1, Unmoved DEF GatherInv, Phase
<1>3. CASE Ends("capped", "wall_time", <<>>)
  BY <1>1, <1>2, <1>3, EndsKeeps DEF Reasons, StopReasons
<1>4. CASE Ends("partial", "provider_error", <<>>)
  BY <1>1, <1>2, <1>4, EndsKeeps DEF Reasons, StopReasons
<1>5. CASE Ends("partial", "invalid_output", <<>>)
  BY <1>1, <1>2, <1>5, EndsKeeps DEF Reasons, StopReasons
<1> QED BY <1>1, <1>3, <1>4, <1>5

\* A new id is attached to the request, a used one is not.
LEMMA AttachesKeeps ==
  ASSUME GatherInv, pc = "post", NEW id \in GenIds, Attaches(id)
  PROVE  /\ out' \in [on : BOOLEAN, context : Nat, spend : Nat, id : GenIds \cup {NoId}]
         /\ out'.context = out.context /\ out'.spend = out.spend
         /\ ids' \in Seq(GenIds) /\ Once(ids)'
         /\ id \in Range(ids) => out'.id = NoId
         /\ id \notin Range(ids) => out'.id = id /\ out'.id # NoId
<1>1. /\ out \in [on : BOOLEAN, context : Nat, spend : Nat, id : GenIds \cup {NoId}]
      /\ ids \in Seq(GenIds) /\ Once(ids) /\ out.id = NoId
  BY ReservationType DEF GatherInv, LoopType, Phase
<1>2. CASE id \in Range(ids)
  <2>1. out' = out /\ ids' = ids
    BY <1>2 DEF Attaches
  <2>2. Once(ids')
    BY <1>1, <2>1
  <2> QED BY <1>1, <1>2, <2>1, <2>2
<1>3. CASE id \notin Range(ids)
  <2>1. out' = [out EXCEPT !.id = id] /\ ids' = Append(ids, id)
    BY <1>3 DEF Attaches
  <2>2. \A i \in 1..Len(ids) : ids[i] # id
    BY <1>1, <1>3 DEF Range
  <2>3. ids' \in Seq(GenIds) /\ Len(ids') = Len(ids) + 1 /\ Len(ids) \in Nat
        /\ ids'[Len(ids) + 1] = id /\ \A i \in 1..Len(ids) : ids'[i] = ids[i]
    BY <1>1, <2>1
  <2>4. Once(ids')
    <3> SUFFICES ASSUME NEW i \in 1..Len(ids'), NEW j \in 1..Len(ids'), ids'[i] = ids'[j], i < j
                 PROVE  FALSE
      BY <2>3 DEF Once
    <3>1. i \in 1..Len(ids)
      BY <2>3
    <3>2. CASE j = Len(ids) + 1
      BY <3>1, <3>2, <2>2, <2>3
    <3>3. CASE j \in 1..Len(ids)
      BY <3>1, <3>3, <1>1, <2>3 DEF Once
    <3> QED BY <3>2, <3>3, <2>3
  <2> QED BY <1>1, <1>3, <2>1, <2>3, <2>4, Bounds
<1> QED BY <1>2, <1>3

LEMMA PostFailsWithIdStep ==
  ASSUME GatherInv, NEW id \in GenIds, NEW c \in Charges, PostFailsWithId(id, c)
  PROVE  GatherInv'
<1> DEFINE reason == IF id \in Range(ids) THEN "invalid_output" ELSE "provider_error"
<1>1. /\ pc = "post" /\ pc \in Running /\ Bills(c) /\ Attaches(id)
      /\ UNCHANGED <<clock, size, usage, notes>> /\ Ends("partial", reason, <<>>)
  BY DEF PostFailsWithId, Running
<1>2. /\ out' \in [on : BOOLEAN, context : Nat, spend : Nat, id : GenIds \cup {NoId}]
      /\ out'.context = out.context /\ out'.spend = out.spend
      /\ ids' \in Seq(GenIds) /\ Once(ids)'
  BY <1>1, AttachesKeeps
<1>3. /\ LoopType' /\ NotesOk' /\ Money'
      /\ billed'.spend = usage'.spend + charge'.spend
      /\ billed'.context = usage'.context + charge'.context
  BY <1>1, <1>2, PostBills
<1>4. out'.id # NoId => Unsettled'
  BY <1>3 DEF Unsettled
<1>5. reason \in Reasons /\ reason \in StopReasons("partial")
  BY DEF Reasons, StopReasons
<1> HIDE DEF reason
<1> QED BY <1>1, <1>3, <1>4, <1>5, EndsKeeps

LEMMA StreamsStep ==
  ASSUME GatherInv, NEW id \in GenIds \cup {NoId}, NEW typed \in BOOLEAN, NEW c \in Charges,
         Streams(id, typed, c)
  PROVE  GatherInv'
<1>1. /\ pc = "post" /\ pc \in Running /\ Bills(c)
      /\ IF id = NoId THEN UNCHANGED <<out, ids>> ELSE Attaches(id)
      /\ UNCHANGED <<clock, size, usage, notes>>
  BY DEF Streams, Running
<1>2. /\ out \in [on : BOOLEAN, context : Nat, spend : Nat, id : GenIds \cup {NoId}]
      /\ ids \in Seq(GenIds) /\ Once(ids) /\ out.id = NoId
  BY <1>1, ReservationType DEF GatherInv, LoopType, Phase
<1>3. /\ out' \in [on : BOOLEAN, context : Nat, spend : Nat, id : GenIds \cup {NoId}]
      /\ out'.context = out.context /\ out'.spend = out.spend
      /\ ids' \in Seq(GenIds) /\ Once(ids)'
      /\ id # NoId /\ id \notin Range(ids) => out'.id # NoId
  <2>1. CASE id = NoId
    <3>1. out' = out /\ ids' = ids
      BY <1>1, <2>1
    <3>2. Once(ids)'
      BY <1>2, <3>1
    <3> QED BY <1>2, <2>1, <3>1, <3>2
  <2>2. CASE id # NoId
    BY <1>1, <2>2, AttachesKeeps
  <2> QED BY <2>1, <2>2
<1>4. /\ LoopType' /\ NotesOk' /\ Money'
      /\ billed'.spend = usage'.spend + charge'.spend
      /\ billed'.context = usage'.context + charge'.context
  BY <1>1, <1>3, PostBills
<1>5. out'.id # NoId => Unsettled'
  BY <1>4 DEF Unsettled
<1>6. CASE id # NoId /\ id \notin Range(ids) /\ typed
  <2>1. pc' = "stream" /\ UNCHANGED <<settleBy, answer>>
    BY <1>6 DEF Streams
  <2>2. Phase'
    BY <1>3, <1>5, <1>6, <2>1 DEF Phase, Running
  <2>3. AnswerOk' /\ Timely'
    BY <1>1, <2>1, RunsOn DEF Running
  <2> QED BY <1>4, <2>2, <2>3 DEF GatherInv
<1>7. CASE ~(id # NoId /\ id \notin Range(ids) /\ typed)
  <2>1. Ends("partial", "invalid_output", <<>>)
    BY <1>7 DEF Streams
  <2> QED BY <1>1, <1>4, <1>5, <2>1, EndsKeeps DEF Reasons, StopReasons
<1> QED BY <1>6, <1>7

\* Settling moves the bill from the reservation to the usage.
LEMMA Settling ==
  ASSUME GatherInv, Unsettled, out' = NoRequest, UNCHANGED <<clock, ids, charge, billed>>, size' \in Nat,
         usage' \in Usage, usage'.tools <= MaxTools,
         usage'.spend = usage.spend + charge.spend, usage'.context = usage.context + charge.context
  PROVE  LoopType' /\ Money' /\ Settled' /\ out'.id = NoId
<1>1. /\ usage \in Usage /\ billed \in Amount /\ charge \in Amount /\ Money /\ LoopType
      /\ out.spend \in Nat /\ out.context \in Nat
  BY DEF GatherInv, LoopType
<1>2. /\ NoRequest \in [on : BOOLEAN, context : Nat, spend : Nat, id : GenIds \cup {NoId}]
      /\ NoRequest.spend = 0 /\ NoRequest.context = 0 /\ NoRequest.id = NoId
  BY DEF NoRequest
<1>3. LoopType'
  BY <1>1, <1>2 DEF LoopType
<1>4. Settled'
  BY <1>1 DEF Settled, Unsettled
<1>5. /\ usage.spend \in Nat /\ usage.context \in Nat /\ charge.spend \in Nat /\ charge.context \in Nat
      /\ billed.spend \in Nat /\ billed.context \in Nat
      /\ usage'.spend = billed.spend /\ usage'.context = billed.context
      /\ billed'.spend = billed.spend /\ billed'.context = billed.context
      /\ out'.spend = 0 /\ out'.context = 0
  <2>1. /\ usage.spend \in Nat /\ usage.context \in Nat /\ charge.spend \in Nat /\ charge.context \in Nat
        /\ billed.spend \in Nat /\ billed.context \in Nat
    BY <1>1 DEF Usage, Amount
  <2>2. usage'.spend = billed.spend /\ usage'.context = billed.context
    BY DEF Unsettled
  <2>3. billed' = billed /\ out' = NoRequest
    OBVIOUS
  <2> QED BY <1>2, <2>1, <2>2, <2>3
<1>6. billed.spend <= MaxSpend /\ billed.context <= MaxContext
  <2>1. /\ usage.spend + out.spend <= MaxSpend /\ usage.context + out.context <= MaxContext
        /\ billed.spend <= usage.spend + out.spend /\ billed.context <= usage.context + out.context
    BY <1>1 DEF Money
  <2>2. MaxSpend \in Nat /\ MaxContext \in Nat
    BY Bounds
  <2>3. out.spend \in Nat /\ out.context \in Nat
    BY <1>1
  <2> QED BY <1>5, <2>1, <2>2, <2>3
<1>7. Money'
  <2>1. usage'.spend + out'.spend = billed.spend /\ usage'.context + out'.context = billed.context
    BY <1>5
  <2>2. billed.spend <= billed.spend /\ billed.context <= billed.context
    BY <1>5
  <2>3. usage'.tools <= MaxTools
    OBVIOUS
  <2> QED BY <1>5, <1>6, <2>1, <2>2, <2>3 DEF Money
<1> QED BY <1>2, <1>3, <1>4, <1>7

\* The sum of two amounts is an amount.
LEMMA PlusUsageType ==
  ASSUME usage \in Usage, charge \in Amount
  PROVE  /\ PlusUsage(charge) \in Usage /\ PlusUsage(charge).tools = usage.tools
         /\ PlusUsage(charge).spend = usage.spend + charge.spend
         /\ PlusUsage(charge).context = usage.context + charge.context
<1>1. usage.context + charge.context \in Nat /\ usage.spend + charge.spend \in Nat
  BY DEF Usage, Amount
<1> QED BY <1>1 DEF PlusUsage, Usage

LEMMA TurnStep ==
  ASSUME GatherInv, NEW calls \in Turns, NEW r \in Routes, Turn(calls, r)
  PROVE  GatherInv'
<1>1. pc = "stream" /\ pc \in Running /\ UNCHANGED <<clock, ids, charge, billed>>
  BY DEF Turn, Running, provider
<1>2. usage \in Usage /\ charge \in Amount /\ Unsettled /\ Money /\ size \in Nat /\ LoopType
  BY <1>1 DEF GatherInv, LoopType, Phase
<1>3. CASE ~RouteHolds(r)
  <2>1. UNCHANGED <<size, usage, out, route, notes>> /\ Ends("partial", "invalid_output", <<>>)
    BY <1>3 DEF Turn
  <2>2. LoopType' /\ Money' /\ Unsettled'
    BY <1>1, <1>2, <2>1 DEF LoopType, Money, Unsettled
  <2>3. NotesOk'
    BY <2>1, Unmoved
  <2> QED BY <1>1, <2>1, <2>2, <2>3, EndsKeeps DEF Reasons, StopReasons
<1>4. CASE RouteHolds(r) /\ usage.tools + Len(calls) > MaxTools
  <2>1. /\ out' = NoRequest /\ usage' = PlusUsage(charge) /\ UNCHANGED <<size, notes>>
        /\ Ends("capped", "tool_iterations", <<>>)
    BY <1>4 DEF Turn
  <2>2. /\ usage' \in Usage /\ usage'.tools <= MaxTools
        /\ usage'.spend = usage.spend + charge.spend /\ usage'.context = usage.context + charge.context
    BY <1>2, <2>1, PlusUsageType DEF Money
  <2>3. LoopType' /\ Money' /\ out'.id = NoId
    BY <1>1, <1>2, <2>1, <2>2, Settling
  <2>4. NotesOk'
    BY <2>1, Unmoved
  <2> QED BY <1>1, <2>1, <2>3, <2>4, EndsKeeps DEF Reasons, StopReasons
<1>5. CASE RouteHolds(r) /\ ~(usage.tools + Len(calls) > MaxTools)
  <2>1. /\ out' = NoRequest /\ usage' = [PlusUsage(charge) EXCEPT !.tools = @ + Len(calls)]
        /\ notes' = [notes EXCEPT !.calls = calls, !.finish = <<>>]
        /\ pc' = "tools" /\ UNCHANGED <<size, settleBy, answer>>
    BY <1>5 DEF Turn
  <2>2. calls \in Seq(Tool) /\ Len(calls) \in Nat
    BY Bounds
  <2>3. /\ usage' \in Usage /\ usage'.tools <= MaxTools
        /\ usage'.spend = usage.spend + charge.spend /\ usage'.context = usage.context + charge.context
    <3> DEFINE u == PlusUsage(charge)
    <3>1. /\ u \in Usage /\ u.tools = usage.tools /\ u.spend = usage.spend + charge.spend
          /\ u.context = usage.context + charge.context
      BY <1>2, PlusUsageType
    <3>2. usage' = [u EXCEPT !.tools = u.tools + Len(calls)]
      BY <2>1
    <3>3. u.tools + Len(calls) \in Nat /\ u.tools + Len(calls) <= MaxTools
      BY <1>2, <1>5, <2>2, <3>1, Bounds DEF Usage
    <3> HIDE DEF u
    <3> QED BY <3>1, <3>2, <3>3 DEF Usage
  <2>4. LoopType' /\ Money' /\ Settled'
    BY <1>1, <1>2, <2>1, <2>3, Settling
  <2>5. NotesOk'
    <3>1. <<>> \in Seq(Finish)
      OBVIOUS
    <3>2. /\ notes' \in [checkpoint : Seq(Sources), malformed : Nat, calls : Seq(Tool), finish : Seq(Finish)]
          /\ notes'.checkpoint = notes.checkpoint /\ notes'.finish = <<>>
      BY <2>1, <2>2, <3>1 DEF GatherInv, NotesOk
    <3>3. Once(notes.checkpoint)
      BY DEF GatherInv, NotesOk
    <3> QED BY <3>2, <3>3 DEF NotesOk
  <2>6. Phase'
    BY <2>1, <2>4 DEF Phase, Running
  <2>7. AnswerOk' /\ Timely'
    BY <1>1, <2>1, RunsOn DEF Running
  <2> QED BY <2>4, <2>5, <2>6, <2>7 DEF GatherInv
<1> QED BY <1>3, <1>4, <1>5

\* A call that is refused records nothing; the others record sources of the
\* manifest, each once.
LEMMA CalledType ==
  ASSUME NotesOk, NEW call \in Tool, notes.calls # <<>>
  PROVE  LET done == Called(call)
         IN  /\ done \in [checkpoint : Seq(Sources), malformed : Nat, calls : Seq(Tool), finish : Seq(Finish)]
             /\ Once(done.checkpoint)
             /\ done.finish # <<>> =>
                  /\ Once(done.finish[1].ids)
                  /\ done.finish[1].status # "insufficient" => done.finish[1].ids # <<>>
<1> DEFINE left == [notes EXCEPT !.calls = Tail(@)]
           N == [checkpoint : Seq(Sources), malformed : Nat, calls : Seq(Tool), finish : Seq(Finish)]
           Good(f) == f # <<>> => /\ Once(f[1].ids)
                                  /\ f[1].status # "insufficient" => f[1].ids # <<>>
           recorded == call.tool \in {"record_evidence", "finish"}
           bad == call.tool = "malformed" \/ (recorded /\ RecordFails(call, notes.checkpoint))
<1>1. notes \in N /\ Once(notes.checkpoint) /\ Good(notes.finish)
  BY DEF NotesOk
<1>2. /\ left \in N /\ left.checkpoint = notes.checkpoint /\ left.finish = notes.finish
      /\ left.malformed = notes.malformed
  <2>1. Tail(notes.calls) \in Seq(Tool)
    BY <1>1
  <2> QED BY <1>1, <2>1
<1>3. call.ids \in Seq(Sources \cup {Unknown}) /\ call.status \in STRING
  BY DEF Tool
<1>4. recorded /\ ~bad => call.ids \in Seq(Sources)
  <2> SUFFICES ASSUME Unknown \notin Range(call.ids)
               PROVE  call.ids \in Seq(Sources)
    BY DEF RecordFails
  <2>1. \A i \in 1..Len(call.ids) : call.ids[i] \in Sources
    BY <1>3 DEF Range
  <2> QED BY <1>3, <2>1
<1>5. CASE bad
  <2>1. Called(call) = [left EXCEPT !.malformed = left.malformed + 1]
    BY <1>5 DEF Called
  <2>2. left.malformed + 1 \in Nat
    BY <1>2
  <2> HIDE DEF left, bad
  <2>3. /\ Called(call) \in N /\ Called(call).checkpoint = notes.checkpoint
        /\ Called(call).finish = notes.finish
    BY <1>2, <2>1, <2>2
  <2> HIDE DEF N
  <2> QED BY <1>1, <2>3 DEF N
<1>6. CASE ~bad /\ call.tool = "record_evidence"
  <2> DEFINE more == notes.checkpoint \o call.ids
  <2>1. Called(call) = [left EXCEPT !.checkpoint = Dedup(left.checkpoint \o call.ids)]
    BY <1>6 DEF Called
  <2>2. more \in Seq(Sources)
    BY <1>1, <1>4, <1>6
  <2>3. Dedup(more) \in Seq(Sources) /\ Once(Dedup(more))
    BY <2>2, DedupIsOnce
  <2>4. Called(call) = [left EXCEPT !.checkpoint = Dedup(more)]
    BY <1>2, <2>1
  <2> HIDE DEF left, bad, more
  <2>5. /\ Called(call) \in N /\ Called(call).checkpoint = Dedup(more)
        /\ Called(call).finish = notes.finish
    BY <1>2, <2>3, <2>4
  <2> HIDE DEF N
  <2> QED BY <1>1, <2>3, <2>5 DEF N
<1>7. CASE ~bad /\ call.tool = "finish" /\ notes.finish = <<>>
  <2> DEFINE f == [ids |-> Dedup(call.ids), status |-> call.status]
  <2>1. Called(call) = [left EXCEPT !.finish = <<f>>]
    BY <1>7 DEF Called
  <2>2. call.ids \in Seq(Sources)
    BY <1>4, <1>7
  <2>3. /\ Dedup(call.ids) \in Seq(Sources) /\ Once(Dedup(call.ids))
        /\ call.ids # <<>> => Dedup(call.ids) # <<>>
    BY <2>2, DedupIsOnce
  <2>4. f \in Finish /\ f.ids = Dedup(call.ids) /\ f.status = call.status
    BY <1>3, <2>3 DEF Finish
  <2>5. call.status # "insufficient" => call.ids # <<>>
    BY <1>7 DEF RecordFails
  <2> HIDE DEF left, bad, f
  <2>6. <<f>> \in Seq(Finish) /\ <<f>>[1] = f
    BY <2>4
  <2>7. /\ Called(call) \in N /\ Called(call).checkpoint = notes.checkpoint
        /\ Called(call).finish = <<f>>
    BY <1>2, <2>1, <2>6
  <2>8. Good(<<f>>)
    BY <2>3, <2>4, <2>5, <2>6
  <2> HIDE DEF N, Good
  <2>9. Good(Called(call).finish) /\ Once(Called(call).checkpoint)
    BY <1>1, <2>7, <2>8
  <2> QED BY <2>7, <2>9 DEF N, Good
<1>8. CASE ~bad /\ call.tool # "record_evidence" /\ ~(call.tool = "finish" /\ notes.finish = <<>>)
  <2>1. Called(call) = left
    BY <1>8 DEF Called
  <2> HIDE DEF left, bad, N, Good
  <2>2. Called(call) \in N /\ Good(Called(call).finish) /\ Once(Called(call).checkpoint)
    BY <1>1, <1>2, <2>1
  <2> QED BY <2>2 DEF N, Good
<1> QED BY <1>5, <1>6, <1>7, <1>8

LEMMA CallToolStep ==
  ASSUME GatherInv, CallTool
  PROVE  GatherInv'
<1> DEFINE call == notes.calls[1]
           done == Called(call)
           N == [checkpoint : Seq(Sources), malformed : Nat, calls : Seq(Tool), finish : Seq(Finish)]
<1>1. /\ pc = "tools" /\ pc \in Running /\ notes.calls # <<>>
      /\ UNCHANGED <<clock, size, usage, out, ids, charge, billed>>
  BY DEF CallTool, Running, provider
<1>2. call \in Tool
  <2>1. notes.calls \in Seq(Tool)
    BY DEF GatherInv, NotesOk
  <2> QED BY <1>1, <2>1
<1>3. /\ done \in N /\ Once(done.checkpoint)
      /\ done.finish # <<>> => /\ Once(done.finish[1].ids)
                               /\ done.finish[1].status # "insufficient" => done.finish[1].ids # <<>>
  BY <1>1, <1>2, CalledType DEF GatherInv
<1>4. LoopType' /\ Money' /\ Settled' /\ out' = NoRequest /\ out'.id = NoId
  BY <1>1 DEF GatherInv, LoopType, Money, Phase, Settled, NoRequest
<1> HIDE DEF call
<1>5. CASE done.malformed > MalformedLimit
  <2>1. notes' = [done EXCEPT !.calls = <<>>, !.finish = <<>>] /\ Ends("partial", "invalid_output", <<>>)
    BY <1>5 DEF CallTool, call
  <2> HIDE DEF done
  <2>2. notes' \in N /\ notes'.checkpoint = done.checkpoint /\ notes'.finish = <<>>
    <3>1. <<>> \in Seq(Finish) /\ <<>> \in Seq(Tool)
      OBVIOUS
    <3> QED BY <1>3, <2>1, <3>1
  <2>3. NotesOk'
    BY <1>3, <2>2 DEF NotesOk
  <2> QED BY <1>1, <1>4, <2>1, <2>3, EndsKeeps DEF Reasons, StopReasons
<1>6. CASE ~(done.malformed > MalformedLimit)
  <2>1. notes' = done /\ UNCHANGED <<pc, settleBy, answer>>
    BY <1>6 DEF CallTool, call
  <2> HIDE DEF done
  <2>2. NotesOk'
    BY <1>3, <2>1 DEF NotesOk
  <2>3. Phase'
    BY <1>1, <1>4, <2>1 DEF Phase, Running
  <2>4. AnswerOk' /\ Timely'
    BY <1>1, <2>1, RunsOn
  <2> QED BY <1>4, <2>2, <2>3, <2>4 DEF GatherInv
<1> QED BY <1>5, <1>6

LEMMA TurnEndsStep ==
  ASSUME GatherInv, TurnEnds
  PROVE  GatherInv'
<1>1. /\ pc = "tools" /\ pc \in Running /\ size' = size + 1 /\ notes' = [notes EXCEPT !.finish = <<>>]
      /\ UNCHANGED <<clock, usage, out, ids, charge, billed>>
  BY DEF TurnEnds, Running, provider
<1>2. LoopType' /\ Money' /\ Settled' /\ out' = NoRequest /\ out'.id = NoId
  BY <1>1 DEF GatherInv, LoopType, Money, Phase, Settled, NoRequest
<1>3. NotesOk'
  <2>1. <<>> \in Seq(Finish)
    OBVIOUS
  <2>2. /\ notes' \in [checkpoint : Seq(Sources), malformed : Nat, calls : Seq(Tool), finish : Seq(Finish)]
        /\ notes'.checkpoint = notes.checkpoint /\ notes'.finish = <<>>
    BY <1>1, <2>1 DEF GatherInv, NotesOk
  <2>3. Once(notes.checkpoint)
    BY DEF GatherInv, NotesOk
  <2> QED BY <2>2, <2>3 DEF NotesOk
<1>4. CASE notes.finish = <<>>
  <2>1. pc' = "loop" /\ UNCHANGED <<settleBy, answer>>
    BY <1>4 DEF TurnEnds
  <2>2. Phase'
    BY <1>2, <2>1 DEF Phase, Running
  <2>3. AnswerOk' /\ Timely'
    BY <1>1, <2>1, RunsOn DEF Running
  <2> QED BY <1>2, <1>3, <2>2, <2>3 DEF GatherInv
<1>5. CASE notes.finish # <<>>
  <2>1. Ends("completed", "completed", notes.finish)
    BY <1>5 DEF TurnEnds
  <2> QED BY <1>1, <1>2, <1>3, <1>5, <2>1, EndsKeeps DEF Reasons, StopReasons
<1> QED BY <1>4, <1>5

LEMMA SettlesStep ==
  ASSUME GatherInv, Settles
  PROVE  GatherInv'
<1>1. /\ pc = "settle" /\ pc' = "measure" /\ usage' = PlusUsage(charge) /\ out' = NoRequest
      /\ answer' = [answer EXCEPT !.usage = usage', !.unsettled = Nothing]
      /\ UNCHANGED <<clock, size, ids, notes, settleBy, charge, billed>>
  BY DEF Settles, provider
<1>2. usage \in Usage /\ charge \in Amount /\ Unsettled /\ Money /\ size \in Nat /\ Sound
  BY <1>1 DEF GatherInv, LoopType, Phase, AnswerOk
<1>3. /\ usage' \in Usage /\ usage'.tools <= MaxTools
      /\ usage'.spend = usage.spend + charge.spend /\ usage'.context = usage.context + charge.context
  BY <1>1, <1>2, PlusUsageType DEF Money
<1>4. LoopType' /\ Money'
  BY <1>1, <1>2, <1>3, Settling
<1>5. NotesOk'
  BY <1>1, Unmoved
<1>6. Phase'
  BY <1>1 DEF Phase, Running
<1>7. Nothing = [context |-> out'.context, spend |-> out'.spend] /\ Nothing \in Amount
  BY <1>1 DEF NoRequest, Nothing, Amount
<1>8. /\ answer' \in [status : {"completed", "capped", "partial"}, reason : Reasons, sources : Seq(Sources),
                      evidence : STRING \cup {"insufficient"}, usage : Usage, unsettled : Amount,
                      ids : Seq(GenIds), time : Nat]
      /\ answer'.status = answer.status /\ answer'.reason = answer.reason
      /\ answer'.sources = answer.sources /\ answer'.evidence = answer.evidence
      /\ answer'.usage = usage' /\ answer'.unsettled = Nothing /\ answer'.ids = answer.ids
  BY <1>1, <1>2, <1>3, <1>7 DEF Sound
<1>9. Sound'
  BY <1>1, <1>2, <1>7, <1>8 DEF Sound
<1>10. AnswerOk'
  BY <1>1, <1>9 DEF AnswerOk, Running
<1>11. Timely'
  BY <1>1, <1>8 DEF GatherInv, Timely, Running
<1> QED BY <1>4, <1>5, <1>6, <1>10, <1>11 DEF GatherInv

LEMMA UnsettledStep ==
  ASSUME GatherInv, SettlementFails \/ SettlementTimesOut
  PROVE  GatherInv'
<1>1. pc = "settle" /\ pc' = "measure" /\ UNCHANGED <<clock, loop, settleBy, answer, provider>>
  BY DEF SettlementFails, SettlementTimesOut
<1>2. LoopType' /\ NotesOk' /\ Money'
  BY <1>1, Unmoved
<1>3. Phase'
  BY <1>1 DEF Phase, Running
<1>4. Sound'
  BY <1>1 DEF GatherInv, AnswerOk, Sound, loop
<1>5. AnswerOk' /\ Timely'
  BY <1>1, <1>4 DEF GatherInv, AnswerOk, Timely, Running
<1> QED BY <1>2, <1>3, <1>5 DEF GatherInv

LEMMA MeasureStep ==
  ASSUME GatherInv, Measure
  PROVE  GatherInv'
<1>1. /\ pc = "measure" /\ pc' = "check" /\ answer' = [answer EXCEPT !.time = clock]
      /\ UNCHANGED <<clock, loop, settleBy, provider>>
  BY DEF Measure
<1>2. LoopType' /\ NotesOk' /\ Money' /\ clock \in Nat /\ Sound
  BY <1>1, Unmoved DEF GatherInv, LoopType, AnswerOk
<1>3. Phase'
  BY <1>1 DEF Phase, Running
<1>4. /\ answer' \in [status : {"completed", "capped", "partial"}, reason : Reasons, sources : Seq(Sources),
                      evidence : STRING \cup {"insufficient"}, usage : Usage, unsettled : Amount,
                      ids : Seq(GenIds), time : Nat]
      /\ answer'.status = answer.status /\ answer'.reason = answer.reason
      /\ answer'.sources = answer.sources /\ answer'.evidence = answer.evidence
      /\ answer'.usage = answer.usage /\ answer'.unsettled = answer.unsettled
      /\ answer'.ids = answer.ids /\ answer'.time = clock
  BY <1>1, <1>2 DEF Sound
<1>5. Sound'
  BY <1>1, <1>2, <1>4 DEF Sound, loop
<1>6. AnswerOk'
  BY <1>1, <1>5 DEF AnswerOk, Running
<1>7. Timely'
  BY <1>1, <1>4 DEF GatherInv, Timely, Running
<1> QED BY <1>2, <1>3, <1>6, <1>7 DEF GatherInv

\* The core accepts a sound answer that was measured in time.
LEMMA SoundIsAccepted ==
  ASSUME GatherInv, Sound, answer.time <= Wall
  PROVE  Accepted(answer)
<1>1. /\ usage \in Usage /\ Money /\ ids \in Seq(GenIds) /\ Once(ids)
      /\ out.spend \in Nat /\ out.context \in Nat
  BY DEF GatherInv, LoopType
<1>2. Cardinality(Range(answer.ids)) = Len(answer.ids)
  BY <1>1, OnceCounts DEF Sound
<1>3. answer.sources \in Seq(Sources) /\ Once(answer.sources)
  BY DEF Sound
<1>4. Cardinality(Range(answer.sources)) = Len(answer.sources) /\ Range(answer.sources) \subseteq Sources
  BY <1>3, OnceCounts DEF Range
<1>5. /\ answer.usage = usage /\ answer.unsettled.context = out.context
      /\ answer.unsettled.spend = out.spend
  BY DEF Sound
<1>6. /\ answer.usage.context + answer.unsettled.context <= MaxContext
      /\ answer.usage.spend + answer.unsettled.spend <= MaxSpend /\ answer.usage.tools <= MaxTools
  BY <1>1, <1>5 DEF Money
<1>7. /\ answer.reason \in StopReasons(answer.status)
      /\ answer.evidence # "insufficient" => answer.sources # <<>> /\ answer.status = "completed"
  BY DEF Sound
<1> QED BY <1>2, <1>4, <1>6, <1>7, Zenon DEF Accepted

LEMMA CheckStep ==
  ASSUME GatherInv, Check
  PROVE  GatherInv'
<1>1. /\ pc = "check" /\ pc' = (IF Accepted(answer) THEN "accepted" ELSE "failed")
      /\ UNCHANGED <<clock, loop, settleBy, answer, provider>>
  BY DEF Check
<1>2. LoopType' /\ NotesOk' /\ Money' /\ Sound
  BY <1>1, Unmoved DEF GatherInv, AnswerOk
<1>3. Phase'
  BY <1>1 DEF Phase, Running
<1>4. Sound'
  BY <1>1, <1>2 DEF Sound, loop
<1>5. ~Accepted(answer) => answer'.time > Wall
  <2>1. answer.time \in Nat
    BY <1>2 DEF Sound
  <2> QED BY <1>1, <1>2, <2>1, SoundIsAccepted, Bounds
<1>6. AnswerOk'
  BY <1>1, <1>4, <1>5 DEF AnswerOk, Running
<1>7. Timely'
  BY <1>1 DEF GatherInv, Timely, Running
<1> QED BY <1>2, <1>3, <1>6, <1>7 DEF GatherInv

LEMMA TickKeeps ==
  ASSUME GatherInv, GatherTick
  PROVE  GatherInv'
<1>1. /\ pc \in {"post", "sleep", "stream", "settle"} /\ clock' = clock + 1
      /\ clock <= (IF pc = "settle" THEN settleBy ELSE LoopDeadline)
      /\ UNCHANGED <<pc, loop, settleBy, answer, provider>>
  BY DEF GatherTick
<1>2. LoopType' /\ NotesOk' /\ Money'
  BY <1>1, Unmoved DEF GatherInv, LoopType, Money, loop, provider
<1>3. Phase'
  BY <1>1 DEF GatherInv, Phase, Running, Settled, Unsettled, Affordable, loop, provider
<1>4. AnswerOk'
  BY <1>1 DEF GatherInv, AnswerOk, Sound, Running, loop, provider
<1>5. Timely'
  <2>1. pc' \in Running => clock' <= LoopDeadline + 1
    BY <1>1, Bounds DEF Running, GatherInv, LoopType
  <2>2. pc' \notin {"measure", "check", "accepted", "failed"}
    BY <1>1
  <2>3. answer'.status = "completed" => pc' # "settle"
    BY <1>1 DEF GatherInv, Timely
  <2> QED BY <1>1, <2>1, <2>2, <2>3 DEF GatherInv, Timely
<1> QED BY <1>2, <1>3, <1>4, <1>5 DEF GatherInv

-----------------------------------------------------------------------------
(***************************************************************************)
(* The invariant of the loop holds in every state of a recall.             *)
(***************************************************************************)

\* A fresh loop, one that has returned included, satisfies the invariant.
LEMMA FreshLoop ==
  ASSUME pc \in {"loop", "over"}, clock = 0, size = PromptSize,
         usage = [context |-> 0, spend |-> 0, tools |-> 0], out = NoRequest, ids = <<>>,
         notes = NoNotes, settleBy = Wall, answer = NoAnswer, charge = Nothing, billed = Nothing
  PROVE  GatherInv
<1>1. LoopType
  BY Bounds DEF LoopType, Usage, Amount, Nothing, NoRequest, Once
<1>2. NotesOk
  BY DEF NotesOk, NoNotes, Once
<1>3. Money
  BY Bounds DEF Money, Nothing, NoRequest
<1>4. Phase
  BY DEF Phase, Running, Settled, Nothing
<1>5. AnswerOk
  BY DEF AnswerOk, Running
<1>6. Timely
  <2>1. LoopDeadline \in Nat /\ answer.status # "completed"
    BY Bounds DEF LoopDeadline, NoAnswer
  <2> QED BY <2>1, Bounds DEF Timely
<1> QED BY <1>1, <1>2, <1>3, <1>4, <1>5, <1>6 DEF GatherInv

LEMMA GatherInitInv == RecallInit => GatherInv
BY FreshLoop DEF RecallInit, GatherInit

LEMMA GatherIsOverInv == GatherIsOver => GatherInv'
<1> SUFFICES ASSUME GatherIsOver PROVE GatherInv'
  OBVIOUS
<1>1. LoopType'
  BY Bounds DEF GatherIsOver, LoopType, Usage, Amount, Nothing, NoRequest, Once
<1>2. NotesOk'
  BY DEF GatherIsOver, NotesOk, NoNotes, Once
<1>3. Money'
  BY Bounds DEF GatherIsOver, Money, Nothing, NoRequest
<1>4. Phase'
  BY DEF GatherIsOver, Phase, Running
<1>5. AnswerOk'
  BY DEF GatherIsOver, AnswerOk, Running
<1>6. Timely'
  <2>1. answer'.status # "completed" /\ pc' = "over" /\ settleBy' = Wall
    BY DEF GatherIsOver, NoAnswer
  <2> QED BY <2>1, Bounds DEF Timely, Running
<1> QED BY <1>1, <1>2, <1>3, <1>4, <1>5, <1>6 DEF GatherInv

\* What leaves the loop alone keeps its invariant.
LEMMA LoopUntouched ==
  ASSUME GatherInv, UNCHANGED gatherVars
  PROVE  GatherInv'
<1>1. UNCHANGED <<pc, clock, size, usage, out, ids, notes, settleBy, answer, charge, billed>>
  BY DEF gatherVars, loop, provider
<1>2. LoopType' /\ NotesOk' /\ Money'
  BY <1>1 DEF GatherInv, LoopType, NotesOk, Money
<1>3. Phase'
  BY <1>1 DEF GatherInv, Phase, Settled, Unsettled, Affordable
<1>4. AnswerOk'
  BY <1>1 DEF GatherInv, AnswerOk, Sound
<1>5. Timely'
  BY <1>1 DEF GatherInv, Timely
<1> QED BY <1>2, <1>3, <1>4, <1>5 DEF GatherInv

\* A step of the loop under the recall, by the action that takes it.
LEMMA GatherStep ==
  ASSUME GatherInv, Own \/ Provider \/ Timers \/ GatherTick
  PROVE  GatherInv'
<1>1. CASE Own
  BY <1>1, DispatchStep, RetryStep, CallToolStep, TurnEndsStep, MeasureStep, CheckStep DEF Own
<1>2. CASE Provider
  <2>1. ASSUME NEW c \in Charges \cup {Nothing}, PostFails(c) PROVE GatherInv'
    BY <2>1, PostFailsStep
  <2>2. ASSUME NEW retryable \in BOOLEAN, PostRefused(retryable) PROVE GatherInv'
    BY <2>2, PostRefusedStep
  <2>3. ASSUME NEW id \in GenIds, NEW c \in Charges, PostFailsWithId(id, c) PROVE GatherInv'
    BY <2>3, PostFailsWithIdStep
  <2>4. ASSUME NEW id \in GenIds \cup {NoId}, NEW typed \in BOOLEAN, NEW c \in Charges,
               Streams(id, typed, c)
        PROVE  GatherInv'
    BY <2>4, StreamsStep
  <2>5. ASSUME NEW reason \in {"provider_error", "invalid_output"}, StreamFails(reason) PROVE GatherInv'
    BY <2>5, StreamEndsStep
  <2>6. ASSUME NEW calls \in Turns, NEW r \in Routes, Turn(calls, r) PROVE GatherInv'
    BY <2>6, TurnStep
  <2>7. CASE Settles \/ SettlementFails
    BY <2>7, SettlesStep, UnsettledStep
  <2> QED BY <1>2, <2>1, <2>2, <2>3, <2>4, <2>5, <2>6, <2>7 DEF Provider
<1>3. CASE Timers
  <2>1. ASSUME NEW c \in Charges \cup {Nothing}, PostTimesOut(c) PROVE GatherInv'
    BY <2>1, PostFailsStep
  <2>2. CASE SleepTimesOut \/ StreamTimesOut \/ SettlementTimesOut
    BY <2>2, SleepTimesOutStep, StreamEndsStep, UnsettledStep
  <2> QED BY <1>3, <2>1, <2>2 DEF Timers
<1>4. CASE GatherTick
  BY <1>4, TickKeeps
<1> QED BY <1>1, <1>2, <1>3, <1>4

\* Every other step of the recall leaves the loop alone or resets it.
LEMMA LoopOrReset ==
  ASSUME RecallNext
  PROVE  \/ UNCHANGED gatherVars
         \/ Gathering /\ (Own \/ Provider \/ Timers \/ GatherTick) /\ Elsewhere
         \/ GatherIsOver
<1>1. CASE EmbedQuery
  BY <1>1 DEF EmbedQuery, EmbedAnswers
<1>2. CASE OwnStep \/ ProviderStep \/ TimerStep \/ TickStep
  BY <1>2 DEF OwnStep, ProviderStep, TimerStep, TickStep
<1>3. CASE GatherErrors \/ GatherReturns
  BY <1>3 DEF GatherErrors, GatherReturns
<1>4. CASE \E c \in Kinds : Offers(c)
  BY <1>4 DEF Offers
<1>5. CASE Packs \/ Packed
  BY <1>5 DEF Packs, Packed
<1>6. CASE \E verified \in BOOLEAN : Answer(verified)
  BY <1>6 DEF Answer
<1> QED BY <1>1, <1>2, <1>3, <1>4, <1>5, <1>6 DEF RecallNext

LEMMA GatherInvStep == GatherInv /\ [RecallNext]_recallVars => GatherInv'
<1> SUFFICES ASSUME GatherInv, [RecallNext]_recallVars PROVE GatherInv'
  OBVIOUS
<1>1. CASE UNCHANGED recallVars
  <2>1. UNCHANGED gatherVars
    BY <1>1 DEF recallVars
  <2> QED BY <2>1, LoopUntouched
<1>2. CASE RecallNext
  BY <1>2, LoopOrReset, LoopUntouched, GatherStep, GatherIsOverInv
<1> QED BY <1>1, <1>2

LEMMA GatherInvImplies == GatherInv => NothingUnaccounted
<1> SUFFICES ASSUME GatherInv PROVE NothingUnaccounted
  OBVIOUS
<1>1. /\ usage.spend \in Nat /\ usage.context \in Nat /\ out.spend \in Nat /\ out.context \in Nat
      /\ billed.spend \in Nat /\ billed.context \in Nat
  BY DEF GatherInv, LoopType, Usage, Amount
<1>2. MaxSpend \in Nat /\ MaxContext \in Nat /\ Wall \in Nat
  BY Bounds
<1>3. /\ usage.spend + out.spend <= MaxSpend /\ usage.context + out.context <= MaxContext
      /\ billed.spend <= usage.spend + out.spend /\ billed.context <= usage.context + out.context
  BY DEF GatherInv, Money
<1>4. billed.spend <= MaxSpend /\ billed.context <= MaxContext
  BY <1>1, <1>2, <1>3
<1>5. ASSUME Sound
      PROVE  /\ answer.usage = usage /\ answer.unsettled.spend = out.spend
             /\ answer.unsettled.context = out.context /\ answer.status # "error"
             /\ answer.time \in Nat
  BY <1>5 DEF Sound
<1>6. pc \in {"check", "accepted"} =>
        /\ billed.spend <= answer.usage.spend + answer.unsettled.spend
        /\ billed.context <= answer.usage.context + answer.unsettled.context
  BY <1>3, <1>5 DEF GatherInv, AnswerOk
<1>7. answer.status = "error" => billed = Nothing
  <2>1. CASE pc \in Running \cup {"over"}
    BY <2>1 DEF GatherInv, AnswerOk, NoAnswer
  <2>2. CASE pc \in {"settle", "measure", "check", "accepted"}
    BY <2>2, <1>5 DEF GatherInv, AnswerOk
  <2>3. CASE pc = "failed"
    BY <2>3, <1>5 DEF GatherInv, AnswerOk
  <2> QED BY <2>1, <2>2, <2>3 DEF GatherInv, Phase
<1>8. ASSUME pc = "failed", answer.status # "error"
      PROVE  answer.time > Wall /\ answer.status # "completed"
  <2>1. Sound /\ answer.time > Wall
    BY <1>8 DEF GatherInv, AnswerOk
  <2>2. answer.status = "completed" => answer.time <= Wall
    BY <1>8 DEF GatherInv, Timely
  <2> QED BY <1>2, <1>5, <2>1, <2>2
<1> QED BY <1>4, <1>6, <1>7, <1>8 DEF NothingUnaccounted

\* The loop of a deep recall (deep_recall_openrouter.rs, gather_inner and run_loop)
\* stays within the caller's caps whatever the provider loses, refuses, answers
\* or bills up to a request's ceiling: everything billed is in the account of
\* the answer that the core accepts, an error is returned only when nothing was
\* billed, and the core rejects a result only when a settlement ended late,
\* never one of the model's finishes.  For every cap, price, retry limit,
\* deadline, set of turns and set of sources.
THEOREM SpendIsAccounted == FairSpec => []NothingUnaccounted
<1>1. RecallInit => GatherInv
  BY GatherInitInv
<1>2. GatherInv /\ [RecallNext]_recallVars => GatherInv'
  BY GatherInvStep
<1>3. GatherInv => NothingUnaccounted
  BY GatherInvImplies
<1> QED BY <1>1, <1>2, <1>3, PTL DEF FairSpec

-----------------------------------------------------------------------------
(***************************************************************************)
(* What a recall answers with.  A deep recall packs only once its gathering *)
(* has returned, what it returned claims evidence only for a finish, and    *)
(* nothing moves under an answer.                                          *)
(***************************************************************************)
ReplyInv ==
  /\ query.state = "post" => pc = "loop"
  /\ mode # "deep" => pc = "loop"
  /\ mode = "deep" /\ stage # "rank" => pc = "over"
  /\ pc = "over" /\ response # "error" => (verdict.evidence # "insufficient" => verdict.status = "completed")
  /\ response = "answers" =>
       /\ stage = "done" /\ items # <<>> /\ verdict.evidence # "insufficient"
       /\ Packing => ~Unresolved
       /\ mode = "deep" => pc = "over"

LEMMA ReplyInit == RecallInit => ReplyInv
BY DEF RecallInit, GatherInit, PackInit, ReplyInv

LEMMA UnresolvedUnmoved ==
  ASSUME UNCHANGED <<items, cand>>
  PROVE  Unresolved' = Unresolved
BY DEF Unresolved, Contradicts, Range

\* The steps that leave the packing and the answer alone.
LEMMA ReplyUnmoved ==
  ASSUME ReplyInv, UNCHANGED <<packVars, query, mode, verdict, response>>,
         pc' = pc \/ (Gathering /\ pc' # "over")
  PROVE  ReplyInv'
<1>1. UNCHANGED <<stage, items, cand>>
  BY DEF packVars
<1>2. Unresolved' = Unresolved
  BY <1>1, UnresolvedUnmoved
<1>3. CASE pc' = pc
  BY <1>1, <1>2, <1>3 DEF ReplyInv
<1>4. CASE Gathering /\ pc' # "over"
  <2>1. mode = "deep" /\ query.state = "done" /\ response = "none" /\ stage = "rank"
    BY <1>4 DEF Gathering, Embedded, ReplyInv
  <2> QED BY <1>1, <1>4, <2>1 DEF ReplyInv
<1> QED BY <1>3, <1>4

\* No step of the loop itself ends in "over".
LEMMA StaysInLoop ==
  ASSUME pc # "over", Own \/ Provider \/ Timers \/ GatherTick
  PROVE  pc' # "over"
<1>1. CASE Own
  BY <1>1 DEF Own, Dispatch, Retry, CallTool, TurnEnds, Measure, Check, Ends
<1>2. CASE Provider
  BY <1>2 DEF Provider, PostFails, PostRefused, PostFailsWithId, Streams, StreamFails, Turn, Settles,
              SettlementFails, Ends, Unavailable
<1>3. CASE Timers
  BY <1>3 DEF Timers, PostTimesOut, SleepTimesOut, StreamTimesOut, SettlementTimesOut, Ends
<1>4. CASE GatherTick
  BY <1>4 DEF GatherTick
<1> QED BY <1>1, <1>2, <1>3, <1>4

LEMMA ReplyStep == GatherInv /\ ReplyInv /\ [RecallNext]_recallVars => ReplyInv'
<1> SUFFICES ASSUME GatherInv, ReplyInv, [RecallNext]_recallVars PROVE ReplyInv'
  OBVIOUS
<1>1. CASE UNCHANGED recallVars
  <2>1. UNCHANGED <<packVars, query, mode, verdict, response>> /\ pc' = pc
    BY <1>1 DEF recallVars, gatherVars
  <2> QED BY <2>1, ReplyUnmoved
<1>2. CASE EmbedQuery
  <2>1. PICK outcome \in Outcomes, body \in Bodies : EmbedAnswers(outcome, body)
    BY <1>2 DEF EmbedQuery
  <2>2. /\ query.state = "post" /\ response' \in {"none", "error"}
        /\ pc' = pc /\ stage' = stage /\ mode' = mode
    BY <2>1 DEF EmbedAnswers, gatherVars, packVars
  <2>3. pc = "loop" /\ (mode = "deep" => stage = "rank")
    BY <2>2 DEF ReplyInv
  <2> QED BY <2>2, <2>3 DEF ReplyInv
<1>3. CASE OwnStep \/ ProviderStep \/ TimerStep \/ TickStep
  <2>1. Gathering /\ (Own \/ Provider \/ Timers \/ GatherTick) /\ Elsewhere
    BY <1>3 DEF OwnStep, ProviderStep, TimerStep, TickStep
  <2>2. pc' # "over"
    BY <2>1, StaysInLoop DEF Gathering
  <2>3. UNCHANGED <<packVars, query, mode, verdict, response>>
    BY <2>1 DEF Elsewhere
  <2> QED BY <2>1, <2>2, <2>3, ReplyUnmoved
<1>4. CASE GatherErrors \/ GatherReturns
  <2>1. /\ pc \in {"failed", "accepted"} /\ pc' = "over"
        /\ UNCHANGED <<stage, query, mode>>
    BY <1>4 DEF GatherErrors, GatherReturns, GatherIsOver, packVars
  <2>2. query.state # "post" /\ mode = "deep" /\ response # "answers"
    BY <2>1 DEF ReplyInv
  <2>3. CASE GatherErrors
    BY <2>1, <2>2, <2>3 DEF GatherErrors, ReplyInv
  <2>4. CASE GatherReturns
    <3>1. Sound
      BY <2>4 DEF GatherReturns, GatherInv, AnswerOk
    <3>2. /\ response' = response /\ verdict'.status = answer.status
          /\ verdict'.evidence = answer.evidence
      BY <2>4 DEF GatherReturns
    <3>3. verdict'.evidence # "insufficient" => verdict'.status = "completed"
      BY <3>1, <3>2 DEF Sound
    <3> QED BY <2>1, <2>2, <3>2, <3>3 DEF ReplyInv
  <2> QED BY <1>4, <2>3, <2>4
<1>5. CASE \E c \in Kinds : Offers(c)
  <2>1. /\ stage = "rank" /\ stage' = stage
        /\ UNCHANGED <<pc, query, mode, verdict, response>>
    BY <1>5 DEF Offers, Offer, gatherVars
  <2> QED BY <2>1 DEF ReplyInv
<1>6. CASE Packs \/ Packed
  <2>1. UNCHANGED <<pc, query, mode, verdict, response>>
    BY <1>6 DEF Packs, Packed, gatherVars
  <2>2. stage # "done"
    BY <1>6 DEF Packs, Packed, BeginPack, Rerank, PackNext, Defer, Fill, FirstPassEnds, FillDeferred,
                SecondPassEnds, CompleteChunks, EndPack
  <2>3. mode = "deep" => pc = "over"
    <3>1. CASE Packs
      BY <3>1 DEF Packs, MayPack
    <3>2. CASE Packed
      <4>1. stage # "rank"
        BY <3>2 DEF Packed, PackNext, Defer, Fill, FirstPassEnds, FillDeferred,
                    SecondPassEnds, CompleteChunks, EndPack
      <4> QED BY <4>1 DEF ReplyInv
    <3> QED BY <1>6, <3>1, <3>2
  <2> QED BY <2>1, <2>2, <2>3 DEF ReplyInv
<1>7. CASE \E verified \in BOOLEAN : Answer(verified)
  <2>1. PICK verified \in BOOLEAN : Answer(verified)
    BY <1>7
  <2>2. /\ stage = "done" /\ response = "none" /\ UNCHANGED <<pc, stage, items, cand, query, mode, verdict>>
        /\ response' = "answers" => ~Abstains
    BY <2>1 DEF Answer, gatherVars, packVars
  <2>3. Unresolved' = Unresolved
    BY <2>2, UnresolvedUnmoved
  <2>4. response' = "answers" => /\ items # <<>> /\ verdict.evidence # "insufficient"
                                 /\ Packing => ~Unresolved
    BY <2>2 DEF Abstains
  <2> QED BY <2>2, <2>3, <2>4 DEF ReplyInv
<1> QED BY <1>1, <1>2, <1>3, <1>4, <1>5, <1>6, <1>7 DEF RecallNext

\* A recall (service.rs, recall and deep recall) that answers instead of
\* abstaining packed items, none of them in an unresolved contradiction when
\* abstention is on, and a deep one rests on a finish of the model that claims
\* evidence: a cap, a failed provider or an empty gathering is never answered.
\* For every set of candidates, budget and limit.
THEOREM AnswersRestOnEvidence == FairSpec => []AnswersOnlyFromEvidence
<1>1. RecallInit => GatherInv /\ ReplyInv
  BY GatherInitInv, ReplyInit
<1>2. GatherInv /\ ReplyInv /\ [RecallNext]_recallVars => GatherInv' /\ ReplyInv'
  BY GatherInvStep, ReplyStep
<1>3. ReplyInv => AnswersOnlyFromEvidence
  BY DEF ReplyInv, AnswersOnlyFromEvidence
<1> QED BY <1>1, <1>2, <1>3, PTL DEF FairSpec
=============================================================================
