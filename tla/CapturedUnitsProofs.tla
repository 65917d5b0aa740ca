------------------------ MODULE CapturedUnitsProofs ------------------------
(***************************************************************************)
(* Proofs about the memory units of a captured identity, for any number of *)
(* episodes, channels, marks, units and bodies, and however many jobs,     *)
(* cross-checks and requests of users overlap: what promotes a capture,    *)
(* what brings a closed unit back, and what a forget leaves.               *)
(***************************************************************************)
EXTENDS CapturedUnits, FiniteSetTheorems, TLAPS

-----------------------------------------------------------------------------
(***************************************************************************)
(* Units.                                                                  *)
(***************************************************************************)

States == {"absent", "candidate", "active", "quarantined", "superseded", "invalidated",
           "deleted"}

\* What a writer may leave of a unit: its content, whence it came and when it was true.
SameContent(v, u) ==
    v.past = u.past /\ v.body = u.body /\ v.source = u.source /\ v.family = u.family

LEMMA ClosedUnit ==
    ASSUME NEW u \in Unit, NEW s \in States
    PROVE  LET c == Closed(u, s)
           IN  c \in Unit /\ SameContent(c, u) /\ c.state = s /\ ~c.open
               /\ c.witnesses = u.witnesses
BY DEF Unit, Closed, SameContent, States

\* What a re-capture leaves of the unit its plan names.
Reopened(u, s) == [u EXCEPT !.state = s, !.open = TRUE]

LEMMA ReopenedUnit ==
    ASSUME NEW u \in Unit, NEW s \in States
    PROVE  LET c == Reopened(u, s)
           IN  c \in Unit /\ SameContent(c, u) /\ c.state = s /\ c.open
               /\ c.witnesses = u.witnesses
BY DEF Unit, Reopened, SameContent, States

LEMMA ErasedUnit ==
    ASSUME NEW u \in Unit
    PROVE  LET c == Erased(u)
           IN  /\ c \in Unit /\ c.state = "deleted" /\ ~c.open /\ c.past = u.past
               /\ c.body = "" /\ c.source = u.source /\ c.family = "none" /\ c.witnesses = {}
BY DEF Unit, Closed, Erased

LEMMA ReplacementUnit ==
    ASSUME NEW u \in Unit, NEW b \in Corrections
    PROVE  LET c == Replacement(u, b)
           IN  /\ c \in Unit /\ c.state = "active" /\ c.open = u.open /\ c.past = u.past
               /\ c.body = b /\ c.source = "none" /\ c.family = u.family
BY DEF Unit, Replacement

LEMMA RemainderUnit ==
    ASSUME NEW u \in Unit
    PROVE  LET c == Remainder(u)
           IN  /\ c \in Unit /\ c.state = "active" /\ c.open = u.open /\ c.past
               /\ c.body = u.body /\ c.source = u.source /\ c.family = u.family
BY DEF Unit, Remainder

LEMMA TombstoneUnit ==
    ASSUME NEW u \in Unit
    PROVE  LET c == Tombstone(u)
           IN  /\ c \in Unit /\ c.state = "invalidated" /\ c.open = u.open /\ c.past = u.past
               /\ c.body = "" /\ c.source = u.source /\ c.family = u.family
BY DEF Unit, Tombstone

LEMMA MintedUnit ==
    ASSUME NEW e \in Episodes
    PROVE  LET c == Minted(e)
           IN  /\ c \in Unit /\ c.state = "candidate" /\ c.open /\ ~c.past
               /\ c.body = BodyOf[e] /\ c.source = e /\ c.family = FamilyOf[e]
               /\ c.witnesses = {}
<1>1. 0 \in 0..Zero
    BY BoundAssumption DEF BoundAssumption, Zero
<1> QED BY <1>1 DEF Unit, Minted, Families

\* A cross-check's judgement leaves what a unit says and where it came from.
LEMMA JudgedUnit ==
    ASSUME NEW U \in [Ids -> Unit], NEW i \in Eligible(U)
    PROVE  LET c == Judged(U, i)
           IN  /\ c \in Unit /\ SameContent(c, U[i]) /\ c.open = U[i].open
               /\ c.witnesses = Witnessed(U, i)
               /\ c.state \in {"candidate", "active", "quarantined"}
               /\ c.state = "active" => U[i].state = "active" \/ Witnessed(U, i) # {}
<1>0. U[i] \in Unit /\ U[i].state \in {"candidate", "active"}
    BY DEF Eligible
<1>1. Zero \in Nat /\ \A c \in 0..Zero : Cut(c) \in 0..Zero
    BY BoundAssumption DEF BoundAssumption, Zero, Cut
<1>2. Witnessed(U, i) \in SUBSET {"agreement", "outcome"}
    BY <1>0 DEF Witnessed, Unit
<1> DEFINE s == IF Condemned(U, i) THEN "quarantined"
                ELSE IF Promotes(U, i) THEN "active" ELSE U[i].state
           d == IF Condemned(U, i) THEN Zero
                ELSE IF Told(i, "failure") THEN Cut(U[i].confidence) ELSE U[i].confidence
           w == Witnessed(U, i)
<1>3. Judged(U, i) = [U[i] EXCEPT !.state = s, !.confidence = d, !.witnesses = w]
    BY DEF Judged
<1>4. /\ s \in {"candidate", "active", "quarantined"}
      /\ s = "active" => U[i].state = "active" \/ Witnessed(U, i) # {}
    BY <1>0 DEF Promotes
<1>5. d \in 0..Zero
    <2>1. U[i].confidence \in 0..Zero
        BY <1>0 DEF Unit
    <2>2. Zero \in 0..Zero /\ Cut(U[i].confidence) \in 0..Zero
        BY <1>1, <2>1
    <2> QED BY <2>1, <2>2
<1> HIDE DEF s, d, w
<1>6. w \in SUBSET {"agreement", "outcome"} /\ w = Witnessed(U, i)
    BY <1>2 DEF w
<1>7. LET c == [U[i] EXCEPT !.state = s, !.confidence = d, !.witnesses = w]
      IN  c \in Unit /\ SameContent(c, U[i]) /\ c.open = U[i].open /\ c.witnesses = w
          /\ c.state = s
    BY <1>0, <1>4, <1>5, <1>6 DEF Unit, SameContent
<1> QED BY <1>3, <1>4, <1>6, <1>7

\* What a cross-check writes over the unit it is about.
Overlaid(u, v) ==
    [u EXCEPT !.state = v.state, !.confidence = v.confidence,
              !.witnesses = v.witnesses, !.family = v.family]

LEMMA AppliedUnit ==
    ASSUME NEW u \in Unit, NEW v \in Unit
    PROVE  LET c == Overlaid(u, v)
           IN  /\ c \in Unit /\ c.open = u.open /\ c.past = u.past /\ c.body = u.body
               /\ c.source = u.source /\ c.state = v.state /\ c.witnesses = v.witnesses
               /\ c.family = v.family
BY DEF Unit, Overlaid

LEMMA AbsentUnit ==
    /\ Absent \in Unit /\ Absent.state = "absent" /\ ~Absent.open /\ Absent.body = ""
    /\ Absent.source = "none" /\ Absent.family = "none" /\ Absent.witnesses = {}
<1>1. 0 \in 0..Zero
    BY BoundAssumption DEF BoundAssumption, Zero
<1> QED BY <1>1 DEF Unit, Absent

\* Rows of memory_unit that are not used yet.
LEMMA OneFresh ==
    ASSUME Room(1)
    PROVE  FirstFresh \in Ids /\ ~Present(FirstFresh)
<1>1. Fresh(1) # {}
    BY FS_EmptySet DEF Room
<1>2. FirstFresh \in Fresh(1)
    BY <1>1 DEF FirstFresh
<1> QED BY <1>2 DEF Fresh

LEMMA TwoFresh ==
    ASSUME Room(2)
    PROVE  /\ FirstFresh \in Ids /\ ~Present(FirstFresh)
           /\ FirstFresh + 1 \in Ids /\ ~Present(FirstFresh + 1)
<1> DEFINE n == Cardinality({k \in Ids : Present(k)})
<1>1. n \in Nat
    <2>1. IsFiniteSet(Ids)
        BY BoundAssumption, FS_Interval DEF BoundAssumption, Ids
    <2>2. {k \in Ids : Present(k)} \subseteq Ids
        OBVIOUS
    <2>3. IsFiniteSet({k \in Ids : Present(k)})
        BY <2>1, <2>2, FS_Subset
    <2> QED BY <2>3, FS_CardinalityType
<1>2. /\ \A i \in Fresh(2) : i \in Ids /\ ~Present(i) /\ (i = 1 + n \/ i = 2 + n)
      /\ \A i \in Ids : ~Present(i) /\ i = 1 + n => i \in Fresh(1)
      /\ \A i \in Fresh(1) : i \in Ids /\ ~Present(i) /\ i = 1 + n
    BY DEF Fresh
<1> HIDE DEF n
<1>3. 1 + n \in Fresh(2) /\ 2 + n \in Fresh(2)
    <2>1. ASSUME NEW a, Fresh(2) \subseteq {a}
          PROVE  FALSE
        <3>1. Fresh(2) = {} \/ Fresh(2) = {a}
            BY <2>1
        <3>2. Cardinality({}) = 0 /\ Cardinality({a}) = 1
            BY FS_EmptySet, FS_Singleton
        <3> QED BY <3>1, <3>2 DEF Room
    <2>2. 1 + n \notin Fresh(2) => Fresh(2) \subseteq {2 + n}
        BY <1>2
    <2>3. 2 + n \notin Fresh(2) => Fresh(2) \subseteq {1 + n}
        BY <1>2
    <2> QED BY <2>1, <2>2, <2>3
<1>4. FirstFresh \in Fresh(1)
    BY <1>2, <1>3 DEF FirstFresh
<1>5. FirstFresh = 1 + n /\ FirstFresh + 1 = 2 + n
    BY <1>1, <1>2, <1>4
<1> QED BY <1>2, <1>3, <1>4, <1>5

-----------------------------------------------------------------------------
(***************************************************************************)
(* The inductive invariant.                                                *)
(***************************************************************************)

Shapes ==
    /\ TypeOK
    /\ verdict = [p \in Processes |-> verdict[p]]

EdgesArePresent == \A r \in edges : Present(r[1]) /\ Present(r[2])

\* A plan that writes by id does so to a row that exists; a plan that only mints names none.
PlansArePresent ==
    \A e \in Episodes :
        /\ write[e].kind \in {"supersede", "reinforce"} => write[e].id \in Ids /\ Present(write[e].id)
        /\ write[e].kind = "mint" => write[e].id \notin Ids

VerdictsArePresent ==
    \A p \in Processes : \A i \in DOMAIN verdict[p] :
        Present(i) /\ verdict[p][i].state \in {"candidate", "active", "quarantined"}

ErasedIsEmpty ==
    \A i \in Ids :
        /\ units[i].state \in {"absent", "deleted"} => units[i].body = "" /\ ~units[i].open
        /\ ~Present(i) => units[i].source = "none"

\* A capture with content has its marker, and no cross-check under way changes it.
CaptureIsMarked ==
    \A i \in Ids : units[i].body # "" =>
        /\ units[i].source # "none" => units[i].family # "none"
        /\ \A p \in Processes :
              i \in DOMAIN verdict[p] => verdict[p][i].family = units[i].family

Capture(i) == units[i].source # "none" /\ ~units[i].past /\ units[i].body # ""

\* What makes capture i active now, or once a plan or a cross-check under way is written.
Claimed(i) ==
    \/ units[i].state = "active" \/ units[i].witnesses # {}
    \/ \E e \in Episodes :
          write[e].kind = "reinforce" /\ write[e].id = i /\ write[e].state = "active"
    \/ \E p \in Processes :
          /\ i \in DOMAIN verdict[p]
          /\ verdict[p][i].state = "active" \/ verdict[p][i].witnesses # {}

\* Another channel said what i says, and has a different marker whatever is written.
Seconds(j, i) ==
    /\ Present(j) /\ units[j].family # units[i].family
    /\ units[j].body \in {units[i].body, ""}
    /\ \A p \in Processes :
          j \in DOMAIN verdict[p] => verdict[p][j].family # units[i].family

ClaimsAreEarned ==
    \A i \in Ids : Capture(i) /\ Claimed(i) =>
        Told(i, "success") \/ \E j \in Ids \ {i} : Seconds(j, i)

CaptureInv ==
    /\ Shapes /\ EdgesArePresent /\ PlansArePresent /\ VerdictsArePresent
    /\ ErasedIsEmpty /\ CaptureIsMarked /\ ClaimsAreEarned

-----------------------------------------------------------------------------
(***************************************************************************)
(* What the writers do to the rows: each lemma names the new rows and says *)
(* what becomes of the others.                                             *)
(***************************************************************************)
\* A commit updates the row its plan names and mints at most one row, n.
LEMMA CommitWrites ==
    ASSUME Shapes, PlansArePresent, NEW e \in Episodes, Commit(e)
    PROVE  \E n :
             /\ \A i \in Ids \ {n} :
                  units'[i] = IF i # write[e].id THEN units[i]
                              ELSE IF write[e].kind = "supersede" THEN Closed(units[i], "superseded")
                              ELSE IF write[e].kind = "reinforce" THEN Reopened(units[i], write[e].state)
                              ELSE units[i]
             /\ n \in Ids => /\ ~Present(n) /\ units'[n] = Minted(e) /\ Mints(write[e])
                             /\ e \notin forgotten /\ ~TombstoneOpen
             /\ \/ edges' = edges
                \/ /\ n \in Ids /\ write[e].kind = "supersede"
                   /\ edges' = edges \cup {<<n, write[e].id>>}
             /\ units' = [i \in Ids |-> units'[i]]
<1> DEFINE w == write[e]
           U == Updated(w)
<1>0. U = [i \in Ids |-> U[i]]
    BY DEF Updated
<1>1. \A i \in Ids :
        U[i] = IF i # w.id THEN units[i]
               ELSE IF w.kind = "supersede" THEN Closed(units[i], "superseded")
               ELSE IF w.kind = "reinforce" THEN Reopened(units[i], w.state)
               ELSE units[i]
    BY DEF Updated, Reopened
<1>2. CASE Mints(w) /\ e \notin forgotten
    <2>1. PICK n : n = FirstFresh
        OBVIOUS
    <2>2. n \in Ids /\ ~Present(n)
        BY <1>2, <2>1, OneFresh DEF Commit
    <2>3. units' = [U EXCEPT ![n] = Minted(e)]
        BY <1>2, <2>1 DEF Commit
    <2>4. edges' = IF w.kind = "supersede" THEN edges \cup {<<n, w.id>>} ELSE edges
        BY <1>2, <2>1 DEF Commit
    <2>5. ~TombstoneOpen
        BY <1>2 DEF Commit, Conflict, BlockedByTombstone, TombstoneOpen
    <2>6. units'[n] = Minted(e) /\ (\A i \in Ids \ {n} : units'[i] = U[i])
          /\ units' = [i \in Ids |-> units'[i]]
        <3> HIDE DEF U
        <3> QED BY <1>0, <2>2, <2>3
    <2> HIDE DEF U
    <2> QED BY <1>1, <1>2, <2>2, <2>4, <2>5, <2>6
<1>3. CASE ~(Mints(w) /\ e \notin forgotten)
    <2>1. units' = U /\ edges' = edges
        BY <1>3 DEF Commit
    <2>2. 0 \notin Ids
        BY DEF Ids
    <2> HIDE DEF U
    <2>3. \A i \in Ids \ {0} :
            units'[i] = IF i # w.id THEN units[i]
                        ELSE IF w.kind = "supersede" THEN Closed(units[i], "superseded")
                        ELSE IF w.kind = "reinforce" THEN Reopened(units[i], w.state)
                        ELSE units[i]
        BY <1>1, <2>1
    <2>4. units' = [i \in Ids |-> units'[i]]
        BY <1>0, <2>1
    <2> QED BY <2>1, <2>2, <2>3, <2>4
<1> QED BY <1>2, <1>3

\* A cross-check rewrites the rows it judged, all of them open, or none.
LEMMA ApplyWrites ==
    ASSUME Shapes, NEW p \in Processes, CheckApply(p)
    PROVE  /\ units' = [i \in Ids |-> units'[i]]
           /\ \A i \in Ids :
                \/ units'[i] = units[i]
                \/ /\ i \in DOMAIN verdict[p] /\ units[i].open
                   /\ units'[i] = [units[i] EXCEPT !.state = verdict[p][i].state,
                                                   !.confidence = verdict[p][i].confidence,
                                                   !.witnesses = verdict[p][i].witnesses,
                                                   !.family = verdict[p][i].family]
<1>1. CASE \A i \in DOMAIN verdict[p] : units[i].open
    <2>1. units' = Applied(p)
        BY <1>1 DEF CheckApply
    <2> QED BY <1>1, <2>1 DEF Applied
<1>2. CASE ~\A i \in DOMAIN verdict[p] : units[i].open
    <2>1. units' = units
        BY <1>2 DEF CheckApply
    <2> QED BY <2>1 DEF Shapes, TypeOK
<1> QED BY <1>1, <1>2

\* A correction closes its row and adds two.
LEMMA CorrectWrites ==
    ASSUME Shapes, ErasedIsEmpty, NEW k \in Ids, NEW b \in Corrections, Correct(k, b)
    PROVE  \E n, m \in Ids :
             /\ n # m /\ ~Present(n) /\ ~Present(m) /\ Present(k) /\ units[k].open
             /\ units' = [i \in Ids |-> units'[i]]
             /\ units'[k] = Closed(units[k], "superseded")
             /\ units'[n] = Replacement(units[k], b) /\ units'[m] = Remainder(units[k])
             /\ \A i \in Ids \ {k, n, m} : units'[i] = units[i]
             /\ edges' = edges \cup {<<n, k>>, <<m, k>>}
<1>1. PICK n : n = FirstFresh
    OBVIOUS
<1>2. PICK m : m = n + 1
    OBVIOUS
<1>3. n \in Ids /\ m \in Ids /\ ~Present(n) /\ ~Present(m)
    BY <1>1, <1>2, TwoFresh DEF Correct
<1>4. n # m
    BY <1>2, <1>3 DEF Ids
<1>5. units[k].open /\ Present(k)
    BY DEF Correct, Correctable, ErasedIsEmpty, Present
<1>6. PICK c, r, s : /\ c = Closed(units[k], "superseded")
                     /\ r = Replacement(units[k], b) /\ s = Remainder(units[k])
    OBVIOUS
<1>7. units' = [units EXCEPT ![k] = c, ![n] = r, ![m] = s]
    BY <1>1, <1>2, <1>6 DEF Correct
<1>8. edges' = edges \cup {<<n, k>>, <<m, k>>}
    BY <1>1, <1>2 DEF Correct
<1>9. units = [i \in Ids |-> units[i]] /\ k # n /\ k # m
    BY <1>3, <1>5 DEF Shapes, TypeOK
<1>10. /\ units' = [i \in Ids |-> units'[i]]
       /\ units'[k] = c /\ units'[n] = r /\ units'[m] = s
       /\ \A i \in Ids \ {k, n, m} : units'[i] = units[i]
    BY <1>3, <1>4, <1>7, <1>9
<1> QED BY <1>3, <1>4, <1>5, <1>6, <1>8, <1>10

\* An invalidation closes its row and adds a tombstone.
LEMMA InvalidateWrites ==
    ASSUME Shapes, ErasedIsEmpty, NEW k \in Ids, Invalidate(k)
    PROVE  \E n \in Ids :
             /\ ~Present(n) /\ Present(k) /\ units[k].open
             /\ units' = [i \in Ids |-> units'[i]]
             /\ units'[k] = Closed(units[k], "superseded")
             /\ units'[n] = Tombstone(units[k])
             /\ \A i \in Ids \ {k, n} : units'[i] = units[i]
             /\ edges' = edges \cup {<<n, k>>}
<1>1. PICK n : n = FirstFresh
    OBVIOUS
<1>2. n \in Ids /\ ~Present(n)
    BY <1>1, OneFresh DEF Invalidate
<1>3. units[k].open /\ Present(k)
    BY DEF Invalidate, ErasedIsEmpty, Present
<1>4. PICK c, r : c = Closed(units[k], "superseded") /\ r = Tombstone(units[k])
    OBVIOUS
<1>5. units' = [units EXCEPT ![k] = c, ![n] = r]
    BY <1>1, <1>4 DEF Invalidate
<1>6. edges' = edges \cup {<<n, k>>}
    BY <1>1 DEF Invalidate
<1>7. units = [i \in Ids |-> units[i]] /\ k # n
    BY <1>2, <1>3 DEF Shapes, TypeOK
<1>8. /\ units' = [i \in Ids |-> units'[i]]
      /\ units'[k] = c /\ units'[n] = r
      /\ \A i \in Ids \ {k, n} : units'[i] = units[i]
    BY <1>2, <1>5, <1>7
<1> QED BY <1>2, <1>3, <1>4, <1>6, <1>8

\* A forget erases rows that are there, and only those.
LEMMA EraseWrites ==
    ASSUME NEW S, units' = Erase(S)
    PROVE  /\ units' = [i \in Ids |-> units'[i]]
           /\ \A i \in Ids :
                \/ units'[i] = units[i]
                       /\ (i \in S => units[i].state \in {"absent", "deleted"})
                \/ i \in S /\ Present(i) /\ units'[i] = Erased(units[i])
BY DEF Erase, Present

-----------------------------------------------------------------------------
(***************************************************************************)
(* What every step leaves of a row that is there, and what a row is that   *)
(* it adds.                                                                *)
(***************************************************************************)
RowKept(i) ==
    /\ units'[i] \in Unit /\ units'[i].state # "absent"
    /\ units'[i].past = units[i].past /\ units'[i].source = units[i].source
    /\ units'[i].body \in {units[i].body, ""}
    /\ units'[i].body # "" => units'[i].family = units[i].family
    /\ units'[i].body # units[i].body => units'[i].family = "none"
    /\ \/ units'[i].family \in {units[i].family, "none"}
       \/ \E p \in Processes : i \in DOMAIN verdict[p] /\ units'[i].family = verdict[p][i].family
    /\ units'[i].state = "deleted" => units'[i].body = "" /\ ~units'[i].open
    /\ units'[i].body # "" /\ (units'[i].state = "active" \/ units'[i].witnesses # {})
         => Claimed(i)

RowNew(i) ==
    /\ units'[i] \in Unit /\ units'[i].state \notin {"absent", "deleted"}
    /\ units'[i].source # "none" /\ units'[i].body # "" =>
         /\ units'[i].family # "none"
         /\ ~units'[i].past => units'[i].state # "active" /\ units'[i].witnesses = {}

LEMMA SameRow ==
    ASSUME CaptureInv, NEW i \in Ids, Present(i), units'[i] = units[i]
    PROVE  RowKept(i)
BY DEF CaptureInv, Shapes, TypeOK, ErasedIsEmpty, Present, RowKept, Claimed

LEMMA ClosedRow ==
    ASSUME CaptureInv, NEW i \in Ids, Present(i), units'[i] = Closed(units[i], "superseded")
    PROVE  RowKept(i)
<1>1. units[i] \in Unit
    BY DEF CaptureInv, Shapes, TypeOK
<1>2. "superseded" \in States
    BY DEF States
<1>3. PICK c : c = Closed(units[i], "superseded")
    OBVIOUS
<1>4. /\ c \in Unit /\ SameContent(c, units[i]) /\ c.state = "superseded" /\ ~c.open
      /\ c.witnesses = units[i].witnesses
    BY <1>1, <1>2, <1>3, ClosedUnit
<1> QED BY <1>3, <1>4 DEF SameContent, RowKept, Claimed

LEMMA ErasedRow ==
    ASSUME CaptureInv, NEW i \in Ids, Present(i), units'[i] = Erased(units[i])
    PROVE  RowKept(i)
<1>1. units[i] \in Unit
    BY DEF CaptureInv, Shapes, TypeOK
<1>2. PICK c : c = Erased(units[i])
    OBVIOUS
<1>3. /\ c \in Unit /\ c.state = "deleted" /\ ~c.open /\ c.past = units[i].past
      /\ c.body = "" /\ c.source = units[i].source /\ c.family = "none"
    BY <1>1, <1>2, ErasedUnit
<1> QED BY <1>2, <1>3 DEF RowKept

LEMMA ReopenedRow ==
    ASSUME CaptureInv, NEW e \in Episodes, write[e].kind = "reinforce",
           NEW i \in Ids, i = write[e].id, units'[i] = Reopened(units[i], write[e].state)
    PROVE  RowKept(i)
<1>1. units[i] \in Unit /\ write[e].state \in {"candidate", "active"}
    BY DEF CaptureInv, Shapes, TypeOK, Write
<1>2. write[e].state \in States
    BY <1>1 DEF States
<1>3. PICK c, s : s = write[e].state /\ c = Reopened(units[i], s)
    OBVIOUS
<1>4. /\ c \in Unit /\ SameContent(c, units[i]) /\ c.state = s /\ c.open
      /\ c.witnesses = units[i].witnesses
    <2>1. s \in States
        BY <1>2, <1>3
    <2> QED BY <1>1, <1>3, <2>1, ReopenedUnit
<1>5. units'[i] = c
    BY <1>3
<1>6. c.state = "active" \/ c.witnesses # {} => Claimed(i)
    BY <1>3, <1>4 DEF Claimed
<1>7. c.state # "absent" /\ c.state # "deleted"
    BY <1>1, <1>3, <1>4
<1> HIDE DEF Claimed
<1> QED BY <1>4, <1>5, <1>6, <1>7 DEF SameContent, RowKept

LEMMA AppliedRow ==
    ASSUME CaptureInv, NEW p \in Processes, NEW i \in Ids, i \in DOMAIN verdict[p],
           units[i].open,
           units'[i] = [units[i] EXCEPT !.state = verdict[p][i].state,
                                        !.confidence = verdict[p][i].confidence,
                                        !.witnesses = verdict[p][i].witnesses,
                                        !.family = verdict[p][i].family]
    PROVE  RowKept(i)
<1>1. PICK v : v = verdict[p][i]
    OBVIOUS
<1>2. PICK u : u = units[i]
    OBVIOUS
<1>3. u \in Unit /\ v \in Unit
    BY <1>1, <1>2 DEF CaptureInv, Shapes, TypeOK
<1>4. PICK c : c = Overlaid(u, v)
    OBVIOUS
<1>5. /\ c \in Unit /\ c.open = u.open /\ c.past = u.past
      /\ c.body = u.body /\ c.source = u.source /\ c.state = v.state
      /\ c.witnesses = v.witnesses /\ c.family = v.family
    BY <1>3, <1>4, AppliedUnit
<1>6. v.state \in {"candidate", "active", "quarantined"}
    BY <1>1 DEF CaptureInv, VerdictsArePresent
<1>7. units[i].body # "" => v.family = units[i].family
    BY <1>1 DEF CaptureInv, CaptureIsMarked
<1>8. v.state = "active" \/ v.witnesses # {} => Claimed(i)
    BY <1>1 DEF Claimed
<1>9. units'[i] = c
    BY <1>1, <1>2, <1>4, Zenon DEF Overlaid
<1> QED BY <1>1, <1>2, <1>5, <1>6, <1>7, <1>8, <1>9 DEF RowKept

LEMMA MintedRow ==
    ASSUME CaptureInv, NEW e \in Episodes, NEW i \in Ids, units'[i] = Minted(e)
    PROVE  RowNew(i)
<1>1. PICK c : c = Minted(e)
    OBVIOUS
<1>2. /\ c \in Unit /\ c.state = "candidate" /\ c.family = FamilyOf[e] /\ c.witnesses = {}
    BY <1>1, MintedUnit
<1> QED BY <1>1, <1>2, BodiesAssumption DEF RowNew, BodiesAssumption

LEMMA DerivedRows ==
    ASSUME CaptureInv, NEW k \in Ids, Present(k), NEW i \in Ids
    PROVE  /\ \A b \in Corrections : units'[i] = Replacement(units[k], b) => RowNew(i)
           /\ units'[i] = Remainder(units[k]) => RowNew(i)
           /\ units'[i] = Tombstone(units[k]) => RowNew(i)
<1>1. units[k] \in Unit
    BY DEF CaptureInv, Shapes, TypeOK
<1>2. ASSUME NEW b \in Corrections, units'[i] = Replacement(units[k], b)
      PROVE  RowNew(i)
    <2>1. PICK c : c = Replacement(units[k], b)
        OBVIOUS
    <2>2. c \in Unit /\ c.state = "active" /\ c.source = "none"
        BY <1>1, <2>1, ReplacementUnit
    <2> QED BY <1>2, <2>1, <2>2 DEF RowNew
<1>3. ASSUME units'[i] = Remainder(units[k])
      PROVE  RowNew(i)
    <2>1. PICK c : c = Remainder(units[k])
        OBVIOUS
    <2>2. /\ c \in Unit /\ c.state = "active" /\ c.past /\ c.body = units[k].body
          /\ c.source = units[k].source /\ c.family = units[k].family
        BY <1>1, <2>1, RemainderUnit
    <2>3. c.source # "none" /\ c.body # "" => c.family # "none"
        BY <2>2 DEF CaptureInv, CaptureIsMarked
    <2> QED BY <1>3, <2>1, <2>2, <2>3 DEF RowNew
<1>4. ASSUME units'[i] = Tombstone(units[k])
      PROVE  RowNew(i)
    <2>1. PICK c : c = Tombstone(units[k])
        OBVIOUS
    <2>2. c \in Unit /\ c.state = "invalidated" /\ c.body = ""
        BY <1>1, <2>1, TombstoneUnit
    <2> QED BY <1>4, <2>1, <2>2 DEF RowNew
<1> QED BY <1>2, <1>3, <1>4

\* The steps that write no unit.
Idle ==
    \/ \E e \in Episodes : Prepare(e) \/ NothingToCompile(e) \/ RollBack(e)
    \/ \E p \in Processes : CheckRead(p) \/ CheckLost(p)
    \/ \E m \in Marks, i \in Ids, o \in Outcomes : Mark(m, i, o)
    \/ UNCHANGED vars

LEMMA IdleSteps ==
    ASSUME Idle
    PROVE  units' = units /\ edges' = edges /\ forgotten' = forgotten
BY DEF Idle, Prepare, NothingToCompile, RollBack, CheckRead, CheckLost, Mark, vars

LEMMA Steps ==
    ASSUME [Next]_vars
    PROVE  \/ Idle
           \/ \E e \in Episodes : Commit(e) \/ ForgetEpisode(e)
           \/ \E p \in Processes : CheckApply(p)
           \/ \E k \in Ids : Invalidate(k) \/ ForgetUnit(k) \/ \E b \in Corrections : Correct(k, b)
BY DEF Next, Idle

\* No step removes a row or changes what it says except by emptying it, and no step makes
\* a row active that no plan or cross-check claims.
LEMMA Rows ==
    ASSUME CaptureInv, [Next]_vars
    PROVE  /\ units' = [i \in Ids |-> units'[i]]
           /\ \A i \in Ids : Present(i) => RowKept(i)
           /\ \A i \in Ids : ~Present(i) => units'[i] = units[i] \/ RowNew(i)
<1>0. Shapes /\ PlansArePresent /\ ErasedIsEmpty /\ units = [i \in Ids |-> units[i]]
    BY DEF CaptureInv, Shapes, TypeOK
<1>1. CASE Idle
    <2>1. units' = units
        BY <1>1, IdleSteps
    <2> QED BY <1>0, <2>1, SameRow
<1>2. ASSUME NEW e \in Episodes, Commit(e)
      PROVE  /\ units' = [i \in Ids |-> units'[i]]
             /\ \A i \in Ids : Present(i) => RowKept(i)
             /\ \A i \in Ids : ~Present(i) => units'[i] = units[i] \/ RowNew(i)
    <2>1. PICK n :
             /\ \A i \in Ids \ {n} :
                  units'[i] = IF i # write[e].id THEN units[i]
                              ELSE IF write[e].kind = "supersede" THEN Closed(units[i], "superseded")
                              ELSE IF write[e].kind = "reinforce" THEN Reopened(units[i], write[e].state)
                              ELSE units[i]
             /\ n \in Ids => ~Present(n) /\ units'[n] = Minted(e)
             /\ units' = [i \in Ids |-> units'[i]]
        BY <1>0, <1>2, CommitWrites
    <2>2. ASSUME NEW i \in Ids, Present(i)
          PROVE  RowKept(i)
        <3>1. i # n
            BY <2>1, <2>2
        <3>2. \/ units'[i] = units[i]
              \/ units'[i] = Closed(units[i], "superseded")
              \/ /\ write[e].kind = "reinforce" /\ i = write[e].id
                 /\ units'[i] = Reopened(units[i], write[e].state)
            BY <2>1, <3>1
        <3> QED BY <2>2, <3>2, SameRow, ClosedRow, ReopenedRow
    <2>3. ASSUME NEW i \in Ids, ~Present(i)
          PROVE  units'[i] = units[i] \/ RowNew(i)
        <3>1. CASE i = n
            BY <2>1, <3>1, MintedRow
        <3>2. CASE i # n
            <4>1. write[e].kind \in {"supersede", "reinforce"} => i # write[e].id
                BY <1>0, <2>3 DEF PlansArePresent
            <4> QED BY <2>1, <3>2, <4>1
        <3> QED BY <3>1, <3>2
    <2> QED BY <2>1, <2>2, <2>3
<1>3. ASSUME NEW S, units' = Erase(S)
      PROVE  /\ units' = [i \in Ids |-> units'[i]]
             /\ \A i \in Ids : Present(i) => RowKept(i)
             /\ \A i \in Ids : ~Present(i) => units'[i] = units[i] \/ RowNew(i)
    <2>1. /\ units' = [i \in Ids |-> units'[i]]
          /\ \A i \in Ids : units'[i] = units[i] \/ (Present(i) /\ units'[i] = Erased(units[i]))
        BY <1>3, EraseWrites
    <2> QED BY <2>1, SameRow, ErasedRow
<1>4. ASSUME NEW p \in Processes, CheckApply(p)
      PROVE  /\ units' = [i \in Ids |-> units'[i]]
             /\ \A i \in Ids : Present(i) => RowKept(i)
             /\ \A i \in Ids : ~Present(i) => units'[i] = units[i] \/ RowNew(i)
    <2>1. VerdictsArePresent
        BY DEF CaptureInv
    <2>2. units' = [i \in Ids |-> units'[i]]
        BY <1>0, <1>4, ApplyWrites
    <2>3. ASSUME NEW i \in Ids
          PROVE  units'[i] = units[i] \/ (Present(i) /\ RowKept(i))
        <3>1. \/ units'[i] = units[i]
              \/ /\ i \in DOMAIN verdict[p] /\ units[i].open
                 /\ units'[i] = [units[i] EXCEPT !.state = verdict[p][i].state,
                                                 !.confidence = verdict[p][i].confidence,
                                                 !.witnesses = verdict[p][i].witnesses,
                                                 !.family = verdict[p][i].family]
            BY <1>0, <1>4, ApplyWrites
        <3>2. i \in DOMAIN verdict[p] => Present(i)
            BY <2>1 DEF VerdictsArePresent
        <3> QED BY <3>1, <3>2, AppliedRow
    <2> QED BY <2>2, <2>3, SameRow
<1>5. ASSUME NEW k \in Ids, Invalidate(k)
      PROVE  /\ units' = [i \in Ids |-> units'[i]]
             /\ \A i \in Ids : Present(i) => RowKept(i)
             /\ \A i \in Ids : ~Present(i) => units'[i] = units[i] \/ RowNew(i)
    <2>1. PICK n \in Ids :
             /\ ~Present(n) /\ Present(k) /\ units' = [i \in Ids |-> units'[i]]
             /\ units'[k] = Closed(units[k], "superseded")
             /\ units'[n] = Tombstone(units[k])
             /\ \A i \in Ids \ {k, n} : units'[i] = units[i]
        BY <1>0, <1>5, InvalidateWrites
    <2>2. RowKept(k) /\ RowNew(n)
        BY <2>1, ClosedRow, DerivedRows
    <2> QED BY <2>1, <2>2, SameRow
<1>6. ASSUME NEW k \in Ids, NEW b \in Corrections, Correct(k, b)
      PROVE  /\ units' = [i \in Ids |-> units'[i]]
             /\ \A i \in Ids : Present(i) => RowKept(i)
             /\ \A i \in Ids : ~Present(i) => units'[i] = units[i] \/ RowNew(i)
    <2>1. PICK n, m \in Ids :
             /\ n # m /\ ~Present(n) /\ ~Present(m) /\ Present(k)
             /\ units' = [i \in Ids |-> units'[i]]
             /\ units'[k] = Closed(units[k], "superseded")
             /\ units'[n] = Replacement(units[k], b) /\ units'[m] = Remainder(units[k])
             /\ \A i \in Ids \ {k, n, m} : units'[i] = units[i]
        BY <1>0, <1>6, CorrectWrites
    <2>2. RowKept(k) /\ RowNew(n) /\ RowNew(m)
        BY <2>1, ClosedRow, DerivedRows
    <2> QED BY <2>1, <2>2, SameRow
<1> QED BY <1>1, <1>2, <1>3, <1>4, <1>5, <1>6, Steps DEF ForgetEpisode, ForgetUnit

-----------------------------------------------------------------------------
(***************************************************************************)
(* The invariant is inductive.                                             *)
(***************************************************************************)
\* New edges point from a new row to a row that is there.
LEMMA NewEdges ==
    ASSUME CaptureInv, [Next]_vars
    PROVE  \A r \in edges' \ edges :
             /\ r \in Ids \X Ids /\ ~Present(r[1]) /\ RowNew(r[1]) /\ Present(r[2])
<1>0. Shapes /\ PlansArePresent /\ ErasedIsEmpty
    BY DEF CaptureInv
<1>1. CASE Idle
    BY <1>1, IdleSteps
<1>2. ASSUME NEW e \in Episodes, Commit(e)
      PROVE  \A r \in edges' \ edges :
               r \in Ids \X Ids /\ ~Present(r[1]) /\ RowNew(r[1]) /\ Present(r[2])
    <2>1. PICK n : /\ n \in Ids => ~Present(n) /\ units'[n] = Minted(e)
                   /\ \/ edges' = edges
                      \/ /\ n \in Ids /\ write[e].kind = "supersede"
                         /\ edges' = edges \cup {<<n, write[e].id>>}
        BY <1>0, <1>2, CommitWrites
    <2>2. n \in Ids => RowNew(n)
        BY <2>1, MintedRow
    <2>3. write[e].kind = "supersede" => write[e].id \in Ids /\ Present(write[e].id)
        BY <1>0 DEF PlansArePresent
    <2> QED BY <2>1, <2>2, <2>3
<1>3. ASSUME NEW k \in Ids, Invalidate(k)
      PROVE  \A r \in edges' \ edges :
               r \in Ids \X Ids /\ ~Present(r[1]) /\ RowNew(r[1]) /\ Present(r[2])
    <2>1. PICK n \in Ids : /\ ~Present(n) /\ Present(k) /\ units'[n] = Tombstone(units[k])
                           /\ edges' = edges \cup {<<n, k>>}
        BY <1>0, <1>3, InvalidateWrites
    <2>2. RowNew(n)
        BY <2>1, DerivedRows
    <2> QED BY <2>1, <2>2
<1>4. ASSUME NEW k \in Ids, NEW b \in Corrections, Correct(k, b)
      PROVE  \A r \in edges' \ edges :
               r \in Ids \X Ids /\ ~Present(r[1]) /\ RowNew(r[1]) /\ Present(r[2])
    <2>1. PICK n, m \in Ids :
             /\ ~Present(n) /\ ~Present(m) /\ Present(k)
             /\ units'[n] = Replacement(units[k], b) /\ units'[m] = Remainder(units[k])
             /\ edges' = edges \cup {<<n, k>>, <<m, k>>}
        BY <1>0, <1>4, CorrectWrites
    <2>2. RowNew(n) /\ RowNew(m)
        BY <2>1, DerivedRows
    <2> QED BY <2>1, <2>2
<1>5. ASSUME NEW p, CheckApply(p) \/ ForgetEpisode(p) \/ ForgetUnit(p)
      PROVE  edges' = edges
    BY <1>5 DEF CheckApply, ForgetEpisode, ForgetUnit
<1> QED BY <1>1, <1>2, <1>3, <1>4, <1>5, Steps

\* What a cross-check reads.
LEMMA NewVerdicts ==
    ASSUME Shapes, NEW p \in Processes, CheckRead(p), Transitions(units) # {}
    PROVE  /\ DOMAIN verdict'[p] \subseteq Ids
           /\ \A i \in DOMAIN verdict'[p] :
                i \in Eligible(units) /\ verdict'[p][i] = Judged(units, i)
           /\ verdict' = [verdict EXCEPT ![p] = verdict'[p]]
<1> DEFINE V == [i \in Transitions(units) |-> Judged(units, i)]
<1>1. verdict' = [verdict EXCEPT ![p] = V]
    BY DEF CheckRead
<1>2. DOMAIN V = Transitions(units) /\ \A i \in Transitions(units) : V[i] = Judged(units, i)
    OBVIOUS
<1> HIDE DEF V
<1>3. verdict'[p] = V
    BY <1>1 DEF Shapes
<1> QED BY <1>1, <1>2, <1>3 DEF Transitions, Eligible

LEMMA ShapesKept ==
    ASSUME CaptureInv, [Next]_vars
    PROVE  Shapes'
<1>1. units' \in [Ids -> Unit]
    <2>1. ASSUME NEW i \in Ids
          PROVE  units'[i] \in Unit
        <3>1. units[i] \in Unit
            BY DEF CaptureInv, Shapes, TypeOK
        <3>2. RowKept(i) \/ RowNew(i) \/ units'[i] = units[i]
            BY Rows
        <3> QED BY <3>1, <3>2 DEF RowKept, RowNew
    <2> QED BY <2>1, Rows
<1>2. edges' \subseteq Ids \X Ids
    <2>1. edges \subseteq Ids \X Ids
        BY DEF CaptureInv, Shapes, TypeOK
    <2> QED BY <2>1, NewEdges
<1>3. /\ forgotten' \subseteq Episodes /\ events' \subseteq Ids \X Outcomes
      /\ pc' \in [Processes -> {"start", "write", "check", "apply", "done"}]
    <2>1. /\ forgotten \subseteq Episodes /\ events \subseteq Ids \X Outcomes
          /\ pc \in [Processes -> {"start", "write", "check", "apply", "done"}]
        BY DEF CaptureInv, Shapes, TypeOK
    <2>2. ASSUME Idle
          PROVE  <1>3!:
        BY <2>1, <2>2 DEF Idle, Prepare, NothingToCompile, RollBack, CheckRead, CheckLost, Mark,
                          vars, Processes
    <2> QED BY <2>1, <2>2, Steps DEF Commit, ForgetEpisode, CheckApply, Invalidate, ForgetUnit,
                                     Correct, Processes
<1>4. write' \in [Episodes -> Write]
    <2>1. write \in [Episodes -> Write] /\ units \in [Ids -> Unit]
        BY DEF CaptureInv, Shapes, TypeOK
    <2>2. NoWrite \in Write
        BY DEF NoWrite, Write
    <2>3. ASSUME NEW e \in Episodes, Prepare(e)
          PROVE  write' \in [Episodes -> Write]
        <3>1. ASSUME NEW i \in Incumbents(e)
              PROVE  Admission(e, i) \in Write
            BY <2>1 DEF Admission, Write, Incumbents, Live
        <3>2. [NoWrite EXCEPT !.kind = IF Duplicated(e) THEN "merge" ELSE "mint"] \in Write
            BY DEF NoWrite, Write
        <3>3. \E w \in Write : write' = [write EXCEPT ![e] = w]
            BY <2>3, <3>1, <3>2 DEF Prepare
        <3> QED BY <2>1, <3>3
    <2>4. ASSUME NEW e \in Episodes, Commit(e) \/ RollBack(e)
          PROVE  write' \in [Episodes -> Write]
        <3>1. write' = [write EXCEPT ![e] = NoWrite]
            BY <2>4 DEF Commit, RollBack
        <3> QED BY <2>1, <2>2, <3>1
    <2>5. CASE UNCHANGED write
        BY <2>1, <2>5
    <2> QED BY <2>3, <2>4, <2>5, Steps DEF Idle, NothingToCompile, CheckRead, CheckLost, Mark, vars,
                ForgetEpisode, CheckApply, Invalidate, ForgetUnit, Correct
<1>5. /\ verdict' = [p \in Processes |-> verdict'[p]]
      /\ \A p \in Processes : DOMAIN verdict'[p] \subseteq Ids
                              /\ \A i \in DOMAIN verdict'[p] : verdict'[p][i] \in Unit
    <2>1. /\ verdict = [p \in Processes |-> verdict[p]] /\ units \in [Ids -> Unit]
          /\ \A p \in Processes : DOMAIN verdict[p] \subseteq Ids
                                  /\ \A i \in DOMAIN verdict[p] : verdict[p][i] \in Unit
        BY DEF CaptureInv, Shapes, TypeOK
    <2>2. ASSUME NEW p \in Processes, CheckRead(p), Transitions(units) # {}
          PROVE  <1>5!:
        <3>1. /\ DOMAIN verdict'[p] \subseteq Ids
              /\ \A i \in DOMAIN verdict'[p] :
                   i \in Eligible(units) /\ verdict'[p][i] = Judged(units, i)
              /\ verdict' = [verdict EXCEPT ![p] = verdict'[p]]
            BY <2>2, NewVerdicts DEF CaptureInv
        <3>2. \A i \in DOMAIN verdict'[p] : verdict'[p][i] \in Unit
            BY <2>1, <3>1, JudgedUnit
        <3>3. \A q \in Processes : q # p => verdict'[q] = verdict[q]
            BY <2>1, <3>1
        <3>4. verdict' = [q \in Processes |-> verdict'[q]]
            BY <2>1, <3>1
        <3> QED BY <2>1, <3>1, <3>2, <3>3, <3>4
    <2>3. ASSUME NEW p \in Processes, verdict' = [verdict EXCEPT ![p] = << >>]
          PROVE  <1>5!:
        <3>1. DOMAIN << >> = {}
            OBVIOUS
        <3>2. verdict'[p] = << >> /\ \A q \in Processes : q # p => verdict'[q] = verdict[q]
            BY <2>1, <2>3
        <3>3. verdict' = [q \in Processes |-> verdict'[q]]
            BY <2>1, <2>3
        <3> QED BY <2>1, <3>1, <3>2, <3>3
    <2>4. CASE UNCHANGED verdict
        BY <2>1, <2>4
    <2>5. ASSUME NEW p \in Processes, CheckRead(p), Transitions(units) = {}
          PROVE  UNCHANGED verdict
        BY <2>5 DEF CheckRead
    <2> QED BY <2>2, <2>3, <2>4, <2>5, Steps DEF Idle, Prepare, NothingToCompile, RollBack, CheckLost,
                Mark, vars, Commit, ForgetEpisode, CheckApply, Invalidate, ForgetUnit, Correct
<1> QED BY <1>1, <1>2, <1>3, <1>4, <1>5 DEF Shapes, TypeOK

\* A plan is kept, dropped, or made of what is live.
LEMMA WriteSteps ==
    ASSUME CaptureInv, [Next]_vars, NEW e \in Episodes
    PROVE  \/ write'[e] = write[e]
           \/ write'[e].kind \in {"none", "merge"}
           \/ write'[e].kind = "mint" /\ write'[e].id \notin Ids
           \/ /\ write'[e].kind # "mint"
              /\ \E i \in Ids : Present(i) /\ write'[e].id = i /\ write'[e].state = units[i].state
<1>1. write \in [Episodes -> Write]
    BY DEF CaptureInv, Shapes, TypeOK
<1>2. ASSUME NEW f \in Episodes, Prepare(f), f = e
      PROVE  \/ write'[e].kind \in {"none", "merge"}
             \/ write'[e].kind = "mint" /\ write'[e].id \notin Ids
             \/ /\ write'[e].kind # "mint"
                /\ \E i \in Ids : Present(i) /\ write'[e].id = i /\ write'[e].state = units[i].state
    <2>1. CASE \E i \in Incumbents(e) : write' = [write EXCEPT ![e] = Admission(e, i)]
        <3>1. PICK i \in Incumbents(e) : write' = [write EXCEPT ![e] = Admission(e, i)]
            BY <2>1
        <3>2. i \in Ids /\ Present(i)
            BY DEF Incumbents, Live, Present
        <3>3. write'[e] = Admission(e, i)
            BY <1>1, <3>1
        <3> QED BY <3>2, <3>3 DEF Admission
    <2>2. CASE write' = [write EXCEPT ![e] =
                          [NoWrite EXCEPT !.kind = IF Duplicated(e) THEN "merge" ELSE "mint"]]
        <3>1. write'[e] = [NoWrite EXCEPT !.kind = IF Duplicated(e) THEN "merge" ELSE "mint"]
            BY <1>1, <2>2
        <3>2. write'[e].kind \in {"merge", "mint"} /\ write'[e].id = 0
            BY <3>1 DEF NoWrite
        <3>3. 0 \notin Ids
            BY DEF Ids
        <3> QED BY <3>2, <3>3
    <2> QED BY <1>2, <2>1, <2>2 DEF Prepare
<1>3. ASSUME NEW f \in Episodes, Prepare(f), f # e
      PROVE  write'[e] = write[e]
    BY <1>1, <1>3 DEF Prepare
<1>4. ASSUME NEW f \in Episodes, write' = [write EXCEPT ![f] = NoWrite]
      PROVE  write'[e] = write[e] \/ write'[e].kind \in {"none", "merge"}
    BY <1>1, <1>4 DEF NoWrite
<1> QED BY <1>2, <1>3, <1>4, Steps DEF Idle, NothingToCompile, RollBack, CheckRead, CheckLost, Mark,
            vars, Commit, ForgetEpisode, CheckApply, Invalidate, ForgetUnit, Correct

\* A cross-check's verdict is kept, dropped, or computed from the units as they are.
LEMMA VerdictSteps ==
    ASSUME CaptureInv, [Next]_vars, NEW p \in Processes, NEW i \in DOMAIN verdict'[p]
    PROVE  \/ i \in DOMAIN verdict[p] /\ verdict'[p][i] = verdict[p][i]
           \/ i \in Eligible(units) /\ verdict'[p][i] = Judged(units, i)
<1>0. Shapes /\ verdict = [q \in Processes |-> verdict[q]]
    BY DEF CaptureInv, Shapes
<1>1. ASSUME NEW q \in Processes, CheckRead(q), Transitions(units) # {}
      PROVE  \/ i \in DOMAIN verdict[p] /\ verdict'[p][i] = verdict[p][i]
             \/ i \in Eligible(units) /\ verdict'[p][i] = Judged(units, i)
    <2>1. /\ \A k \in DOMAIN verdict'[q] :
                k \in Eligible(units) /\ verdict'[q][k] = Judged(units, k)
          /\ verdict' = [verdict EXCEPT ![q] = verdict'[q]]
        BY <1>0, <1>1, NewVerdicts
    <2>2. p # q => verdict'[p] = verdict[p]
        BY <1>0, <2>1
    <2> QED BY <2>1, <2>2
<1>2. ASSUME NEW q \in Processes, verdict' = [verdict EXCEPT ![q] = << >>]
      PROVE  i \in DOMAIN verdict[p] /\ verdict'[p][i] = verdict[p][i]
    <2>1. p = q => verdict'[p] = << >>
        BY <1>0, <1>2
    <2>2. p # q => verdict'[p] = verdict[p]
        BY <1>0, <1>2
    <2>3. DOMAIN << >> = {}
        OBVIOUS
    <2> QED BY <2>1, <2>2, <2>3
<1>3. CASE UNCHANGED verdict
    BY <1>3
<1>4. ASSUME NEW q \in Processes, CheckRead(q), Transitions(units) = {}
      PROVE  UNCHANGED verdict
    BY <1>4 DEF CheckRead
<1> QED BY <1>1, <1>2, <1>3, <1>4, Steps DEF Idle, Prepare, NothingToCompile, RollBack, CheckLost,
            Mark, vars, Commit, ForgetEpisode, CheckApply, Invalidate, ForgetUnit, Correct

LEMMA EligibleVerdict ==
    ASSUME Shapes, NEW i \in Eligible(units)
    PROVE  LET c == Judged(units, i)
           IN  /\ i \in Ids /\ Present(i) /\ c.family = units[i].family
               /\ c.state \in {"candidate", "active", "quarantined"}
               /\ c.witnesses = Witnessed(units, i)
               /\ c.state = "active" => units[i].state = "active" \/ Witnessed(units, i) # {}
<1>1. units \in [Ids -> Unit]
    BY DEF Shapes, TypeOK
<1>2. i \in Ids /\ Present(i)
    BY DEF Eligible, Present
<1> QED BY <1>1, <1>2, JudgedUnit DEF SameContent

LEMMA PresenceKept ==
    ASSUME CaptureInv, [Next]_vars
    PROVE  EdgesArePresent' /\ PlansArePresent' /\ VerdictsArePresent' /\ ErasedIsEmpty'
<1>1. EdgesArePresent'
    <2>1. edges \subseteq Ids \X Ids /\ EdgesArePresent
        BY DEF CaptureInv, Shapes, TypeOK
    <2>2. ASSUME NEW r \in edges
          PROVE  Present(r[1])' /\ Present(r[2])'
        <3>1. r[1] \in Ids /\ r[2] \in Ids /\ Present(r[1]) /\ Present(r[2])
            BY <2>1 DEF EdgesArePresent
        <3> QED BY <3>1, Rows DEF RowKept, Present
    <2>3. ASSUME NEW r \in edges' \ edges
          PROVE  Present(r[1])' /\ Present(r[2])'
        <3>1. r[1] \in Ids /\ r[2] \in Ids /\ RowNew(r[1]) /\ Present(r[2])
            BY NewEdges
        <3> QED BY <3>1, Rows DEF RowKept, RowNew, Present
    <2> QED BY <2>2, <2>3 DEF EdgesArePresent
<1>2. PlansArePresent'
    <2>1. ASSUME NEW e \in Episodes
          PROVE  /\ write'[e].kind \in {"supersede", "reinforce"} =>
                      write'[e].id \in Ids /\ Present(write'[e].id)
                 /\ write'[e].kind = "mint" => write'[e].id \notin Ids
        <3>1. write'[e].kind \in {"none", "merge", "reinforce", "supersede", "mint"}
            BY ShapesKept DEF Shapes, TypeOK, Write
        <3>2. CASE write'[e] = write[e]
            BY <3>2 DEF CaptureInv, PlansArePresent
        <3>3. CASE /\ write'[e].kind # "mint"
                   /\ \E i \in Ids : Present(i) /\ write'[e].id = i /\ write'[e].state = units[i].state
            BY <3>3
        <3> QED BY <3>1, <3>2, <3>3, WriteSteps
    <2>2. \A i \in Ids : Present(i) => units'[i].state # "absent"
        BY Rows DEF RowKept
    <2> QED BY <2>1, <2>2 DEF PlansArePresent, Present
<1>3. VerdictsArePresent'
    <2>1. ASSUME NEW p \in Processes, NEW i \in DOMAIN verdict'[p]
          PROVE  /\ i \in Ids /\ Present(i)
                 /\ verdict'[p][i].state \in {"candidate", "active", "quarantined"}
        <3>1. CASE i \in DOMAIN verdict[p] /\ verdict'[p][i] = verdict[p][i]
            <4>1. i \in Ids
                BY <3>1 DEF CaptureInv, Shapes, TypeOK
            <4>2. Present(i) /\ verdict[p][i].state \in {"candidate", "active", "quarantined"}
                BY <3>1 DEF CaptureInv, VerdictsArePresent
            <4> QED BY <3>1, <4>1, <4>2
        <3>2. CASE i \in Eligible(units) /\ verdict'[p][i] = Judged(units, i)
            <4>1. Shapes
                BY DEF CaptureInv
            <4> QED BY <3>2, <4>1, EligibleVerdict
        <3> QED BY <3>1, <3>2, VerdictSteps
    <2>2. \A i \in Ids : Present(i) => units'[i].state # "absent"
        BY Rows DEF RowKept
    <2> QED BY <2>1, <2>2 DEF VerdictsArePresent, Present
<1>4. ErasedIsEmpty'
    <2>1. ASSUME NEW i \in Ids
          PROVE  /\ units'[i].state \in {"absent", "deleted"} =>
                      units'[i].body = "" /\ ~units'[i].open
                 /\ units'[i].state = "absent" => units'[i].source = "none"
        <3>1. CASE units'[i] = units[i]
            BY <3>1 DEF CaptureInv, ErasedIsEmpty, Present
        <3>2. CASE RowKept(i)
            BY <3>2 DEF RowKept
        <3>3. CASE RowNew(i)
            BY <3>3 DEF RowNew
        <3> QED BY <3>1, <3>2, <3>3, Rows
    <2> QED BY <2>1 DEF ErasedIsEmpty, Present
<1> QED BY <1>1, <1>2, <1>3, <1>4

LEMMA MarkersKept ==
    ASSUME CaptureInv, [Next]_vars
    PROVE  CaptureIsMarked'
<1>0. Shapes /\ ErasedIsEmpty /\ CaptureIsMarked /\ VerdictsArePresent
    BY DEF CaptureInv
<1>1. ASSUME NEW i \in Ids, units'[i].body # ""
      PROVE  units'[i].source # "none" => units'[i].family # "none"
    <2>1. CASE RowKept(i)
        BY <1>0, <1>1, <2>1 DEF RowKept, CaptureIsMarked
    <2>2. CASE RowNew(i)
        BY <1>1, <2>2 DEF RowNew
    <2>3. CASE ~Present(i) /\ units'[i] = units[i]
        BY <1>0, <1>1, <2>3 DEF ErasedIsEmpty, Present
    <2> QED BY <2>1, <2>2, <2>3, Rows
<1>2. ASSUME NEW i \in Ids, units'[i].body # "", NEW p \in Processes, i \in DOMAIN verdict'[p]
      PROVE  verdict'[p][i].family = units'[i].family
    <2>1. Present(i)
        BY <1>0, <1>2, VerdictSteps, EligibleVerdict DEF VerdictsArePresent
    <2>2. units[i].body # "" /\ units'[i].family = units[i].family
        BY <1>2, <2>1, Rows DEF RowKept
    <2>3. verdict'[p][i].family = units[i].family
        <3>1. CASE i \in DOMAIN verdict[p] /\ verdict'[p][i] = verdict[p][i]
            BY <1>0, <2>2, <3>1 DEF CaptureIsMarked
        <3>2. CASE i \in Eligible(units) /\ verdict'[p][i] = Judged(units, i)
            BY <1>0, <3>2, EligibleVerdict
        <3> QED BY <1>2, <3>1, <3>2, VerdictSteps
    <2> QED BY <2>2, <2>3
<1> QED BY <1>1, <1>2 DEF CaptureIsMarked

\* Who seconds a capture goes on doing so while the capture has content.
LEMMA SecondsStay ==
    ASSUME CaptureInv, [Next]_vars, NEW i \in Ids, NEW j \in Ids, Present(i), Seconds(j, i),
           units'[i].source # "none", units'[i].body # ""
    PROVE  Seconds(j, i)'
<1>0. Shapes /\ CaptureIsMarked
    BY DEF CaptureInv
<1>1. RowKept(i) /\ RowKept(j)
    BY Rows DEF Seconds
<1>2. /\ units'[i].family = units[i].family /\ units'[i].body = units[i].body
      /\ units[i].family # "none"
    BY <1>0, <1>1 DEF RowKept, CaptureIsMarked
<1>3. units'[j].state # "absent" /\ units'[j].body \in {units'[i].body, ""}
    BY <1>1, <1>2 DEF RowKept, Seconds
<1>4. units'[j].family # units'[i].family
    <2>1. units[j].family # units[i].family
        BY DEF Seconds
    <2>2. \A p \in Processes : j \in DOMAIN verdict[p] => verdict[p][j].family # units[i].family
        BY DEF Seconds
    <2> QED BY <1>1, <1>2, <2>1, <2>2 DEF RowKept
<1>5. ASSUME NEW p \in Processes, j \in DOMAIN verdict'[p]
      PROVE  verdict'[p][j].family # units'[i].family
    <2>1. CASE j \in DOMAIN verdict[p] /\ verdict'[p][j] = verdict[p][j]
        BY <1>2, <2>1 DEF Seconds
    <2>2. CASE j \in Eligible(units) /\ verdict'[p][j] = Judged(units, j)
        BY <1>0, <1>2, <2>2, EligibleVerdict DEF Seconds
    <2> QED BY <1>5, <2>1, <2>2, VerdictSteps
<1> QED BY <1>3, <1>4, <1>5 DEF Seconds, Present

\* A cross-check witnesses what another channel says or a review confirmed.
LEMMA WitnessIsEarned ==
    ASSUME CaptureInv, NEW i \in Ids, Capture(i), ~Claimed(i), Witnessed(units, i) # {}
    PROVE  Told(i, "success") \/ \E j \in Ids \ {i} : Seconds(j, i)
<1>1. units[i].witnesses = {}
    BY DEF Claimed
<1>2. Told(i, "success") \/ Agrees(units, i)
    BY <1>1 DEF Witnessed
<1>3. ASSUME Agrees(units, i)
      PROVE  \E j \in Ids \ {i} : Seconds(j, i)
    <2>1. PICK j \in Eligible(units) : units[i].family # units[j].family /\ units[i].body = units[j].body
        BY <1>3 DEF Agrees
    <2>2. j \in Ids /\ j # i /\ Present(j)
        BY <2>1 DEF Eligible, Present
    <2>3. \A p \in Processes : j \in DOMAIN verdict[p] => verdict[p][j].family # units[i].family
        BY <2>1, <2>2 DEF CaptureInv, CaptureIsMarked, Capture
    <2> QED BY <2>1, <2>2, <2>3 DEF Seconds
<1> QED BY <1>2, <1>3

LEMMA ClaimsKept ==
    ASSUME CaptureInv, [Next]_vars
    PROVE  ClaimsAreEarned'
<1>0. Shapes /\ ErasedIsEmpty /\ PlansArePresent /\ VerdictsArePresent /\ ClaimsAreEarned
    BY DEF CaptureInv
<1> SUFFICES ASSUME NEW i \in Ids, Capture(i)', Claimed(i)'
             PROVE  Told(i, "success")' \/ \E j \in Ids \ {i} : Seconds(j, i)'
    BY DEF ClaimsAreEarned
<1>1. units'[i].source # "none" /\ ~units'[i].past /\ units'[i].body # ""
    BY DEF Capture
<1>2. \/ units'[i].state = "active" \/ units'[i].witnesses # {}
      \/ \E e \in Episodes :
            write'[e].kind = "reinforce" /\ write'[e].id = i /\ write'[e].state = "active"
      \/ \E p \in Processes :
            /\ i \in DOMAIN verdict'[p]
            /\ verdict'[p][i].state = "active" \/ verdict'[p][i].witnesses # {}
    BY DEF Claimed
<1>3. ASSUME NEW e \in Episodes,
             write'[e].kind = "reinforce", write'[e].id = i, write'[e].state = "active"
      PROVE  Present(i) /\ Claimed(i)
    <2>1. CASE write'[e] = write[e]
        BY <1>0, <1>3, <2>1 DEF PlansArePresent, Claimed
    <2>2. CASE \E k \in Ids : Present(k) /\ write'[e].id = k /\ write'[e].state = units[k].state
        BY <1>3, <2>2 DEF Claimed
    <2> QED BY <1>3, <2>1, <2>2, WriteSteps
<1>4. ASSUME NEW p \in Processes, i \in DOMAIN verdict'[p],
             verdict'[p][i].state = "active" \/ verdict'[p][i].witnesses # {}
      PROVE  Present(i) /\ (Claimed(i) \/ Witnessed(units, i) # {})
    <2>1. CASE i \in DOMAIN verdict[p] /\ verdict'[p][i] = verdict[p][i]
        BY <1>0, <1>4, <2>1 DEF VerdictsArePresent, Claimed
    <2>2. CASE i \in Eligible(units) /\ verdict'[p][i] = Judged(units, i)
        <3>1. Present(i) /\ (units[i].state = "active" \/ Witnessed(units, i) # {})
            BY <1>0, <1>4, <2>2, EligibleVerdict
        <3> QED BY <3>1 DEF Claimed
    <2> QED BY <1>4, <2>1, <2>2, VerdictSteps
<1>5. Present(i)
    <2>1. CASE RowNew(i)
        BY <1>1, <1>2, <1>3, <1>4, <2>1 DEF RowNew
    <2>2. CASE ~Present(i) /\ units'[i] = units[i]
        BY <1>0, <1>1, <2>2 DEF ErasedIsEmpty, Present
    <2> QED BY <2>1, <2>2, Rows
<1>6. RowKept(i)
    BY <1>5, Rows
<1>7. Capture(i)
    BY <1>1, <1>6 DEF RowKept, Capture
<1>8. Claimed(i) \/ Witnessed(units, i) # {}
    BY <1>1, <1>2, <1>3, <1>4, <1>6 DEF RowKept
<1>9. Told(i, "success") \/ \E j \in Ids \ {i} : Seconds(j, i)
    BY <1>0, <1>7, <1>8, WitnessIsEarned DEF ClaimsAreEarned
<1>10. Told(i, "success") => Told(i, "success")'
    <2>1. events \subseteq events'
        BY Steps DEF Idle, Prepare, NothingToCompile, RollBack, CheckRead, CheckLost, Mark, vars,
                     Commit, ForgetEpisode, CheckApply, Invalidate, ForgetUnit, Correct
    <2> QED BY <2>1 DEF Told
<1> QED BY <1>1, <1>5, <1>9, <1>10, SecondsStay

LEMMA InitInv ==
    ASSUME Init
    PROVE  CaptureInv
<1>1. \A i \in Ids : units[i] = Absent
    BY DEF Init
<1>2. \A p \in Processes : DOMAIN verdict[p] = {}
    <2>1. DOMAIN << >> = {}
        OBVIOUS
    <2> QED BY <2>1 DEF Init
<1>3. \A e \in Episodes : write[e] = NoWrite
    BY DEF Init
<1>4. Shapes
    <2>1. NoWrite \in Write
        BY DEF NoWrite, Write
    <2>2. units \in [Ids -> Unit] /\ write \in [Episodes -> Write]
        BY <2>1, AbsentUnit DEF Init
    <2>3. /\ edges \subseteq Ids \X Ids /\ forgotten \subseteq Episodes
          /\ events \subseteq Ids \X Outcomes
          /\ pc \in [Processes -> {"start", "write", "check", "apply", "done"}]
          /\ verdict = [p \in Processes |-> verdict[p]]
        BY DEF Init
    <2> QED BY <1>2, <2>2, <2>3 DEF Shapes, TypeOK
<1>5. EdgesArePresent /\ PlansArePresent /\ VerdictsArePresent
    BY <1>2, <1>3 DEF Init, NoWrite, EdgesArePresent, PlansArePresent, VerdictsArePresent
<1>6. ErasedIsEmpty /\ CaptureIsMarked /\ ClaimsAreEarned
    BY <1>1, AbsentUnit DEF ErasedIsEmpty, CaptureIsMarked, ClaimsAreEarned, Capture, Present
<1> QED BY <1>4, <1>5, <1>6 DEF CaptureInv

LEMMA Invariance == Spec => []CaptureInv
<1>1. CaptureInv /\ [Next]_vars => CaptureInv'
    <2>1. ASSUME CaptureInv, [Next]_vars
          PROVE  CaptureInv'
        BY <2>1, ShapesKept, PresenceKept, MarkersKept, ClaimsKept DEF CaptureInv
    <2> QED BY <2>1
<1> QED BY <1>1, InitInv, PTL DEF Spec

\* PromotionIsEarned: however compilations, cross-checks, reviews, corrections and forgets
\* overlap, a capture is active only if another channel said the same or a review of it
\* succeeded.
THEOREM PromotionEarned == Spec => []PromotionIsEarned
<1>1. CaptureInv => PromotionIsEarned
    BY DEF CaptureInv, ClaimsAreEarned, Capture, Claimed, Seconds, PromotionIsEarned
<1> QED BY <1>1, Invariance, PTL

-----------------------------------------------------------------------------
(***************************************************************************)
(* What brings a unit to life.                                             *)
(***************************************************************************)
LEMMA NotLive ==
    ASSUME CaptureInv, NEW k \in Ids
    PROVE  /\ ~Live(Closed(units[k], "superseded")) /\ ~Live(Erased(units[k]))
           /\ ~Live(Remainder(units[k])) /\ ~Live(Tombstone(units[k]))
           /\ ~Present(k) => ~Live(units[k])
<1>1. units[k] \in Unit /\ "superseded" \in States
    BY DEF CaptureInv, Shapes, TypeOK, States
<1> QED BY <1>1, ClosedUnit, ErasedUnit, RemainderUnit, TombstoneUnit DEF Live, Present

LEMMA Revival ==
    ASSUME CaptureInv, [Next]_vars, NEW i \in Ids, Revived(i)
    PROVE  Planned(i)
<1>0. Shapes /\ PlansArePresent /\ ErasedIsEmpty
    BY DEF CaptureInv
<1>1. Present(i) /\ Live(units'[i]) /\ units'[i] # units[i]
    BY DEF Revived
<1>2. ASSUME NEW e \in Episodes, Commit(e)
      PROVE  Planned(i)
    <2>1. \/ units'[i] = Closed(units[i], "superseded")
          \/ write[e].kind = "reinforce" /\ i = write[e].id
        <3>1. PICK n :
                /\ \A k \in Ids \ {n} :
                     units'[k] = IF k # write[e].id THEN units[k]
                                 ELSE IF write[e].kind = "supersede" THEN Closed(units[k], "superseded")
                                 ELSE IF write[e].kind = "reinforce" THEN Reopened(units[k], write[e].state)
                                 ELSE units[k]
                /\ n \in Ids => ~Present(n)
            BY <1>0, <1>2, CommitWrites
        <3> QED BY <1>1, <3>1
    <2>2. pc[e] = "write"
        BY <1>2 DEF Commit
    <2> QED BY <1>1, <2>1, <2>2, NotLive DEF Planned
<1>3. ASSUME NEW S, units' = Erase(S)
      PROVE  Planned(i)
    <2>1. units'[i] = Erased(units[i])
        BY <1>1, <1>3, EraseWrites
    <2> QED BY <1>1, <2>1, NotLive
<1>4. ASSUME NEW p \in Processes, CheckApply(p)
      PROVE  Planned(i)
    <2>1. i \in DOMAIN verdict[p]
        BY <1>0, <1>1, <1>4, ApplyWrites
    <2> QED BY <1>4, <2>1 DEF CheckApply, Planned
<1>5. ASSUME NEW k \in Ids, Invalidate(k)
      PROVE  Planned(i)
    <2>1. units'[i] = Closed(units[i], "superseded")
        BY <1>0, <1>1, <1>5, InvalidateWrites
    <2> QED BY <1>1, <2>1, NotLive
<1>6. ASSUME NEW k \in Ids, NEW b \in Corrections, Correct(k, b)
      PROVE  Planned(i)
    <2>1. units'[i] = Closed(units[i], "superseded")
        BY <1>0, <1>1, <1>6, CorrectWrites
    <2> QED BY <1>1, <2>1, NotLive
<1>7. ~Idle
    BY <1>1, IdleSteps
<1> QED BY <1>2, <1>3, <1>4, <1>5, <1>6, <1>7, Steps DEF ForgetEpisode, ForgetUnit

\* A new live capture is minted, next to units that its plan did not close.
LEMMA NewLife ==
    ASSUME CaptureInv, [Next]_vars,
           NEW i \in Ids, ~Present(i), Live(units'[i]), units'[i].source # "none"
    PROVE  /\ ~TombstoneOpen
           /\ \E e \in Episodes :
                /\ pc[e] = "write" /\ Mints(write[e]) /\ units'[i].family = FamilyOf[e]
                /\ \A j \in Ids \ {i} :
                     Live(units'[j]) => Present(j) /\ units'[j] = units[j] /\ j # write[e].id
<1> DEFINE Goal ==
      /\ ~TombstoneOpen
      /\ \E e \in Episodes :
           /\ pc[e] = "write" /\ Mints(write[e]) /\ units'[i].family = FamilyOf[e]
           /\ \A j \in Ids \ {i} :
                Live(units'[j]) => Present(j) /\ units'[j] = units[j] /\ j # write[e].id
<1>0. Shapes /\ PlansArePresent /\ ErasedIsEmpty /\ VerdictsArePresent
    BY DEF CaptureInv
<1>1. units'[i] # units[i]
    BY NotLive
<1>2. ASSUME NEW e \in Episodes, Commit(e)
      PROVE  Goal
    <2>1. PICK n :
            /\ \A k \in Ids \ {n} :
                 units'[k] = IF k # write[e].id THEN units[k]
                             ELSE IF write[e].kind = "supersede" THEN Closed(units[k], "superseded")
                             ELSE IF write[e].kind = "reinforce" THEN Reopened(units[k], write[e].state)
                             ELSE units[k]
            /\ n \in Ids => units'[n] = Minted(e) /\ Mints(write[e]) /\ ~TombstoneOpen
        BY <1>0, <1>2, CommitWrites
    <2>2. write[e].kind \in {"supersede", "reinforce"} => i # write[e].id
        BY <1>0 DEF PlansArePresent
    <2>3. i = n
        BY <1>1, <2>1, <2>2
    <2>4. units'[i].family = FamilyOf[e]
        BY <2>1, <2>3, MintedUnit
    <2>5. ASSUME NEW j \in Ids \ {i}, Live(units'[j])
          PROVE  Present(j) /\ units'[j] = units[j] /\ j # write[e].id
        <3>1. j = write[e].id => write[e].kind = "supersede"
            BY <1>0, <2>1, <2>3 DEF Mints, PlansArePresent
        <3>2. j # write[e].id
            BY <2>1, <2>3, <2>5, <3>1, NotLive
        <3>3. units'[j] = units[j]
            BY <2>1, <2>3, <2>5, <3>2
        <3> QED BY <2>5, <3>2, <3>3, NotLive
    <2>6. pc[e] = "write"
        BY <1>2 DEF Commit
    <2> QED BY <2>1, <2>3, <2>4, <2>5, <2>6
<1>3. ASSUME NEW S, units' = Erase(S)
      PROVE  FALSE
    BY <1>1, <1>3, EraseWrites
<1>4. ASSUME NEW p \in Processes, CheckApply(p)
      PROVE  FALSE
    <2>1. i \in DOMAIN verdict[p]
        BY <1>0, <1>1, <1>4, ApplyWrites
    <2> QED BY <1>0, <2>1 DEF VerdictsArePresent
<1>5. ASSUME NEW k \in Ids, Invalidate(k)
      PROVE  FALSE
    <2>1. units'[i] = Tombstone(units[k])
        BY <1>0, <1>1, <1>5, InvalidateWrites
    <2> QED BY <2>1, NotLive
<1>6. ASSUME NEW k \in Ids, NEW b \in Corrections, Correct(k, b)
      PROVE  FALSE
    <2>1. units'[i] = Replacement(units[k], b) \/ units'[i] = Remainder(units[k])
        BY <1>0, <1>1, <1>6, CorrectWrites
    <2>2. units[k] \in Unit
        BY <1>0 DEF Shapes, TypeOK
    <2> QED BY <2>1, <2>2, NotLive, ReplacementUnit
<1>7. ~Idle
    BY <1>1, IdleSteps
<1> QED BY <1>2, <1>3, <1>4, <1>5, <1>6, <1>7, Steps DEF ForgetEpisode, ForgetUnit

\* OnlyStalePlansResurrect: a unit that was closed, quarantined or erased lives again only
\* by the hand of a plan or a cross-check that was computed before; an open tombstone lets
\* nothing but a correction through; and a channel gets a second live capture only in these
\* ways or from a plan that missed an incumbent.
THEOREM StalePlansResurrect == Spec => OnlyStalePlansResurrect
<1> DEFINE Step ==
      /\ \A i \in Ids :
           /\ Revived(i) => Planned(i)
           /\ ~Present(i) /\ Live(units'[i]) /\ TombstoneOpen => units'[i].source = "none"
      /\ ~Fragmented /\ Fragmented' =>
           \/ \E i \in Ids : Revived(i)
           \/ \E e \in Episodes :
                 pc[e] = "write" /\ Mints(write[e]) /\ Incumbents(e) \ {write[e].id} # {}
<1>1. ASSUME CaptureInv, [Next]_vars
      PROVE  Step
    <2>1. ASSUME NEW i \in Ids
          PROVE  /\ Revived(i) => Planned(i)
                 /\ ~Present(i) /\ Live(units'[i]) /\ TombstoneOpen => units'[i].source = "none"
        BY <1>1, Revival, NewLife
    <2>2. ASSUME ~Fragmented, Fragmented', \A k \in Ids : ~Revived(k)
          PROVE  \E e \in Episodes :
                   pc[e] = "write" /\ Mints(write[e]) /\ Incumbents(e) \ {write[e].id} # {}
        <3>1. PICK i, j \in Ids :
                /\ i # j /\ Live(units'[i]) /\ Live(units'[j])
                /\ units'[i].family = units'[j].family
                /\ units'[i].source # "none" /\ units'[j].source # "none"
            BY <2>2 DEF Fragmented, Live
        <3>2. ASSUME NEW k \in Ids, Present(k), Live(units'[k])
              PROVE  /\ Live(units[k]) /\ units'[k].family = units[k].family
                     /\ units'[k].source = units[k].source
            <4>1. Live(units[k]) /\ units'[k].family = units[k].family
                BY <2>2, <3>2 DEF Revived
            <4>2. units'[k].source = units[k].source
                BY <1>1, <3>2, Rows DEF RowKept
            <4> QED BY <4>1, <4>2
        <3>3. ~(Present(i) /\ Present(j))
            BY <2>2, <3>1, <3>2 DEF Fragmented
        <3>4. ASSUME NEW a \in Ids, NEW c \in Ids, a # c, ~Present(a),
                     Live(units'[a]), Live(units'[c]), units'[a].source # "none",
                     units'[a].family = units'[c].family
              PROVE  \E e \in Episodes :
                       pc[e] = "write" /\ Mints(write[e]) /\ Incumbents(e) \ {write[e].id} # {}
            <4>1. PICK e \in Episodes :
                    /\ pc[e] = "write" /\ Mints(write[e]) /\ units'[a].family = FamilyOf[e]
                    /\ \A k \in Ids \ {a} :
                         Live(units'[k]) => Present(k) /\ units'[k] = units[k] /\ k # write[e].id
                BY <1>1, <3>4, NewLife
            <4>2. c \in Incumbents(e) \ {write[e].id}
                BY <3>4, <4>1 DEF Incumbents
            <4> QED BY <4>1, <4>2
        <3> QED BY <3>1, <3>3, <3>4
    <2> QED BY <2>1, <2>2
<1>2. CaptureInv /\ [Next]_vars => [Step]_vars
    BY <1>1
<1> QED BY <1>2, Invariance, PTL DEF Spec, OnlyStalePlansResurrect

-----------------------------------------------------------------------------
(***************************************************************************)
(* What a forget leaves: the lineage of the forgotten episodes, as the     *)
(* least set that holds their units and is closed under succession.        *)
(***************************************************************************)
LEMMA LineageHolds ==
    ASSUME edges \subseteq Ids \X Ids
    PROVE  /\ Lineage \subseteq Ids
           /\ \A j \in Ids : units[j].source \in forgotten => j \in Lineage
           /\ \A r \in edges : r[2] \in Lineage => r[1] \in Lineage
<1> DEFINE S == {j \in Ids : \E e \in forgotten : units[j].source = e}
<1>1. ASSUME NEW i
      PROVE  i \in Lineage <=>
               /\ i \in Ids
               /\ \A T \in SUBSET Ids :
                    S \subseteq T /\ (\A q \in Successors : q[1] \in T => q[2] \in T) => i \in T
    BY DEF Lineage, Reach
<1>2. Lineage \subseteq Ids
    BY <1>1
<1>3. ASSUME NEW j \in Ids, units[j].source \in forgotten
      PROVE  j \in Lineage
    <2>1. j \in S
        BY <1>3
    <2> HIDE DEF S
    <2> QED BY <1>1, <2>1
<1>4. ASSUME NEW r \in edges, r[2] \in Lineage
      PROVE  r[1] \in Lineage
    <2>1. r[1] \in Ids /\ r[2] \in Ids
        BY <1>4
    <2>2. <<r[2], r[1]>> \in Successors
        BY DEF Successors
    <2> HIDE DEF S
    <2>3. ASSUME NEW T \in SUBSET Ids, S \subseteq T,
                 \A q \in Successors : q[1] \in T => q[2] \in T
          PROVE  r[1] \in T
        <3>1. r[2] \in T
            BY <1>1, <1>4, <2>3
        <3> QED BY <2>2, <2>3, <3>1
    <2> QED BY <1>1, <2>1, <2>3
<1> QED BY <1>2, <1>3, <1>4

LEMMA LineageIsLeast ==
    ASSUME NEW T \in SUBSET Ids,
           \A j \in Ids : units[j].source \in forgotten => j \in T,
           \A r \in edges : r[2] \in T => r[1] \in T
    PROVE  Lineage \subseteq T
<1>1. \A q \in Successors : q[1] \in T => q[2] \in T
    BY DEF Successors
<1> QED BY <1>1 DEF Lineage, Reach

LEMMA NextLineageIsLeast ==
    ASSUME NEW T \in SUBSET Ids,
           \A j \in Ids : units'[j].source \in forgotten' => j \in T,
           \A r \in edges' : r[2] \in T => r[1] \in T
    PROVE  \A i \in Unerased' : i \in T /\ (units'[i].body # "" \/ units'[i].open)
<1>1. ASSUME NEW i \in Unerased'
      PROVE  i \in Ids /\ (units'[i].body # "" \/ units'[i].open)
    BY DEF Unerased, Lineage, Reach
<1>2. \A q \in Successors' : q[1] \in T => q[2] \in T
    BY DEF Successors
<1>3. \A i \in Unerased' : i \in T
    BY <1>2 DEF Unerased, Lineage, Reach
<1> QED BY <1>1, <1>3

LEMMA LineageIsPresent ==
    ASSUME CaptureInv
    PROVE  \A i \in Lineage : i \in Ids /\ Present(i)
<1>1. EdgesArePresent /\ ErasedIsEmpty /\ forgotten \subseteq Episodes /\ edges \subseteq Ids \X Ids
    BY DEF CaptureInv, Shapes, TypeOK
<1> DEFINE T == {i \in Ids : Present(i)}
<1>2. \A j \in Ids : units[j].source \in forgotten => j \in T
    BY <1>1, EpisodesAssumption DEF EpisodesAssumption, ErasedIsEmpty
<1>3. \A r \in edges : r[2] \in T => r[1] \in T
    BY <1>1 DEF EdgesArePresent
<1>4. T \in SUBSET Ids
    OBVIOUS
<1>5. Lineage \subseteq T
    <2> HIDE DEF T
    <2> QED BY <1>2, <1>3, <1>4, LineageIsLeast
<1> QED BY <1>5

\* The walk of a forget finds everything that was derived from the episode.
LEMMA DerivedHolds ==
    ASSUME edges \subseteq Ids \X Ids, NEW e
    PROVE  /\ Derived(e) \subseteq Ids
           /\ \A j \in Ids : units[j].source = e => j \in Derived(e)
           /\ \A r \in edges : r[2] \in Derived(e) => r[1] \in Derived(e)
<1> DEFINE S == {j \in Ids : units[j].source = e}
<1>1. ASSUME NEW i
      PROVE  i \in Derived(e) <=>
               /\ i \in Ids
               /\ \A T \in SUBSET Ids :
                    S \subseteq T /\ (\A q \in Successors : q[1] \in T => q[2] \in T) => i \in T
    BY DEF Derived, Reach
<1>2. Derived(e) \subseteq Ids
    BY <1>1
<1>3. ASSUME NEW j \in Ids, units[j].source = e
      PROVE  j \in Derived(e)
    <2>1. j \in S
        BY <1>3
    <2> HIDE DEF S
    <2> QED BY <1>1, <2>1
<1>4. ASSUME NEW r \in edges, r[2] \in Derived(e)
      PROVE  r[1] \in Derived(e)
    <2>1. r[1] \in Ids /\ r[2] \in Ids
        BY <1>4
    <2>2. <<r[2], r[1]>> \in Successors
        BY DEF Successors
    <2> HIDE DEF S
    <2>3. ASSUME NEW T \in SUBSET Ids, S \subseteq T,
                 \A q \in Successors : q[1] \in T => q[2] \in T
          PROVE  r[1] \in T
        <3>1. r[2] \in T
            BY <1>1, <1>4, <2>3
        <3> QED BY <2>2, <2>3, <3>1
    <2> QED BY <1>1, <2>1, <2>3
<1> QED BY <1>2, <1>3, <1>4

\* A step that adds no row and forgets nothing: what it leaves of the lineage it found.
LEMMA NothingAdded ==
    ASSUME CaptureInv, NEW i \in Unerased', edges' = edges, forgotten' = forgotten,
           \A j \in Ids : units'[j].source = units[j].source
    PROVE  i \in Lineage /\ (units'[i].body # "" \/ units'[i].open)
<1>1. edges \subseteq Ids \X Ids
    BY DEF CaptureInv, Shapes, TypeOK
<1>2. /\ Lineage \in SUBSET Ids
      /\ \A j \in Ids : units'[j].source \in forgotten' => j \in Lineage
      /\ \A r \in edges' : r[2] \in Lineage => r[1] \in Lineage
    BY <1>1, LineageHolds
<1>3. PICK T : T = Lineage
    OBVIOUS
<1> QED BY <1>2, <1>3, NextLineageIsLeast

\* A step that adds the rows N in place of row k.
LEMMA RowsAdded ==
    ASSUME CaptureInv, NEW k \in Ids, Present(k), NEW N \in SUBSET Ids, \A n \in N : ~Present(n),
           forgotten' = forgotten,
           \A r \in edges' : r \in edges \/ (r[1] \in N /\ r[2] = k),
           \A j \in Ids \ N : units'[j].source = units[j].source,
           \A n \in N : units'[n].source \in forgotten => units'[n].source = units[k].source,
           NEW i \in Unerased'
    PROVE  /\ units'[i].body # "" \/ units'[i].open
           /\ (i \in Lineage /\ i \notin N) \/ (i \in N /\ k \in Lineage)
<1>1. edges \subseteq Ids \X Ids /\ EdgesArePresent
    BY DEF CaptureInv, Shapes, TypeOK
<1>2. PICK L : L = Lineage
    OBVIOUS
<1>3. /\ L \subseteq Ids
      /\ \A j \in Ids : units[j].source \in forgotten => j \in L
      /\ \A r \in edges : r[2] \in L => r[1] \in L
      /\ \A j \in L : j \notin N
    BY <1>1, <1>2, LineageHolds, LineageIsPresent
<1>4. \A r \in edges : r[1] \in Ids /\ r[2] \in Ids /\ r[2] \notin N
    BY <1>1 DEF EdgesArePresent
<1>5. k \notin N
    OBVIOUS
<1>6. CASE k \in L
    <2>1. PICK T : T = L \cup N
        OBVIOUS
    <2>2. T \in SUBSET Ids
        BY <1>3, <2>1
    <2>3. \A j \in Ids : units'[j].source \in forgotten' => j \in T
        BY <1>3, <2>1
    <2>4. \A r \in edges' : r[2] \in T => r[1] \in T
        BY <1>3, <1>4, <2>1
    <2>5. i \in T /\ (units'[i].body # "" \/ units'[i].open)
        BY <2>2, <2>3, <2>4, NextLineageIsLeast
    <2> QED BY <1>2, <1>3, <1>6, <2>1, <2>5
<1>7. CASE k \notin L
    <2>1. L \in SUBSET Ids
        BY <1>3
    <2>2. \A j \in Ids : units'[j].source \in forgotten' => j \in L
        BY <1>3, <1>7
    <2>3. \A r \in edges' : r[2] \in L => r[1] \in L
        BY <1>3, <1>7
    <2>4. i \in L /\ (units'[i].body # "" \/ units'[i].open)
        BY <2>1, <2>2, <2>3, NextLineageIsLeast
    <2> QED BY <1>2, <1>3, <2>4
<1> QED BY <1>6, <1>7

LEMMA Returns ==
    ASSUME CaptureInv, [Next]_vars, NEW i \in Unerased', i \notin Unerased
    PROVE  \/ \E e \in Episodes : Supersedes(e, i) \/ Reinforces(e, i)
           \/ \E j \in Unerased : <<i, j>> \in edges'
<1>0. /\ Shapes /\ PlansArePresent /\ ErasedIsEmpty /\ units \in [Ids -> Unit]
      /\ edges \subseteq Ids \X Ids /\ "superseded" \in States /\ forgotten \subseteq Episodes
    BY DEF CaptureInv, Shapes, TypeOK, States
<1>1. \A k \in Lineage : k \notin Unerased => units[k].body = "" /\ ~units[k].open
    BY DEF Unerased
<1>2. CASE Idle
    <2>1. units' = units /\ edges' = edges /\ forgotten' = forgotten
        BY <1>2, IdleSteps
    <2>2. i \in Lineage /\ (units[i].body # "" \/ units[i].open)
        BY <2>1, NothingAdded
    <2> QED BY <1>1, <2>2
<1>3. ASSUME NEW p \in Processes, CheckApply(p)
      PROVE  FALSE
    <2>1. edges' = edges /\ forgotten' = forgotten
        BY <1>3 DEF CheckApply
    <2>2. ASSUME NEW j \in Ids
          PROVE  /\ units'[j].source = units[j].source /\ units'[j].body = units[j].body
                 /\ units'[j].open = units[j].open
        <3>1. CASE units'[j] = units[j]
            BY <3>1
        <3>2. CASE /\ j \in DOMAIN verdict[p]
                   /\ units'[j] = [units[j] EXCEPT !.state = verdict[p][j].state,
                                                   !.confidence = verdict[p][j].confidence,
                                                   !.witnesses = verdict[p][j].witnesses,
                                                   !.family = verdict[p][j].family]
            <4>1. PICK v : v = verdict[p][j]
                OBVIOUS
            <4>2. units[j] \in Unit /\ v \in Unit
                BY <1>0, <3>2, <4>1 DEF Shapes, TypeOK
            <4>3. PICK c : c = Overlaid(units[j], v)
                OBVIOUS
            <4>4. c.open = units[j].open /\ c.body = units[j].body /\ c.source = units[j].source
                BY <4>2, <4>3, AppliedUnit
            <4>5. units'[j] = c
                BY <3>2, <4>1, <4>3, Zenon DEF Overlaid
            <4> QED BY <4>4, <4>5
        <3> QED BY <1>0, <1>3, <3>1, <3>2, ApplyWrites
    <2>3. i \in Lineage /\ (units'[i].body # "" \/ units'[i].open)
        BY <2>1, <2>2, NothingAdded
    <2>4. i \in Ids
        BY <2>3, LineageIsPresent
    <2> QED BY <1>1, <2>2, <2>3, <2>4
<1>4. ASSUME NEW k \in Ids, ForgetUnit(k)
      PROVE  FALSE
    <2>1. PICK S : units' = Erase(S)
        BY <1>4 DEF ForgetUnit
    <2>2. edges' = edges /\ forgotten' = forgotten
        BY <1>4 DEF ForgetUnit
    <2>3. ASSUME NEW j \in Ids
          PROVE  /\ units'[j].source = units[j].source
                 /\ units'[j] = units[j] \/ (units'[j].body = "" /\ ~units'[j].open)
        <3>1. units'[j] = units[j] \/ units'[j] = Erased(units[j])
            BY <2>1, EraseWrites
        <3>2. PICK c : c = Erased(units[j])
            OBVIOUS
        <3>3. c.body = "" /\ ~c.open /\ c.source = units[j].source
            BY <1>0, <3>2, ErasedUnit
        <3> QED BY <3>1, <3>2, <3>3
    <2>4. i \in Lineage /\ (units'[i].body # "" \/ units'[i].open)
        BY <2>2, <2>3, NothingAdded
    <2>5. i \in Ids
        BY <2>4, LineageIsPresent
    <2> QED BY <1>1, <2>3, <2>4, <2>5
<1>5. ASSUME NEW e \in Episodes, ForgetEpisode(e)
      PROVE  FALSE
    <2>1. PICK D : D = Derived(e)
        OBVIOUS
    <2>2. units' = Erase(D) /\ edges' = edges /\ forgotten' = forgotten \cup {e}
        BY <1>5, <2>1 DEF ForgetEpisode
    <2>3. ASSUME NEW j \in Ids
          PROVE  /\ units'[j].source = units[j].source
                 /\ \/ units'[j] = units[j] /\ j \notin D
                    \/ units'[j].body = "" /\ ~units'[j].open
        <3>1. \/ units'[j] = units[j] /\ (j \in D => units[j].state \in {"absent", "deleted"})
              \/ units'[j] = Erased(units[j])
            BY <2>2, EraseWrites
        <3>2. PICK c : c = Erased(units[j])
            OBVIOUS
        <3>3. c.body = "" /\ ~c.open /\ c.source = units[j].source
            BY <1>0, <3>2, ErasedUnit
        <3> QED BY <1>0, <3>1, <3>2, <3>3 DEF ErasedIsEmpty
    <2>4. PICK T : T = Lineage \cup D
        OBVIOUS
    <2>5. /\ T \in SUBSET Ids
          /\ \A j \in Ids : units'[j].source \in forgotten' => j \in T
          /\ \A r \in edges' : r[2] \in T => r[1] \in T
        BY <1>0, <2>1, <2>2, <2>3, <2>4, LineageHolds, DerivedHolds
    <2>6. i \in T /\ (units'[i].body # "" \/ units'[i].open)
        BY <2>5, NextLineageIsLeast
    <2> QED BY <1>1, <2>3, <2>4, <2>5, <2>6
<1>6. ASSUME NEW k \in Ids, NEW N \in SUBSET Ids, Present(k), units[k].open,
             \A n \in N : ~Present(n),
             forgotten' = forgotten,
             edges' = edges \cup {<<n, k>> : n \in N},
             units'[k] = Closed(units[k], "superseded"),
             \A j \in Ids \ (N \cup {k}) : units'[j] = units[j],
             \A n \in N : units'[n].source \in forgotten => units'[n].source = units[k].source
      PROVE  \E j \in Unerased : <<i, j>> \in edges'
    <2>1. /\ units'[k].source = units[k].source /\ units'[k].body = units[k].body
          /\ ~units'[k].open
        BY <1>0, <1>6, ClosedUnit DEF SameContent
    <2>2. \A r \in edges' : r \in edges \/ (r[1] \in N /\ r[2] = k)
        BY <1>6
    <2>3. \A j \in Ids \ N : units'[j].source = units[j].source
        BY <1>6, <2>1
    <2>4. /\ units'[i].body # "" \/ units'[i].open
          /\ (i \in Lineage /\ i \notin N) \/ (i \in N /\ k \in Lineage)
        BY <1>6, <2>2, <2>3, RowsAdded
    <2>5. i \in N /\ k \in Lineage
        <3>1. i \in Lineage => i \in Ids
            BY LineageIsPresent
        <3> QED BY <1>1, <1>6, <2>1, <2>4, <3>1
    <2>6. k \in Unerased
        BY <1>6, <2>5 DEF Unerased
    <2> QED BY <1>6, <2>5, <2>6
<1>7. ASSUME NEW k \in Ids, Invalidate(k)
      PROVE  \E j \in Unerased : <<i, j>> \in edges'
    <2>1. PICK n \in Ids :
             /\ ~Present(n) /\ Present(k) /\ units[k].open
             /\ units'[k] = Closed(units[k], "superseded")
             /\ units'[n] = Tombstone(units[k])
             /\ \A j \in Ids \ {k, n} : units'[j] = units[j]
             /\ edges' = edges \cup {<<n, k>>}
        BY <1>0, <1>7, InvalidateWrites
    <2>2. units'[n].source = units[k].source
        <3>1. units[k] \in Unit
            BY <1>0 DEF Shapes, TypeOK
        <3>2. Tombstone(units[k]).source = units[k].source
            BY <3>1, TombstoneUnit
        <3> QED BY <2>1, <3>2, Zenon
    <2>3. forgotten' = forgotten
        BY <1>7 DEF Invalidate
    <2>4. PICK N \in SUBSET Ids : N = {n}
        OBVIOUS
    <2>5. edges' = edges \cup {<<m, k>> : m \in N}
        BY <2>1, <2>4
    <2> QED BY <1>6, <2>1, <2>2, <2>3, <2>4, <2>5
<1>8. ASSUME NEW k \in Ids, NEW b \in Corrections, Correct(k, b)
      PROVE  \E j \in Unerased : <<i, j>> \in edges'
    <2>1. PICK n, m \in Ids :
             /\ ~Present(n) /\ ~Present(m) /\ Present(k) /\ units[k].open
             /\ units'[k] = Closed(units[k], "superseded")
             /\ units'[n] = Replacement(units[k], b) /\ units'[m] = Remainder(units[k])
             /\ \A j \in Ids \ {k, n, m} : units'[j] = units[j]
             /\ edges' = edges \cup {<<n, k>>, <<m, k>>}
        BY <1>0, <1>8, CorrectWrites
    <2>2. units'[n].source = "none" /\ units'[m].source = units[k].source
        BY <1>0, <2>1, ReplacementUnit, RemainderUnit
    <2>3. forgotten' = forgotten /\ "none" \notin forgotten
        BY <1>0, <1>8, EpisodesAssumption DEF Correct, EpisodesAssumption
    <2>4. PICK N \in SUBSET Ids : N = {n, m}
        OBVIOUS
    <2>5. edges' = edges \cup {<<q, k>> : q \in N}
        BY <2>1, <2>4
    <2> QED BY <1>6, <2>1, <2>2, <2>3, <2>4, <2>5
<1>9. ASSUME NEW e \in Episodes, Commit(e)
      PROVE  Supersedes(e, i) \/ Reinforces(e, i)
    <2>1. PICK n :
             /\ \A j \in Ids \ {n} :
                  units'[j] = IF j # write[e].id THEN units[j]
                              ELSE IF write[e].kind = "supersede" THEN Closed(units[j], "superseded")
                              ELSE IF write[e].kind = "reinforce" THEN Reopened(units[j], write[e].state)
                              ELSE units[j]
             /\ n \in Ids => ~Present(n) /\ units'[n] = Minted(e) /\ e \notin forgotten
             /\ \/ edges' = edges
                \/ /\ n \in Ids /\ write[e].kind = "supersede"
                   /\ edges' = edges \cup {<<n, write[e].id>>}
        BY <1>0, <1>9, CommitWrites
    <2>2. forgotten' = forgotten /\ pc[e] = "write"
        BY <1>9 DEF Commit
    <2>3. \A j \in Ids \ {n} : Present(j) => units'[j].source = units[j].source
        BY Rows DEF RowKept
    <2>4. \A j \in Ids \ {n} : ~Present(j) => units'[j] = units[j]
        BY <1>0, <2>1 DEF PlansArePresent
    <2>5. \A j \in Ids \ {n} : units'[j].source = units[j].source
        BY <2>3, <2>4
    <2>6. ASSUME NEW j \in Ids \ {n}, ~Reinforces(e, j)
          PROVE  units'[j] = units[j] \/ (units'[j].body = units[j].body /\ ~units'[j].open)
        <3>1. units'[j] = units[j] \/ units'[j] = Closed(units[j], "superseded")
            BY <2>1, <2>2, <2>6 DEF Reinforces
        <3> QED BY <1>0, <3>1, ClosedUnit DEF SameContent
    <2>7. n \in Ids => units'[n].source = e
        BY <2>1, MintedUnit
    <2>8. CASE edges' = edges
        <3>1. \A j \in Ids : units'[j].source \in forgotten' => units[j].source \in forgotten
            BY <2>1, <2>2, <2>5, <2>7
        <3>2. PICK L : L = Lineage
            OBVIOUS
        <3>3. /\ L \in SUBSET Ids
              /\ \A j \in Ids : units'[j].source \in forgotten' => j \in L
              /\ \A r \in edges' : r[2] \in L => r[1] \in L
            BY <1>0, <2>8, <3>1, <3>2, LineageHolds
        <3>4. i \in L /\ (units'[i].body # "" \/ units'[i].open)
            BY <3>3, NextLineageIsLeast
        <3>5. i \in Ids \ {n}
            BY <2>1, <3>2, <3>4, LineageIsPresent
        <3> QED BY <1>1, <2>6, <3>2, <3>4, <3>5
    <2>9. CASE /\ n \in Ids /\ write[e].kind = "supersede"
               /\ edges' = edges \cup {<<n, write[e].id>>}
        <3>1. PICK k \in Ids : k = write[e].id /\ Present(k)
            BY <1>0, <2>9 DEF PlansArePresent
        <3>2. PICK N \in SUBSET Ids : N = {n}
            BY <2>9
        <3>3. /\ \A m \in N : ~Present(m)
              /\ \A r \in edges' : r \in edges \/ (r[1] \in N /\ r[2] = k)
              /\ \A j \in Ids \ N : units'[j].source = units[j].source
              /\ \A m \in N : units'[m].source \in forgotten => units'[m].source = units[k].source
            BY <2>1, <2>5, <2>7, <2>9, <3>1, <3>2
        <3>4. /\ units'[i].body # "" \/ units'[i].open
              /\ (i \in Lineage /\ i # n) \/ i = n
            <4>1. /\ units'[i].body # "" \/ units'[i].open
                  /\ (i \in Lineage /\ i \notin N) \/ (i \in N /\ k \in Lineage)
                BY <2>2, <3>1, <3>3, RowsAdded
            <4> QED BY <3>2, <4>1
        <3>5. CASE i = n
            <4>1. <<n, write[e].id>> \notin edges
                BY <2>1, <2>9 DEF CaptureInv, EdgesArePresent
            <4> QED BY <2>2, <2>9, <3>5, <4>1 DEF Supersedes
        <3>6. CASE i \in Lineage /\ i # n
            <4>1. i \in Ids \ {n}
                BY <3>6, LineageIsPresent
            <4> QED BY <1>1, <2>6, <3>4, <3>6, <4>1
        <3> QED BY <3>4, <3>5, <3>6
    <2> QED BY <2>1, <2>8, <2>9
<1> QED BY <1>2, <1>3, <1>4, <1>5, <1>7, <1>8, <1>9, Steps

\* ForgottenIsErased: a forget empties and closes everything derived from the episode, and
\* nothing of it comes back but by a re-capture planned before the forget and written by id
\* after it, or from a unit that came back so.
THEOREM ForgetErases == Spec => ForgottenIsErased
<1> DEFINE Step ==
      \A i \in Unerased' \ Unerased :
         \/ \E e \in Episodes : Supersedes(e, i) \/ Reinforces(e, i)
         \/ \E j \in Unerased : <<i, j>> \in edges'
<1>1. CaptureInv /\ [Next]_vars => [Step]_vars
    BY Returns
<1> QED BY <1>1, Invariance, PTL DEF Spec, ForgottenIsErased
=============================================================================
