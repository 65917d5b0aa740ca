----------------------- MODULE MutationLedgerProofs -----------------------
(***************************************************************************)
(* Proofs about the mutation ledger, for any set of requests, keys, bodies *)
(* and data subjects: its type, that an erasure leaves nothing behind, and *)
(* that it implements IdempotentApi.                                       *)
(***************************************************************************)
EXTENDS MutationLedger, TLAPS

-----------------------------------------------------------------------------
(***************************************************************************)
(* The inductive invariant.                                                *)
(***************************************************************************)

Claiming(r) == pc[r] \in {"execute", "respond"}

\* The row lock of a key belongs to a transaction that claimed it, and to nobody else.
ClaimIsHeld ==
    \A r \in Requests : Claiming(r) => holder[KeyOf[r]] = r

\* Nobody claims a key that still replays a response.
ClaimIsFresh ==
    \A r \in Requests :
        Claiming(r) => ledger[KeyOf[r]] = Nobody \/ KeyOf[r] \in expired

\* Only a row that is there can be past its window.
ExpiredIsStored == \A k \in expired : ledger[k] # Nobody

\* A request is answered when its transaction ends.
OpenIsUnanswered == \A r \in Requests : pc[r] # "end" => answer[r] = "none"

\* The subject of a transaction is there: its row is locked.
LockedIsAlive == \A r \in Requests : InTransaction(r) => SubjectOf[r] \in alive

\* An erasure shares the lock of its subject with no other transaction.
ErasureIsAlone ==
    \A q, r \in Requests :
        /\ InTransaction(q) /\ InTransaction(r) /\ q # r
        /\ SubjectOf[q] = SubjectOf[r]
        => q \notin Erasing

\* What the ledger still knows of an erased subject is that it was erased.
DeadLeavesErasures ==
    \A k \in Keys : ledger[k] # Nobody /\ SubjectOf[ledger[k]] \notin alive
                       => ledger[k] \in Erasing

LedgerInv ==
    /\ TypeOK
    /\ ClaimIsHeld /\ ClaimIsFresh /\ ExpiredIsStored /\ OpenIsUnanswered
    /\ LockedIsAlive /\ ErasureIsAlone /\ DeadLeavesErasures

-----------------------------------------------------------------------------
(***************************************************************************)
(* Every action preserves the invariant.                                   *)
(***************************************************************************)

\* Nothing has been claimed when the store opens.
LEMMA InitInv == Init => LedgerInv
BY RequestsAssumption
   DEF Init, LedgerInv, TypeOK, ClaimIsHeld, ClaimIsFresh, ExpiredIsStored,
       OpenIsUnanswered, LockedIsAlive, ErasureIsAlone, DeadLeavesErasures,
       Claiming, InTransaction, RequestsAssumption

\* A transaction that ends without a commit frees its locks and changes nothing else.
LEMMA EndInv ==
    ASSUME LedgerInv, NEW r \in Requests,
           NEW a \in Requests \cup {"none", "error"}, End(r, a)
    PROVE  LedgerInv'
<1> USE RequestsAssumption DEF RequestsAssumption
<1>1. TypeOK'
  BY DEF LedgerInv, TypeOK, End, Freed
<1>2. \A q \in Requests : /\ q # r => pc'[q] = pc[q] /\ answer'[q] = answer[q]
                          /\ pc'[r] = "end"
  BY DEF LedgerInv, TypeOK, End
<1>3. ClaimIsHeld'
  BY <1>2 DEF LedgerInv, TypeOK, End, Freed, ClaimIsHeld, Claiming
<1>4. ClaimIsFresh'
  BY <1>2 DEF LedgerInv, End, ClaimIsFresh, Claiming
<1>5. ExpiredIsStored' /\ DeadLeavesErasures'
  BY DEF LedgerInv, End, ExpiredIsStored, DeadLeavesErasures
<1>6. OpenIsUnanswered'
  BY <1>2 DEF LedgerInv, OpenIsUnanswered
<1>7. LockedIsAlive' /\ ErasureIsAlone'
  BY <1>2 DEF LedgerInv, End, LockedIsAlive, ErasureIsAlone, InTransaction
<1> QED BY <1>1, <1>3, <1>4, <1>5, <1>6, <1>7 DEF LedgerInv

\* Locking the subject: the transaction begins, or ends because there is no subject.
LEMMA LockSubjectInv ==
    ASSUME LedgerInv, NEW r \in Requests, LockSubject(r)
    PROVE  LedgerInv'
<1> USE RequestsAssumption DEF RequestsAssumption
<1>1. CASE SubjectOf[r] \in alive
  <2>0. Goto(r, "insert") /\ UNCHANGED holder /\ pc[r] = "begin" /\ SubjectLockFree(r)
    BY <1>1 DEF LockSubject
  <2>1. TypeOK'
    BY <2>0 DEF LedgerInv, TypeOK, Goto
  <2>2. \A q \in Requests : (q # r => pc'[q] = pc[q]) /\ pc'[r] = "insert"
    BY <2>0 DEF LedgerInv, TypeOK, Goto
  <2>3. ClaimIsHeld' /\ ClaimIsFresh' /\ ExpiredIsStored' /\ DeadLeavesErasures'
    BY <2>0, <2>2 DEF LedgerInv, Goto, ClaimIsHeld, ClaimIsFresh, Claiming,
       ExpiredIsStored, DeadLeavesErasures
  <2>4. OpenIsUnanswered' /\ LockedIsAlive'
    BY <1>1, <2>0, <2>2 DEF LedgerInv, Goto, OpenIsUnanswered, LockedIsAlive, InTransaction
  <2>5. ErasureIsAlone'
    BY <2>0, <2>2 DEF LedgerInv, Goto, ErasureIsAlone, InTransaction, SubjectLockFree
  <2> QED BY <2>1, <2>3, <2>4, <2>5 DEF LedgerInv
<1>2. CASE SubjectOf[r] \notin alive
  <2> DEFINE a == IF r \in Erasing /\ Replayable(r) THEN ledger[KeyOf[r]] ELSE "error"
  <2>1. End(r, a)
    BY <1>2 DEF LockSubject
  <2>2. a \in Requests \cup {"none", "error"}
    BY DEF LedgerInv, TypeOK, Replayable
  <2> HIDE DEF a
  <2> QED BY <2>1, <2>2, EndInv
<1> QED BY <1>1, <1>2

\* A transaction that goes on, without a claim or with a claim it may make.
LEMMA GotoInv ==
    ASSUME LedgerInv, NEW r \in Requests, NEW p \in {"select", "execute", "respond"},
           InTransaction(r), Goto(r, p),
           \/ UNCHANGED holder /\ (p = "select" \/ Claiming(r))
           \/ /\ holder[KeyOf[r]] = Nobody
              /\ ledger[KeyOf[r]] = Nobody \/ KeyOf[r] \in expired
              /\ holder' = [holder EXCEPT ![KeyOf[r]] = r]
    PROVE  LedgerInv'
<1> USE RequestsAssumption DEF RequestsAssumption
<1>1. TypeOK'
  BY DEF LedgerInv, TypeOK, Goto
<1>2. \A q \in Requests : (q # r => pc'[q] = pc[q]) /\ pc'[r] = p
  BY DEF LedgerInv, TypeOK, Goto
<1>3. ClaimIsHeld'
  BY <1>2 DEF LedgerInv, TypeOK, ClaimIsHeld, Claiming
<1>4. ClaimIsFresh'
  BY <1>2 DEF LedgerInv, Goto, ClaimIsFresh, Claiming
<1>5. ExpiredIsStored' /\ DeadLeavesErasures'
  BY DEF LedgerInv, Goto, ExpiredIsStored, DeadLeavesErasures
<1>6. OpenIsUnanswered'
  BY <1>2 DEF LedgerInv, Goto, OpenIsUnanswered, InTransaction
<1>7. LockedIsAlive' /\ ErasureIsAlone'
  BY <1>2 DEF LedgerInv, Goto, LockedIsAlive, ErasureIsAlone, InTransaction
<1> QED BY <1>1, <1>3, <1>4, <1>5, <1>6, <1>7 DEF LedgerInv

\* insert ... on conflict do nothing.
LEMMA InsertClaimInv ==
    ASSUME LedgerInv, NEW r \in Requests, InsertClaim(r)
    PROVE  LedgerInv'
<1>1. InTransaction(r)
  BY DEF InsertClaim, InTransaction
<1>2. CASE Goto(r, "select") /\ UNCHANGED holder
  BY <1>1, <1>2, GotoInv
<1>3. CASE /\ Unclaimed(KeyOf[r]) /\ Goto(r, "execute")
           /\ holder' = [holder EXCEPT ![KeyOf[r]] = r]
  BY <1>1, <1>3, GotoInv DEF Unclaimed
<1> QED BY <1>2, <1>3 DEF InsertClaim

\* select ... for update of the row in the way.
LEMMA SelectClaimInv ==
    ASSUME LedgerInv, NEW r \in Requests, SelectClaim(r)
    PROVE  LedgerInv'
<1> DEFINE a == IF Replayable(r) THEN ledger[KeyOf[r]] ELSE "error"
<1>1. InTransaction(r) /\ holder[KeyOf[r]] = Nobody
  BY DEF SelectClaim, InTransaction
<1>2. a \in Requests \cup {"none", "error"}
  BY RequestsAssumption DEF LedgerInv, TypeOK, Replayable, RequestsAssumption
<1>3. CASE End(r, "error")
  BY <1>3, EndInv
<1>4. CASE /\ KeyOf[r] \in expired /\ Goto(r, "execute")
           /\ holder' = [holder EXCEPT ![KeyOf[r]] = r]
  BY <1>1, <1>4, GotoInv
<1>5. CASE End(r, a)
  <2> HIDE DEF a
  <2> QED BY <1>2, <1>5, EndInv
<1> QED BY <1>3, <1>4, <1>5 DEF SelectClaim

\* The verb's own writes.
LEMMA ExecuteInv ==
    ASSUME LedgerInv, NEW r \in Requests, Execute(r)
    PROVE  LedgerInv'
BY GotoInv DEF Execute, InTransaction, Claiming

\* The commit.  A transaction of the same subject is not under way when an erasure
\* commits, so the subject it takes away is nobody else's.
LEMMA CommitInv ==
    ASSUME LedgerInv, NEW r \in Requests, Commit(r)
    PROVE  LedgerInv'
<1> USE RequestsAssumption DEF RequestsAssumption
<1>1. /\ pc[r] = "respond" /\ ledger' = LedgerAfter(r) /\ holder' = Freed(r)
      /\ expired' = {k \in expired : ledger'[k] = ledger[k] /\ k # KeyOf[r]}
      /\ alive' = IF r \in Erasing THEN alive \ {SubjectOf[r]} ELSE alive
      /\ applied' = applied \cup {r} /\ pc' = [pc EXCEPT ![r] = "end"]
  BY DEF Commit
<1>2. PICK a \in {r, "error"} : answer' = [answer EXCEPT ![r] = a]
  BY DEF Commit
<1>3. \A q \in Requests : /\ q # r => pc'[q] = pc[q] /\ answer'[q] = answer[q]
                          /\ pc'[r] = "end"
  BY <1>1, <1>2 DEF LedgerInv, TypeOK
<1>4. InTransaction(r) /\ SubjectOf[r] \in alive
  BY <1>1 DEF LedgerInv, LockedIsAlive, InTransaction
<1>5. TypeOK'
  BY <1>1, <1>2 DEF LedgerInv, TypeOK, LedgerAfter, Freed
<1>6. ClaimIsHeld'
  BY <1>1, <1>3 DEF LedgerInv, TypeOK, Freed, ClaimIsHeld, Claiming
<1>7. ClaimIsFresh'
  <2> SUFFICES ASSUME NEW q \in Requests, Claiming(q)'
               PROVE  ledger'[KeyOf[q]] = Nobody \/ KeyOf[q] \in expired'
    BY DEF ClaimIsFresh
  <2>1. q # r /\ Claiming(q)
    BY <1>3 DEF Claiming
  <2>2. holder[KeyOf[q]] = q /\ holder[KeyOf[r]] = r
    BY <1>1, <2>1 DEF LedgerInv, ClaimIsHeld, Claiming
  <2>3. KeyOf[q] # KeyOf[r] /\ KeyOf[q] \in Keys
    BY <2>1, <2>2
  <2>4. ledger[KeyOf[q]] = Nobody \/ KeyOf[q] \in expired
    BY <2>1 DEF LedgerInv, ClaimIsFresh
  <2> QED BY <1>1, <2>3, <2>4 DEF LedgerAfter
<1>8. ExpiredIsStored'
  BY <1>1 DEF LedgerInv, ExpiredIsStored
<1>9. OpenIsUnanswered'
  BY <1>3 DEF LedgerInv, OpenIsUnanswered
<1>10. LockedIsAlive'
  <2> SUFFICES ASSUME NEW q \in Requests, InTransaction(q)'
               PROVE  SubjectOf[q] \in alive'
    BY DEF LockedIsAlive
  <2>1. q # r /\ InTransaction(q)
    BY <1>3 DEF InTransaction
  <2>2. r \in Erasing => SubjectOf[q] # SubjectOf[r]
    BY <1>4, <2>1 DEF LedgerInv, ErasureIsAlone
  <2> QED BY <1>1, <2>1, <2>2 DEF LedgerInv, LockedIsAlive
<1>11. ErasureIsAlone'
  BY <1>3 DEF LedgerInv, ErasureIsAlone, InTransaction
<1>12. DeadLeavesErasures'
  BY <1>1, <1>4 DEF LedgerInv, TypeOK, DeadLeavesErasures, LedgerAfter
<1> QED BY <1>5, <1>6, <1>7, <1>8, <1>9, <1>10, <1>11, <1>12 DEF LedgerInv

\* The window of a key ends, and its row is purged.
LEMMA ExpireInv ==
    ASSUME LedgerInv, NEW k \in Keys, Expire(k)
    PROVE  LedgerInv'
BY DEF Expire, LedgerInv, TypeOK, ClaimIsHeld, ClaimIsFresh, ExpiredIsStored,
       OpenIsUnanswered, LockedIsAlive, ErasureIsAlone, DeadLeavesErasures,
       Claiming, InTransaction

\* purge_expired_mutation_receipts leaves a row that a transaction has claimed.
LEMMA PurgeInv ==
    ASSUME LedgerInv, NEW k \in Keys, Purge(k)
    PROVE  LedgerInv'
<1> USE RequestsAssumption DEF RequestsAssumption
<1>1. TypeOK' /\ ExpiredIsStored' /\ DeadLeavesErasures' /\ ClaimIsFresh'
  BY DEF Purge, LedgerInv, TypeOK, ClaimIsFresh, ExpiredIsStored, DeadLeavesErasures,
         Claiming
<1>2. ClaimIsHeld' /\ OpenIsUnanswered' /\ LockedIsAlive' /\ ErasureIsAlone'
  BY DEF Purge, LedgerInv, ClaimIsHeld, OpenIsUnanswered, LockedIsAlive, ErasureIsAlone,
         Claiming, InTransaction
<1> QED BY <1>1, <1>2 DEF LedgerInv

\* Every step of the specification preserves the invariant.
LEMMA NextInv == LedgerInv /\ [Next]_vars => LedgerInv'
<1> SUFFICES ASSUME LedgerInv, [Next]_vars PROVE LedgerInv'
  OBVIOUS
<1>1. ASSUME NEW r \in Requests, Step(r) PROVE LedgerInv'
  BY <1>1, LockSubjectInv, InsertClaimInv, SelectClaimInv, ExecuteInv, CommitInv DEF Step
<1>2. ASSUME NEW r \in Requests, Abort(r) PROVE LedgerInv'
  BY <1>2, EndInv DEF Abort
<1>3. ASSUME NEW k \in Keys, Expire(k) \/ Purge(k) PROVE LedgerInv'
  BY <1>3, ExpireInv, PurgeInv
<1>4. CASE UNCHANGED vars
  BY <1>4 DEF vars, LedgerInv, TypeOK, ClaimIsHeld, ClaimIsFresh, ExpiredIsStored,
       OpenIsUnanswered, LockedIsAlive, ErasureIsAlone, DeadLeavesErasures,
       Claiming, InTransaction
<1> QED BY <1>1, <1>2, <1>3, <1>4 DEF Next

\* The invariant holds in every reachable state.
LEMMA InvHolds == Spec => []LedgerInv
BY InitInv, NextInv, PTL DEF Spec

-----------------------------------------------------------------------------
(***************************************************************************)
(* What the store promises.                                                *)
(***************************************************************************)

\* The ledger, its locks and the answers have their types, whatever the requests do.
THEOREM TypeCorrect == Spec => []TypeOK
<1>1. LedgerInv => TypeOK
  BY DEF LedgerInv
<1> QED BY <1>1, InvHolds, PTL

\* Once the erasure of a subject has committed (stage_subject_erasure) no mutation of it
\* commits, and the ledger knows nothing of it but receipts of erasures.
THEOREM ErasureCompletes == Spec => ErasureIsComplete
<1> DEFINE Complete ==
      /\ \A r \in applied' \ applied : SubjectOf[r] \in alive
      /\ \A k \in Keys : ledger'[k] # Nobody /\ SubjectOf[ledger'[k]] \notin alive'
                            => ledger'[k] \in Erasing
<1>1. LedgerInv /\ LedgerInv' /\ [Next]_vars => [Complete]_vars
  <2> SUFFICES ASSUME LedgerInv, LedgerInv', [Next]_vars PROVE Complete
    OBVIOUS
  <2>1. \A k \in Keys : ledger'[k] # Nobody /\ SubjectOf[ledger'[k]] \notin alive'
                            => ledger'[k] \in Erasing
    BY DEF LedgerInv, DeadLeavesErasures
  <2>2. ASSUME NEW r \in applied' \ applied PROVE SubjectOf[r] \in alive
    <3>1. ASSUME NEW q \in Requests, Commit(q) PROVE r = q /\ InTransaction(q)
      BY <3>1, <2>2 DEF Commit, InTransaction
    <3>2. ASSUME NEW q \in Requests, Step(q) \/ Abort(q), ~Commit(q) PROVE FALSE
      BY <2>2, <3>2 DEF Step, Abort, LockSubject, InsertClaim, SelectClaim, Execute, Goto, End
    <3>3. ASSUME NEW k \in Keys, Expire(k) \/ Purge(k) PROVE FALSE
      BY <2>2, <3>3 DEF Expire, Purge
    <3>4. PICK q \in Requests : Commit(q)
      BY <2>2, <3>2, <3>3 DEF Next, vars
    <3> QED BY <3>1, <3>4 DEF LedgerInv, LockedIsAlive
  <2> QED BY <2>1, <2>2
<1> QED BY <1>1, InvHolds, PTL DEF Spec, ErasureIsComplete

-----------------------------------------------------------------------------
(***************************************************************************)
(* The refinement: the receipts a client can see are the ledger's rows     *)
(* within their window.                                                    *)
(***************************************************************************)

Receipt == [k \in Keys |-> IF k \in expired THEN Nobody ELSE ledger[k]]

\* A step that leaves the rows, their windows and the answers alone is a stutter.
LEMMA UnseenStep ==
    ASSUME UNCHANGED <<ledger, expired, answer>>
    PROVE  UNCHANGED Api!apiVars
BY DEF Api!apiVars

\* A transaction that ends without a commit answers with an error, or with the response
\* of the row it found.
LEMMA EndStep ==
    ASSUME LedgerInv, NEW r \in Requests, pc[r] # "end",
           NEW a, a = "error" \/ (Replayable(r) /\ a = ledger[KeyOf[r]]), End(r, a)
    PROVE  Api!ApiNext
<1> USE RequestsAssumption DEF RequestsAssumption
<1>1. answer[r] = "none" /\ answer' = [answer EXCEPT ![r] = a] /\ Receipt' = Receipt
  BY DEF LedgerInv, OpenIsUnanswered, End, Receipt
<1>2. CASE a = "error"
  <2>1. Api!Refuse(r)
    BY <1>1, <1>2 DEF Api!Refuse, Receipt
  <2> QED BY <2>1 DEF Api!ApiNext
<1>3. CASE Replayable(r) /\ a = ledger[KeyOf[r]]
  <2>1. Receipt[KeyOf[r]] = a /\ a # Nobody /\ BodyOf[a] = BodyOf[r]
    BY <1>3 DEF Replayable, Receipt
  <2>2. Api!Replay(r)
    BY <1>1, <2>1 DEF Api!Replay, Receipt
  <2> QED BY <2>2 DEF Api!ApiNext
<1> QED BY <1>2, <1>3

\* A commit applies the mutation to a key that replays nothing; that of an erasure takes
\* the other receipts of its subject away.
LEMMA CommitStep ==
    ASSUME LedgerInv, NEW r \in Requests, Commit(r)
    PROVE  Api!ApiNext
<1> USE RequestsAssumption DEF RequestsAssumption
<1>1. answer[r] = "none" /\ Claiming(r)
  BY DEF LedgerInv, OpenIsUnanswered, Commit, Claiming
<1>2. Receipt[KeyOf[r]] = Nobody
  BY <1>1 DEF LedgerInv, ClaimIsFresh, Receipt
<1>3. ledger' = LedgerAfter(r)
      /\ expired' = {k \in expired : ledger'[k] = ledger[k] /\ k # KeyOf[r]}
  BY DEF Commit
<1>4. PICK S \in SUBSET Keys :
        Receipt' = [k \in Keys |-> IF k = KeyOf[r] THEN r
                                  ELSE IF k \in S THEN Nobody ELSE Receipt[k]]
  <2> DEFINE T == {k \in Keys : /\ r \in Erasing /\ ledger[k] # Nobody
                                /\ SubjectOf[ledger[k]] = SubjectOf[r]}
  <2>1. ASSUME NEW k \in Keys
        PROVE  Receipt'[k] = IF k = KeyOf[r] THEN r
                             ELSE IF k \in T THEN Nobody ELSE Receipt[k]
    <3>1. CASE k = KeyOf[r]
      BY <1>3, <3>1 DEF Receipt, LedgerAfter
    <3>2. CASE k # KeyOf[r] /\ k \in T
      BY <1>3, <3>2 DEF Receipt, LedgerAfter
    <3>3. CASE k # KeyOf[r] /\ k \notin T
      BY <1>3, <3>3 DEF Receipt, LedgerAfter
    <3> QED BY <3>1, <3>2, <3>3
  <2>2. T \in SUBSET Keys
    OBVIOUS
  <2> HIDE DEF T
  <2>3. Receipt' = [k \in Keys |-> IF k = KeyOf[r] THEN r
                                  ELSE IF k \in T THEN Nobody ELSE Receipt[k]]
    BY <2>1 DEF Receipt
  <2> QED BY <2>2, <2>3
<1>5. \E a \in {r, "error"} : answer' = [answer EXCEPT ![r] = a]
  BY DEF Commit
<1>6. Api!ApplyErasure(r, S)
  BY <1>1, <1>2, <1>4, <1>5 DEF Api!ApplyErasure, Receipt
<1> QED BY <1>6 DEF Api!ApiNext

\* The end of a key's window is the end of its receipt; purging the row shows nothing.
LEMMA WindowStep ==
    ASSUME LedgerInv, NEW k \in Keys, Expire(k) \/ Purge(k)
    PROVE  [Api!ApiNext]_Api!apiVars
<1>1. CASE Expire(k)
  <2>1. Receipt' = [Receipt EXCEPT ![k] = Nobody] /\ UNCHANGED answer
    BY <1>1 DEF Expire, Receipt
  <2>2. Api!Lapse(k)
    BY <2>1 DEF Api!Lapse, Receipt
  <2> QED BY <2>2 DEF Api!ApiNext
<1>2. CASE Purge(k)
  <2>1. Receipt' = Receipt /\ UNCHANGED answer
    BY <1>2 DEF Purge, Receipt, LedgerInv, TypeOK
  <2> QED BY <2>1 DEF Receipt, Api!apiVars
<1> QED BY <1>1, <1>2

\* Every step of the ledger is a step of the promise, or invisible to the clients.
LEMMA NextStep == LedgerInv /\ [Next]_vars => [Api!ApiNext]_Api!apiVars
<1> SUFFICES ASSUME LedgerInv, [Next]_vars PROVE [Api!ApiNext]_Api!apiVars
  OBVIOUS
<1>1. ASSUME NEW r \in Requests, Step(r) PROVE [Api!ApiNext]_Api!apiVars
  <2>1. CASE LockSubject(r)
    <3>1. CASE SubjectOf[r] \in alive
      BY <2>1, <3>1, UnseenStep DEF LockSubject, Goto
    <3>2. CASE SubjectOf[r] \notin alive
      <4> DEFINE a == IF r \in Erasing /\ Replayable(r) THEN ledger[KeyOf[r]] ELSE "error"
      <4>1. End(r, a) /\ pc[r] # "end"
        BY <2>1, <3>2 DEF LockSubject
      <4>2. a = "error" \/ (Replayable(r) /\ a = ledger[KeyOf[r]])
        OBVIOUS
      <4> HIDE DEF a
      <4> QED BY <4>1, <4>2, EndStep
    <3> QED BY <3>1, <3>2
  <2>2. CASE InsertClaim(r) \/ Execute(r)
    BY <2>2, UnseenStep DEF InsertClaim, Execute, Goto
  <2>3. CASE SelectClaim(r)
    <3> DEFINE a == IF Replayable(r) THEN ledger[KeyOf[r]] ELSE "error"
    <3>1. a = "error" \/ (Replayable(r) /\ a = ledger[KeyOf[r]])
      OBVIOUS
    <3>2. pc[r] # "end"
      BY <2>3 DEF SelectClaim
    <3>3. End(r, "error") \/ End(r, a) \/ Goto(r, "execute")
      BY <2>3 DEF SelectClaim
    <3> HIDE DEF a
    <3>4. CASE Goto(r, "execute")
      BY <3>4, UnseenStep DEF Goto
    <3> QED BY <3>1, <3>2, <3>3, <3>4, EndStep
  <2>4. CASE Commit(r)
    BY <2>4, CommitStep
  <2> QED BY <1>1, <2>1, <2>2, <2>3, <2>4 DEF Step
<1>2. ASSUME NEW r \in Requests, Abort(r) PROVE [Api!ApiNext]_Api!apiVars
  BY <1>2, EndStep DEF Abort
<1>3. ASSUME NEW k \in Keys, Expire(k) \/ Purge(k) PROVE [Api!ApiNext]_Api!apiVars
  BY <1>3, WindowStep
<1>4. CASE UNCHANGED vars
  BY <1>4, UnseenStep DEF vars
<1> QED BY <1>1, <1>2, <1>3, <1>4 DEF Next

\* The ledger implements IdempotentApi under every interleaving, failure and retry
\* (stage_mutation_claim, stage_mutation_response): a mutation is applied at most once per
\* key and window, and every success within it carries the same response.
THEOREM LedgerImplementsApi == Spec => ImplementsApi
<1>1. Init => Api!ApiInit
  BY DEF Init, Api!ApiInit
<1> QED BY <1>1, InvHolds, NextStep, PTL DEF Spec, ImplementsApi, Api!ApiSpec
=============================================================================
