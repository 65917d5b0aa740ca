-------------------------- MODULE MutationLedger --------------------------
(***************************************************************************)
(* The idempotency ledger of the Postgres store under concurrent requests. *)
(* A mutating request runs in one READ COMMITTED transaction: it locks the *)
(* data subject (shared, or exclusively to erase it), claims its key in    *)
(* memphant.mutation_ledger, stages its writes and its response, and       *)
(* commits.  What a transaction stages becomes visible when it commits;    *)
(* its locks are held until it ends.  Requests block on each other's locks,*)
(* fail, die before or after their commit, and are retried by the client   *)
(* as new requests with the same key.                                      *)
(***************************************************************************)
EXTENDS FiniteSets

CONSTANTS
    Requests, Keys, KeyOf, BodyOf, Nobody,
    Subjects,
    SubjectOf,  \* the data subject of a request
    Erasing     \* the erase_subject requests

ASSUME RequestsAssumption ==
    /\ Nobody \notin Requests
    /\ "none" \notin Requests /\ "error" \notin Requests
    /\ KeyOf \in [Requests -> Keys]
    /\ SubjectOf \in [Requests -> Subjects]
    /\ Erasing \subseteq Requests

\* The request hash, the subject and its generation are part of the body, and the
\* verb is part of the key.
ASSUME BodyAssumption ==
    \A q, r \in Requests :
        /\ BodyOf[q] = BodyOf[r] => SubjectOf[q] = SubjectOf[r]
        /\ KeyOf[q] = KeyOf[r] => (q \in Erasing <=> r \in Erasing)

VARIABLES
    alive,      \* subjects with a row in memphant.subject
    ledger,     \* committed ledger: the request whose response is stored, or Nobody
    expired,    \* keys whose committed row is past expires_at
    pc,         \* where a request's transaction stands
    holder,     \* the transaction holding the row lock of a key, or Nobody
    answer,     \* what the client was told
    applied     \* history: requests whose writes have been committed

vars == <<alive, ledger, expired, pc, holder, answer, applied>>

TypeOK ==
    /\ alive \subseteq Subjects
    /\ ledger \in [Keys -> Requests \cup {Nobody}]
    /\ expired \subseteq Keys
    /\ pc \in [Requests -> {"begin", "insert", "select", "execute", "respond", "end"}]
    /\ holder \in [Keys -> Requests \cup {Nobody}]
    /\ answer \in [Requests -> Requests \cup {"none", "error"}]
    /\ applied \subseteq Requests

Init ==
    /\ alive = Subjects
    /\ ledger = [k \in Keys |-> Nobody]
    /\ expired = {}
    /\ pc = [r \in Requests |-> "begin"]
    /\ holder = [k \in Keys |-> Nobody]
    /\ answer = [r \in Requests |-> "none"]
    /\ applied = {}

-----------------------------------------------------------------------------
\* A transaction holds its subject lock from the claim to its end.
InTransaction(r) == pc[r] \in {"insert", "select", "execute", "respond"}

SubjectLockFree(r) ==
    \A q \in Requests : InTransaction(q) /\ SubjectOf[q] = SubjectOf[r]
                          => q \notin Erasing /\ r \notin Erasing

FreedNothing(r) == holder         \* mutant: the claim outlives its transaction
Freed(r) == [k \in Keys |-> IF holder[k] = r THEN Nobody ELSE holder[k]]

\* The transaction ends without a commit, and the client gets an answer.
End(r, a) == /\ pc' = [pc EXCEPT ![r] = "end"]
             /\ answer' = [answer EXCEPT ![r] = a]
             /\ holder' = Freed(r)
             /\ UNCHANGED <<alive, ledger, expired, applied>>

Goto(r, p) == /\ pc' = [pc EXCEPT ![r] = p]
              /\ UNCHANGED <<alive, ledger, expired, answer, applied>>

\* Mutant: the receipt is found by its key alone.
ReplayableByKey(r) == ledger[KeyOf[r]] # Nobody /\ KeyOf[r] \notin expired

Replayable(r) == LET k == KeyOf[r] IN
    ledger[k] # Nobody /\ k \notin expired /\ BodyOf[ledger[k]] = BodyOf[r]

\* stage_mutation_claim, first part: lock the subject row.  Without one the subject is
\* erased; an erasure may still be replayed from its receipt.
LockSubject(r) ==
    /\ pc[r] = "begin"
    /\ SubjectLockFree(r)
    /\ IF SubjectOf[r] \in alive
         THEN Goto(r, "insert") /\ UNCHANGED holder
         ELSE /\ r \in Erasing => holder[KeyOf[r]] = Nobody
              /\ End(r, IF r \in Erasing /\ Replayable(r) THEN ledger[KeyOf[r]] ELSE "error")

Unclaimed(k) == ledger[k] = Nobody /\ holder[k] = Nobody

\* insert ... on conflict do nothing: waits for a transaction that has inserted the same
\* key and not committed; finds a committed row at once.
InsertClaim(r) ==
    /\ pc[r] = "insert"
    /\ LET k == KeyOf[r] IN
       \/ /\ ledger[k] # Nobody
          /\ Goto(r, "select") /\ UNCHANGED holder
       \/ /\ Unclaimed(k)
          /\ Goto(r, "execute")
          /\ holder' = [holder EXCEPT ![k] = r]

\* select ... for update of the row that was in the way: it may have been purged or
\* erased since, may be past its window (claimed afresh), may belong to another
\* mutation (conflict), or holds the response to replay.
SelectClaim(r) ==
    /\ pc[r] = "select"
    /\ LET k == KeyOf[r] IN
       /\ holder[k] = Nobody
       /\ \/ /\ ledger[k] = Nobody
             /\ End(r, "error")
          \/ /\ ledger[k] # Nobody /\ k \in expired
             /\ Goto(r, "execute")
             /\ holder' = [holder EXCEPT ![k] = r]
          \/ /\ ledger[k] # Nobody /\ k \notin expired
             /\ End(r, IF Replayable(r) THEN ledger[k] ELSE "error")

\* The verb's own writes, then stage_mutation_response.
Execute(r) ==
    /\ pc[r] = "execute"
    /\ Goto(r, "respond")
    /\ UNCHANGED holder

\* Mutant: an erasure keeps the other receipts.
LedgerKept(r) == [ledger EXCEPT ![KeyOf[r]] = r]

\* What the commit leaves in the ledger.  An erasure deletes every other receipt of its
\* subject with it.
LedgerAfter(r) ==
    [k \in Keys |->
        IF k = KeyOf[r] THEN r
        ELSE IF r \in Erasing /\ ledger[k] # Nobody /\ SubjectOf[ledger[k]] = SubjectOf[r]
               THEN Nobody
               ELSE ledger[k]]

\* commit.  The client may never see the answer: the process or the connection dies.
\* The deletes of an erasure wait for row locks other requests hold.
Commit(r) ==
    /\ pc[r] = "respond"
    /\ \A k \in Keys : LedgerAfter(r)[k] # ledger[k] => holder[k] \in {r, Nobody}
    /\ ledger' = LedgerAfter(r)
    /\ expired' = {k \in expired : ledger'[k] = ledger[k] /\ k # KeyOf[r]}
    /\ alive' = IF r \in Erasing THEN alive \ {SubjectOf[r]} ELSE alive
    /\ applied' = applied \cup {r}
    /\ holder' = Freed(r)
    /\ pc' = [pc EXCEPT ![r] = "end"]
    /\ \E a \in {r, "error"} : answer' = [answer EXCEPT ![r] = a]

\* Any statement fails, a wait for a lock is given up, or the process dies: the
\* transaction rolls back.
Abort(r) == pc[r] # "end" /\ End(r, "error")

-----------------------------------------------------------------------------
\* 24 hours pass.
Expire(k) ==
    /\ ledger[k] # Nobody /\ k \notin expired
    /\ expired' = expired \cup {k}
    /\ UNCHANGED <<alive, ledger, pc, holder, answer, applied>>

\* purge_expired_mutation_receipts, skipping locked rows.
Purge(k) ==
    /\ k \in expired /\ holder[k] = Nobody
    /\ ledger' = [ledger EXCEPT ![k] = Nobody]
    /\ expired' = expired \ {k}
    /\ UNCHANGED <<alive, pc, holder, answer, applied>>

Step(r) == LockSubject(r) \/ InsertClaim(r) \/ SelectClaim(r) \/ Execute(r) \/ Commit(r)

AllAnswered == \A r \in Requests : pc[r] = "end"

Next ==
    \/ \E r \in Requests : Step(r) \/ Abort(r)
    \/ \E k \in Keys : Expire(k) \/ Purge(k)
    \/ AllAnswered /\ UNCHANGED vars

Spec == Init /\ [][Next]_vars

\* A transaction whose locks are granted goes on.
FairSpec == Spec /\ \A r \in Requests : WF_vars(Step(r))

-----------------------------------------------------------------------------
Api == INSTANCE IdempotentApi WITH
         receipt <- [k \in Keys |-> IF k \in expired THEN Nobody ELSE ledger[k]]

\* The ledger keeps the promise of IdempotentApi under every interleaving, failure and
\* retry: a mutation is applied at most once per key and window and every success within
\* it carries the same response.
ImplementsApi == Api!ApiSpec

\* Once the erasure of a subject has committed no mutation of it does: requests in flight
\* are waited for (for share against for update), later ones find no subject.  And the
\* ledger knows nothing of the subject but receipts of erasures.
ErasureIsComplete ==
    [][/\ \A r \in applied' \ applied : SubjectOf[r] \in alive
       /\ \A k \in Keys : ledger'[k] # Nobody /\ SubjectOf[ledger'[k]] \notin alive'
                             => ledger'[k] \in Erasing]_vars

\* Requests that wait for each other's locks never wait for ever.
EveryRequestAnswered == \A r \in Requests : <>(pc[r] = "end")
=============================================================================
