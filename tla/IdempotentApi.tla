--------------------------- MODULE IdempotentApi ---------------------------
(***************************************************************************)
(* What the mutating endpoints promise a client that sends an              *)
(* Idempotency-Key: within the key's window the mutation is applied at     *)
(* most once, and every success is answered with the one response recorded *)
(* when it was applied.  A response is named by the request that executed. *)
(***************************************************************************)
CONSTANTS
    Requests,   \* every request ever sent, retries included
    Keys,       \* (tenant, verb, idempotency key) triples
    KeyOf,      \* the key of a request
    BodyOf,     \* what a request asks for: subject, generation and request hash
    Nobody

VARIABLES
    receipt,    \* the request whose response a key currently replays, or Nobody
    answer      \* "none", "error", or the request whose response was sent

apiVars == <<receipt, answer>>

ApiTypeOK == /\ receipt \in [Keys -> Requests \cup {Nobody}]
             /\ answer \in [Requests -> Requests \cup {"none", "error"}]

ApiInit == /\ receipt = [k \in Keys |-> Nobody]
           /\ answer = [r \in Requests |-> "none"]

Apply(r) == /\ answer[r] = "none"
            /\ receipt[KeyOf[r]] = Nobody
            /\ receipt' = [receipt EXCEPT ![KeyOf[r]] = r]
            /\ \E a \in {r, "error"} : answer' = [answer EXCEPT ![r] = a]

\* The erasure of a data subject also removes the receipts of its other mutations.
ApplyErasure(r, S) ==
    /\ answer[r] = "none"
    /\ receipt[KeyOf[r]] = Nobody
    /\ receipt' = [k \in Keys |-> IF k = KeyOf[r] THEN r ELSE IF k \in S THEN Nobody ELSE receipt[k]]
    /\ \E a \in {r, "error"} : answer' = [answer EXCEPT ![r] = a]

Replay(r) == /\ answer[r] = "none"
             /\ receipt[KeyOf[r]] # Nobody
             /\ BodyOf[receipt[KeyOf[r]]] = BodyOf[r]
             /\ answer' = [answer EXCEPT ![r] = receipt[KeyOf[r]]]
             /\ UNCHANGED receipt

Refuse(r) == /\ answer[r] = "none"
             /\ answer' = [answer EXCEPT ![r] = "error"]
             /\ UNCHANGED receipt

\* The 24 hour window of a key ends.
Lapse(k) == /\ receipt' = [receipt EXCEPT ![k] = Nobody]
            /\ UNCHANGED answer

ApiNext == \/ \E r \in Requests : Apply(r) \/ Replay(r) \/ Refuse(r)
           \/ \E r \in Requests, S \in SUBSET Keys : ApplyErasure(r, S)
           \/ \E k \in Keys : Lapse(k)

ApiSpec == ApiInit /\ [][ApiNext]_apiVars
=============================================================================
