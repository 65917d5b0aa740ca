------------------------- MODULE MCMutationLedger -------------------------
(***************************************************************************)
(* Five requests to the ledger: a mutation of subject s1 and its retry, a  *)
(* mutation of s2 that reuses the same key, and two erasures of s1 with    *)
(* one key (a request and its retry).                                      *)
(***************************************************************************)
EXTENDS MutationLedger

CONSTANTS first, retry, other, erase, eraseRetry

MCRequests  == {first, retry, other, erase, eraseRetry}
MCErasing   == {erase, eraseRetry}
MCKeyOf     == [r \in MCRequests |-> IF r \in MCErasing THEN "erase" ELSE "write"]
MCSubjectOf == [r \in MCRequests |-> IF r = other THEN "s2" ELSE "s1"]
MCBodyOf    == [r \in MCRequests |-> IF r = other THEN "b" ELSE IF r \in MCErasing THEN "e" ELSE "a"]
=============================================================================
