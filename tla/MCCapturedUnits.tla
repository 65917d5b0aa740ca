-------------------------- MODULE MCCapturedUnits --------------------------
(***************************************************************************)
(* Instances of CapturedUnits for TLC: a mirror, a summary that agrees and *)
(* a later mirror that says the same again; corrections make them differ.  *)
(***************************************************************************)
EXTENDS CapturedUnits

MCFamilyOf == [e \in Episodes |-> IF e = "summary" THEN "summary" ELSE "mirror"]
MCBodyOf   == [e \in Episodes |-> "x"]

\* Two jobs or marks overlap, and one episode is forgotten.
TwoOverlap ==
    /\ Cardinality({p \in Processes : pc[p] \notin {"start", "done"}}) <= 2
    /\ Cardinality(forgotten) <= 1
=============================================================================
