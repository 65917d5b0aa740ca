-------------------------- MODULE MCReflectQueue --------------------------
(***************************************************************************)
(* An instance of ReflectQueue for TLC: one lane, and a fleet in the       *)
(* middle of an upgrade, with a worker of each compiler identity.          *)
(***************************************************************************)
EXTENDS ReflectQueue, TLC

OneLane    == [t \in Targets |-> 1]
OneTenant  == [l \in Lanes |-> 1]
MixedFleet == [w \in Workers |-> w]
OneTick    == [a \in 1..MaxAttempts |-> 1]

SymmetricTargets == Permutations(Targets)
=============================================================================
