-------------------------- MODULE MCReflectDrain --------------------------
(***************************************************************************)
(* Instances of ReflectDrain for TLC.                                      *)
(***************************************************************************)
EXTENDS ReflectDrain

LanePerTarget   == [t \in Targets |-> t]
OneTenant       == [l \in Lanes |-> 1]
NoProviderFleet == [w \in Workers |-> NoProvider]
OneTick         == [a \in 1..MaxAttempts |-> 1]

\* Bound: the earlier row is of the later lane, so that the order in which a claim locks
\* lanes and the order of the queue disagree.  Only enqueues are left out, which no
\* fairness asks for.
AgainstLaneOrder == \A j \in Rows : jobs'[j].state = "absent" \/ jobs'[j].target = 3 - j
=============================================================================
