--------------------------- MODULE MCMemoryService ---------------------------
(* Two requests of a data subject with two contexts, of which one is in the  *)
(* middle of its life and the other is new.                                 *)
EXTENDS MemoryService, TLC

AllAsks ==
  [verb : {"retain", "resource", "unit", "remember", "reflect", "correct", "correct_memory",
           "invalidate", "forget_unit", "forget_source", "erase", "mark", "task", "events",
           "recall"},
   context : {Home}]
    \cup [verb : {"retain"}, context : Contexts]

\* unit and correct take the steps of remember and correct_memory (and the probe of
\* remember): they meet only their own retry and the calls that take rows away.
TwinsMeetFew ==
  \A r \in Requests : Verb(r) \in {"unit", "correct"} =>
    \A q \in Requests : Verb(q) \in {Verb(r), "forget_unit", "forget_source", "erase"}

AnyOrder == Permutations(Requests)
=============================================================================
