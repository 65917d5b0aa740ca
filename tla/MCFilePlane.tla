----------------------------- MODULE MCFilePlane -----------------------------
(* A context with one keyed and one keyless fact, and room for one new key.  *)
EXTENDS FilePlane, TLC

CONSTANTS k1, k2, b1, b2

Seeds == <<Semantic(k1, b1, 0), Semantic(NoKey, b1, 0)>>

=============================================================================
