--------------------------- MODULE MCStructuredJob ---------------------------
(***************************************************************************)
(* Two workers, a job whose source makes two batches, one crash, and the   *)
(* configurations of the provider's files that can be told apart.          *)
(***************************************************************************)
EXTENDS StructuredJob

CONSTANTS w1, w2, k1, k2, j1

MCTwoBatches == <<k1, k2>>
Route(ledger, journal, cache, only) ==
  [ledger |-> ledger, journal |-> journal, cache |-> cache, only |-> only]
MCRoutes == {Route(TRUE, TRUE, TRUE, FALSE), Route(TRUE, TRUE, FALSE, FALSE),
             Route(FALSE, FALSE, FALSE, FALSE), Route(TRUE, TRUE, TRUE, TRUE)}
Alike == Permutations(Workers) \cup Permutations(Jobs)

\* The binary search finds the greedy batches: consecutive, complete, each as long as
\* it can be; it fails only when a slice alone is too large or the exact limit is
\* the lower one.
ASSUME PlanIsGreedy ==
  \A sizes \in UNION {[1..n -> 1..3] : n \in 0..4}, limit \in 1..5, exact \in 2..5 :
    LET sum == [i \in 0..Len(sizes) |-> SumFunctionOnSet(sizes, 1..i)]
        Within(max) == {p \in (0..Len(sizes)) \X (0..Len(sizes)) : sum[p[2]] - sum[p[1]] <= max}
        plan == plan_batches(Len(sizes), Within(limit), Within(exact))
        ends == {plan[b] : b \in DOMAIN plan}
    IN  IF plan = <<-1>> THEN \/ \E i \in DOMAIN sizes : sizes[i] > limit
                             \/ limit > exact
        ELSE /\ Len(sizes) \in ends \cup {0}
             /\ \A b \in DOMAIN plan :
                  LET from == IF b = 1 THEN 0 ELSE plan[b - 1]
                  IN  /\ from < plan[b] /\ <<from, plan[b]>> \in Within(limit) \cap Within(exact)
                      /\ plan[b] < Len(sizes) => <<from, plan[b] + 1>> \notin Within(limit)
=============================================================================
