---------------------------- MODULE ContextPack -----------------------------
(***************************************************************************)
(* Packing the ranked candidates of a recall into a budget of tokens and   *)
(* of k items: one step per candidate, in scan order.  A candidate is a    *)
(* duplicate of a subject already seen, a restatement of a packed item, in *)
(* the weak tail of the vector channel, beyond k, beyond the budget, or    *)
(* admitted; admission may evict an item.  Candidates of an episode at its *)
(* quota wait for a second pass.  At the end, partly rendered items are    *)
(* completed from what the budget has left.                                *)
(***************************************************************************)
EXTENDS Integers, Sequences, FiniteSets, SequencesExt, FiniteSetsExt

CONSTANTS Merge,      \* merge_chunk_blocks
          RenderCap,  \* pack_render_cap, or 0 for none
          Kinds,      \* the candidates there can be
          NoKey,      \* no fact key, no episode, no quota
          MaxCands,   \* bound on the candidates of one recall
          Packing,    \* context_packing_abstention_enabled
          Budget,     \* budget_tokens
          K,          \* k
          PoolDepth,  \* recall_pool_depth
          RerankLimit, \* the cross-reranker's candidate_limit, 0 without one
          Quota       \* session_quota, or NoKey

ASSUME RenderBounds == Merge \in BOOLEAN /\ RenderCap \in Nat

(***************************************************************************)
(* How a packed item is rendered from the chunks of its unit, and what it  *)
(* is charged.  A chunk is its header, its body and its score against the  *)
(* query; sizes are in tokens.  Chunk bodies are slices of the unit's      *)
(* body.  A unit without chunks, or none of whose chunks matched or fits,  *)
(* is rendered whole.                                                      *)
(***************************************************************************)
Least(a, b) == IF a <= b THEN a ELSE b
Top(a, b) == IF a >= b THEN a ELSE b

\* The members of S, each after those that come before it.
InOrder(S, Precedes(_, _)) ==
  [n \in 1..Cardinality(S) |-> CHOOSE i \in S : Cardinality({j \in S : Precedes(j, i)}) = n - 1]

\* One extra token for the blank line between blocks.
chunk_block_token_cost(chunk) == chunk.head + chunk.body + 1

\* The first chunk of each run of selected chunks that share a header.
RunStarts(chunks, selected) ==
  {i \in selected : ~(Merge /\ i - 1 \in selected /\ chunks[i - 1].doc = chunks[i].doc)}

selected_chunk_cost(chunks, selected) ==
  MapThenSumSet(LAMBDA i : chunks[i].body, selected)
  + MapThenSumSet(LAMBDA i : chunks[i].head + 1, RunStarts(chunks, selected))

\* Takes a chunk when it still fits.
TakeChunk(chunks, budget, picked, i) ==
  IF i \in DOMAIN chunks /\ i \notin picked.chunks
       /\ picked.used + chunk_block_token_cost(chunks[i]) <= budget
  THEN [chunks |-> picked.chunks \cup {i}, used |-> picked.used + chunk_block_token_cost(chunks[i])]
  ELSE picked

\* Matched chunks, the best first.
Matched(chunks) ==
  InOrder({i \in DOMAIN chunks : chunks[i].score > 0},
    LAMBDA i, j : chunks[i].score > chunks[j].score \/ (chunks[i].score = chunks[j].score /\ i < j))

\* The neighbours of the anchors, one radius after the other.
Siblings(chunks, anchors) ==
  FlattenSeq([r \in 1..(Top(Len(chunks), 1) - 1) |->
    FlattenSeq([a \in 1..Len(anchors) |-> <<anchors[a] - r, anchors[a] + r>>])])

\* The chunks to emit, none for the whole body.
select_chunk_mask(chunks, budget) ==
  LET pick(picked, i) == TakeChunk(chunks, budget, picked, i)
      first == FoldLeft(pick, [chunks |-> {}, used |-> 0], Matched(chunks))
      anchors == InOrder(first.chunks, LAMBDA i, j : i < j)
  IN FoldLeft(pick, first, Siblings(chunks, anchors)).chunks

whole_cost(unit) ==
  IF unit.chunks = <<>> THEN unit.tokens
  ELSE MapThenSumSet(LAMBDA i : unit.chunks[i].body, DOMAIN unit.chunks)

render_budget(unit, budget) ==
  LET bounded == Least(whole_cost(unit), budget)
  IN IF RenderCap = 0 THEN bounded ELSE Least(bounded, RenderCap)

RenderedChunks(unit, budget) == select_chunk_mask(unit.chunks, render_budget(unit, budget))

\* packed_render's charge, and whether something of the unit is left out that
\* a completion may add.
packed_cost(unit, budget) ==
  IF RenderedChunks(unit, budget) = {} THEN whole_cost(unit)
  ELSE selected_chunk_cost(unit.chunks, RenderedChunks(unit, budget))

IsPartial(unit, budget) ==
  /\ RenderedChunks(unit, budget) \notin {{}, DOMAIN unit.chunks}
  /\ RenderCap = 0

full_coverage(unit) == selected_chunk_cost(unit.chunks, DOMAIN unit.chunks)

ASSUME PackBounds ==
  /\ Packing \in BOOLEAN /\ Quota \in Nat \cup {NoKey}
  /\ {MaxCands, Budget, K, PoolDepth, RerankLimit} \subseteq Nat
  /\ \A c \in Kinds : c.unit.tokens \in Nat /\ whole_cost(c.unit) > 0

VARIABLES stage,     \* rank, order, fill, second, complete or done
          cand,      \* the ranked candidates; deep is the rank the provider gave, 0 for none
          scan,      \* how many of them are scanned
          at,        \* the next one
          items,     \* the packed candidates
          cost,      \* candidate -> the tokens it is charged
          estimate,  \* token_estimate
          seen,      \* seen_subjects
          deferred,  \* the candidates left to the second pass
          dropped    \* dropped_items

packVars == <<stage, cand, scan, at, items, cost, estimate, seen, deferred, dropped>>

PackInit ==
  /\ stage = "rank" /\ cand = <<>> /\ scan = 0 /\ at = 1 /\ items = <<>>
  /\ cost = <<>> /\ estimate = 0 /\ seen = {} /\ deferred = <<>> /\ dropped = <<>>

output_limit == Top(K, 1)

\* What rendering each unit costs.
Rendered ==
  [u \in {c.unit : c \in Kinds} |->
    [cost |-> packed_cost(u, Budget), partial |-> IsPartial(u, Budget),
     full |-> full_coverage(u), whole |-> whole_cost(u)]]
Rendering(i) == Rendered[cand[i].unit]

----------------------------------------------------------------------------
(* The scan order and its length. *)

\* Fusion brings another candidate, below the ones before it.
Offer(c) ==
  /\ stage = "rank" /\ cand' = Append(cand, c)
  /\ UNCHANGED <<stage, scan, at, items, cost, estimate, seen, deferred, dropped>>

\* should_rerank: not when all candidates are returned anyway, nor when the
\* query names its own answer.
should_rerank == RerankLimit > 0 /\ Len(cand) > K /\ ~cand[1].exact

RerankedHead == Least(Least(PoolDepth, RerankLimit), Len(cand))

\* cross_rerank_candidates: any order of the head; a reranker that fails leaves
\* the order as it is, the identity.
Rerank(p) ==
  /\ stage = "rank" /\ p \in Permutations(1..RerankedHead)
  /\ ~should_rerank => p = [i \in 1..RerankedHead |-> i]
  /\ stage' = "order"
  /\ cand' = [i \in 1..Len(cand) |-> IF i <= RerankedHead THEN cand[p[i]] ELSE cand[i]]
  /\ UNCHANGED <<scan, at, items, cost, estimate, seen, deferred, dropped>>

\* Deep evidence by its rank, then authoritative projections, then the rest in
\* the order fusion or the reranker left them.
Class(c) == IF c.deep > 0 THEN 0 ELSE IF c.projection THEN 1 ELSE 2

Before(i, j) ==
  LET a == cand[i]  b == cand[j]
  IN \/ Class(a) < Class(b)
     \/ Class(a) = Class(b) /\ Class(a) = 0 /\ Packing /\ a.deep < b.deep
     \/ /\ Class(a) = Class(b) /\ (Class(a) # 0 \/ ~Packing \/ a.deep = b.deep)
        /\ i < j

ScanOrder == InOrder(1..Len(cand), Before)

recall_pack_scan_limit(deep, n) ==
  LET floor == Top(PoolDepth, output_limit)
      limit == IF deep THEN Top(Least(n, Top(floor * 25, 25)), output_limit)
               ELSE Top(Least(floor, n), 1)
  IN IF Quota = NoKey THEN limit ELSE Top(limit, floor * 2)

BeginPack(deep) ==
  /\ stage = "order" /\ stage' = "fill"
  /\ cand' = LET o == ScanOrder IN [i \in 1..Len(cand) |-> cand[o[i]]]
  /\ cost' = [i \in 1..Len(cand) |-> Rendered[cand'[i].unit].cost]
  /\ scan' = Least(recall_pack_scan_limit(deep, Len(cand)), Len(cand))
  /\ UNCHANGED <<at, items, estimate, seen, deferred, dropped>>

----------------------------------------------------------------------------
(* One candidate. *)

\* An edge joins two disputed candidates.
Contradicts(i, j) == cand[i].disputed /\ cand[j].disputed

\* Jaccard similarity above a threshold: symmetric, not transitive.
Restates(i, j) ==
  /\ cand[i].says # 0 /\ cand[j].says # 0
  /\ cand[i].says - cand[j].says \in {-1, 0, 1}

is_authoritative_projection(i) == cand[i].projection

in_weak_dense_tail(i) == cand[i].deep = 0 /\ ~is_authoritative_projection(i) /\ cand[i].weak

\* A projection outranks every ordinary candidate.
Infinity == 1000
Score(i) == IF is_authoritative_projection(i) THEN Infinity ELSE cand[i].score

\* The first packed item that restates, unless an edge joins the two: a
\* position in items, or 0.
Restated(i) ==
  LET hits == {p \in 1..Len(items) : Restates(items[p], i)}
      p == IF hits = {} THEN 0 ELSE Min(hits)
  IN IF Packing /\ p # 0 /\ ~Contradicts(i, items[p]) THEN p ELSE 0

\* A subject was seen, whether or not what was seen is packed.
SubjectSeen(i) == {j \in seen : cand[j].key = cand[i].key}
IsDuplicate(i) ==
  /\ Packing /\ cand[i].key # NoKey /\ SubjectSeen(i) # {}
  /\ \A j \in SubjectSeen(i) : ~Contradicts(i, j)

FitsWithout(i, p) == estimate - cost[items[p]] + cost[i] <= Budget

\* replacement_index: the first of the least relevant items that are less
\* relevant than the candidate and whose place is enough; a position, or 0.
replacement_index(i) ==
  LET worse == {p \in 1..Len(items) : Score(i) > Score(items[p]) /\ FitsWithout(i, p)}
      least == {p \in worse : \A q \in worse : Score(items[p]) <= Score(items[q])}
  IN IF ~Packing \/ least = {} THEN 0 ELSE Min(least)

Drop(i, why) == [unit |-> i, reason |-> why]

Dropped(i, why) ==
  dropped' = Append(dropped, Drop(i, why)) /\ UNCHANGED <<items, estimate>>

Admitted(i) ==
  /\ items' = Append(items, i) /\ estimate' = estimate + cost[i]
  /\ UNCHANGED dropped

\* A mutant: the evicted item is not recorded.
EvictsSilently(p, i, why) ==
  /\ items' = Append(RemoveAt(items, p), i)
  /\ estimate' = estimate - cost[items[p]] + cost[i]
  /\ UNCHANGED dropped

\* evict, then admit_new.
EvictsFor(p, i, why) ==
  /\ items' = Append(RemoveAt(items, p), i)
  /\ estimate' = estimate - cost[items[p]] + cost[i]
  /\ dropped' = Append(dropped, Drop(items[p], why))

\* admit_or_drop.
AdmitOrDrop(i) ==
  /\ seen' = IF Packing /\ cand[i].key # NoKey /\ ~IsDuplicate(i) THEN seen \cup {i} ELSE seen
  /\ IF IsDuplicate(i) THEN Dropped(i, "duplicate")
     ELSE IF Restated(i) # 0
     THEN LET p == Restated(i)
          IN IF cand[i].fresh > cand[items[p]].fresh /\ FitsWithout(i, p)
             THEN EvictsFor(p, i, "duplicate")
             ELSE Dropped(i, "duplicate")
     ELSE IF Packing /\ in_weak_dense_tail(i) THEN Dropped(i, "budget")
     ELSE IF Len(items) >= output_limit THEN Dropped(i, "output_limit")
     ELSE IF estimate + cost[i] <= Budget THEN Admitted(i)
     ELSE IF replacement_index(i) # 0 THEN EvictsFor(replacement_index(i), i, "budget")
     ELSE Dropped(i, "budget")

EpisodeCount(e) == Cardinality({p \in 1..Len(items) : cand[items[p]].episode = e})

AtQuota(i) ==
  /\ Quota # NoKey /\ cand[i].episode # NoKey
  /\ EpisodeCount(cand[i].episode) >= Quota

----------------------------------------------------------------------------
(* The two passes and the completion. *)

Defer ==
  /\ stage = "fill" /\ at <= scan /\ AtQuota(at)
  /\ deferred' = Append(deferred, at) /\ at' = at + 1
  /\ UNCHANGED <<stage, cand, scan, items, cost, estimate, seen, dropped>>

Fill ==
  /\ stage = "fill" /\ at <= scan /\ ~AtQuota(at)
  /\ AdmitOrDrop(at) /\ at' = at + 1
  /\ UNCHANGED <<stage, cand, scan, cost, deferred>>

FirstPassEnds ==
  /\ stage = "fill" /\ at > scan
  /\ stage' = "second" /\ at' = 1
  /\ UNCHANGED <<cand, scan, items, cost, estimate, seen, deferred, dropped>>

FillDeferred ==
  /\ stage = "second" /\ at <= Len(deferred)
  /\ AdmitOrDrop(deferred[at]) /\ at' = at + 1
  /\ UNCHANGED <<stage, cand, scan, cost, deferred>>

SecondPassEnds ==
  /\ stage = "second" /\ at > Len(deferred)
  /\ stage' = "complete" /\ at' = 1
  /\ UNCHANGED <<cand, scan, items, cost, estimate, seen, deferred, dropped>>

\* What one item would cost complete: all chunks, or else the whole body, when
\* the leftover covers the difference; 0 leaves it as it is.
Completion1(i) ==
  LET leftover == Top(Budget - estimate, 0)
      r == Rendering(i)
  IN IF ~r.partial THEN 0
     ELSE IF Top(r.full - cost[i], 0) <= leftover THEN r.full
     ELSE IF Top(r.whole - cost[i], 0) <= leftover THEN r.whole ELSE 0

CompleteChunks ==
  /\ stage = "complete" /\ at <= Len(items) /\ at' = at + 1
  /\ LET i == items[at]
     IN /\ estimate' = estimate + Top(Completion1(i) - cost[i], 0)
        /\ cost' = [cost EXCEPT ![i] = Top(@, Completion1(i))]
  /\ UNCHANGED <<stage, cand, scan, items, seen, deferred, dropped>>

EndPack ==
  /\ stage = "complete" /\ at > Len(items) /\ stage' = "done"
  /\ UNCHANGED <<cand, scan, at, items, cost, estimate, seen, deferred, dropped>>

PackNext ==
  Defer \/ Fill \/ FirstPassEnds \/ FillDeferred \/ SecondPassEnds \/ CompleteChunks \/ EndPack

----------------------------------------------------------------------------
(* Properties. *)

Charged == MapThenSumSet(LAMBDA p : cost[items[p]], 1..Len(items))
Occurrences(i, s) == Cardinality({p \in 1..Len(s) : s[p] = i})
DroppedUnits == [p \in 1..Len(dropped) |-> dropped[p].unit]

\* Candidates a pass has dealt with.
Handled ==
  CASE stage \in {"rank", "order"} -> {}
    [] stage = "fill" -> 1..(at - 1)
    [] OTHER -> 1..scan
StillDeferred ==
  IF stage = "second" THEN {deferred[p] : p \in at..Len(deferred)}
  ELSE IF stage = "fill" THEN Range(deferred) ELSE {}

\* Deferred items that stand in for an older statement of theirs.
StandsIn(i) ==
  /\ i \in Range(deferred)
  /\ \E d \in Range(dropped) : /\ d.reason = "duplicate" /\ Restates(d.unit, i)
                               /\ cand[d.unit].fresh < cand[i].fresh

\* The running estimate is what the items are charged and stays within the
\* budget through evictions and completions, no item is charged more than its
\* whole body before it is completed, and every scanned candidate is an
\* item or a recorded drop, once: no candidate is lost in an eviction or
\* between the passes, none is both served and reported as dropped.  A candidate
\* of the first pass lost its slot to the limit only when no episode held more
\* slots than its quota, not counting those that a deferred item took over from
\* the older item it restates.
PackAccounts ==
  /\ estimate = Charged /\ estimate <= Budget /\ Len(items) <= output_limit
  /\ stage \in {"fill", "second"} => \A i \in 1..Len(cand) : cost[i] <= Rendering(i).whole
  /\ \A i \in Handled :
       Occurrences(i, items) + Occurrences(i, DroppedUnits) = IF i \in StillDeferred THEN 0 ELSE 1
  /\ stage \in {"complete", "done"} /\ Quota # NoKey =>
       \A d \in Range(dropped) :
          d.reason = "output_limit" /\ d.unit \notin Range(deferred) =>
            \A e \in {cand[i].episode : i \in Range(items)} \ {NoKey} :
               Cardinality({i \in Range(items) : cand[i].episode = e /\ ~StandsIn(i)}) <= Quota
=============================================================================
