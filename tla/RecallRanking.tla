--------------------------- MODULE RecallRanking ---------------------------
(* What a recall does to the units the store returned before they are       *)
(* packed: the filters of the channels and the drops the trace names for    *)
(* them, the temporal channel, the credit of reviews, the recency control,  *)
(* the balanced head for the reranker, the submodular order, and the units  *)
(* it makes up itself.  All of it is pure.                                  *)
EXTENDS Integers, Sequences, FiniteSets, SequencesExt, FiniteSetsExt

CONSTANTS Undated,     \* No timestamp.
          Unreadable   \* One that does not parse: cmp_rfc3339 puts it before every other.

Trusted == {"trusted_user", "trusted_system", "verified_tool"}

-----------------------------------------------------------------------------
(* A unit says when the system knew it and when it holds (half-open), and   *)
(* its texts are reduced to what the filters ask of them.                   *)

bitemporally_recallable(u, time) ==
  /\ ~u.deleted /\ u.state # "deleted"
  /\ u.txFrom = Undated \/ u.txFrom <= time.asOf
  /\ u.txTo = Undated \/ time.asOf < u.txTo
  /\ u.validFrom = Undated \/ u.validFrom <= time.validAt
  /\ u.validTo = Undated \/ time.validAt < u.validTo

valid_for_query(u, query, at) ==
  u.kind = "semantic" /\ ~query.historical /\ query.current => u.validTo = Undated \/ u.validTo > at

ServesCaptures(r) == r.captures \/ r.compactOnly

CapturedCandidate(u, r) == ServesCaptures(r) /\ u.capture /\ u.state = "candidate"

Procedure(u, r) ==
  /\ \/ u.state = "validated"
     \/ ServesCaptures(r) /\ u.state = "active"
     \/ CapturedCandidate(u, r)
  /\ r.procedures /\ ~u.unsafe

recallable(u, r, query, time) ==
  /\ bitemporally_recallable(u, time) /\ valid_for_query(u, query, time.validAt)
  /\ r.compactOnly => u.compact \/ u.capture
  /\ IF u.kind = "procedural" THEN Procedure(u, r)
     ELSE /\ \/ u.state \in {"active", "validated"} \/ CapturedCandidate(u, r)
             \/ u.state = "superseded" /\ u.txTo # Undated
          /\ r.beliefs \/ u.kind # "belief"

personal_context_unit(u) == u.personal

high_risk_memory_below_trust_floor(u) == u.kind = "belief" \/ u.trust \notin Trusted

high_risk_recall_drop_reason(u, r) ==
  IF ~r.query.risky THEN "none"
  ELSE IF personal_context_unit(u) THEN "privacy"
  ELSE IF high_risk_memory_below_trust_floor(u) THEN "below_trust_floor" ELSE "none"

procedure_drop_reason(u, r) ==
  IF u.kind # "procedural" THEN "none"
  ELSE IF ~r.procedures \/ u.state # "validated" THEN "state"
  ELSE IF u.unsafe THEN "protected_category" ELSE "none"

StateDrop(u, r) ==
  CASE u.state = "deleted" -> "deleted"
    [] u.state = "invalidated" -> "invalidated"
    [] u.state = "superseded" /\ u.txTo # Undated -> "none"
    [] u.state \in {"superseded", "expired"} -> "stale"
    [] u.state = "quarantined" -> "trust"
    [] u.state = "candidate" /\ u.kind = "belief" /\ ~r.beliefs -> "trust"
    [] OTHER -> "none"

\* The reason the trace names: the first that holds.
DropReason(u, r, time) ==
  IF ~u.allowed THEN "scope"
  ELSE IF u.deleted THEN "deleted"
  ELSE IF ~bitemporally_recallable(u, time) \/ ~valid_for_query(u, r.query, time.validAt) THEN "stale"
  ELSE IF procedure_drop_reason(u, r) # "none" THEN procedure_drop_reason(u, r)
  ELSE IF high_risk_recall_drop_reason(u, r) # "none" THEN high_risk_recall_drop_reason(u, r)
  ELSE StateDrop(u, r)

trace_filter_drops(units, r, time) == {u \in units : DropReason(u, r, time) # "none"}

\* The units a channel may score.
Eligible(u, r, time) ==
  /\ u.allowed /\ recallable(u, r, r.query, time)
  /\ high_risk_recall_drop_reason(u, r) = "none"

\* A unit joins by an edge to one that matches the query; that neighbour is
\* asked with beliefs on and no query, and its scope and risk are not.
edge_score(u, units, edges, r, time) ==
  IF \E e \in edges : u.id \in {e.src, e.dst} /\
       LET other == IF e.src = u.id THEN e.dst ELSE e.src
       IN  \E n \in units : n.id = other /\ n.matches /\
             recallable(n, [r EXCEPT !.beliefs = TRUE], [r.query EXCEPT !.current = FALSE, !.historical = FALSE], time)
  THEN 1 ELSE 0

channel_candidates(score, units, r, time) ==
  {u \in units : Eligible(u, r, time) /\ score[u] > 0}

-----------------------------------------------------------------------------
(* The temporal channel: a unit in the asked window scores 1, else under a  *)
(* recency query a fact scores HalfLife / (HalfLife + age).  Scores are     *)
(* fractions <<a, b>>.                                                      *)

CONSTANTS HalfLife, UndatedScore

Above(p, q) == p[1] * q[2] > q[1] * p[2]

age_days(stamp, now) == IF now > stamp THEN now - stamp ELSE 0

StampOf(u) == IF u.validFrom # Undated THEN u.validFrom ELSE IF u.txFrom # Undated THEN u.txFrom ELSE u.observed

valid_from_in_window(u, window) == u.validFrom # Undated /\ window[1] <= u.validFrom /\ u.validFrom < window[2]

temporal_score(u, query, window, now) ==
  IF window # <<>> /\ valid_from_in_window(u, window) THEN <<1, 1>>
  ELSE IF query.current /\ u.kind = "semantic" /\ u.state = "active"
       THEN IF StampOf(u) = Unreadable THEN UndatedScore
            ELSE <<HalfLife, HalfLife + age_days(StampOf(u), now)>>
  ELSE <<0, 1>>

-----------------------------------------------------------------------------
(* Reviews: a trace and caller count once for a unit, with their first      *)
(* outcome.  Grades are hundredths; the memory model of FSRS is external    *)
(* and is given by the grades it is told, with the days between them.       *)

Counted(events, id) ==
  FoldLeft(LAMBDA kept, e :
             IF id \in e.used /\ \A i \in DOMAIN kept : <<kept[i].trace, kept[i].caller>> # <<e.trace, e.caller>>
             THEN Append(kept, e) ELSE kept,
           <<>>, events)

days_elapsed_for_review(outcome) ==
  CASE outcome = "success" -> 7 [] outcome = "corrected" -> 3 [] OTHER -> 21

days_since_last_review(counted) ==
  IF counted = <<>> THEN 14
  ELSE CASE Last(counted).outcome = "success" -> 7 [] Last(counted).outcome = "corrected" -> 5 [] OTHER -> 14

Graded(outcome) ==
  CASE outcome = "success" -> "good" [] outcome = "corrected" -> "hard" [] OTHER -> "again"

review_grade_adjustment(events, id) ==
  LET grade == [success |-> 3, corrected |-> 1, ignored |-> -35, failure |-> -45]
      total == FoldLeft(LAMBDA sum, e : sum + grade[e.outcome], 100, Counted(events, id))
  IN  IF total < 20 THEN 20 ELSE IF total > 115 THEN 115 ELSE total

decay_score_for(u, events, enabled) ==
  LET counted == IF enabled THEN Counted(events, u.id) ELSE <<>>
  IN  [reviews |-> [i \in DOMAIN counted |-> <<Graded(counted[i].outcome), days_elapsed_for_review(counted[i].outcome)>>],
       elapsed |-> IF enabled THEN days_since_last_review(counted) ELSE 0,
       grade   |-> IF enabled THEN review_grade_adjustment(events, u.id) ELSE 100,
       reinforced |-> u.reinforced + Len(SelectSeq(counted, LAMBDA e : e.outcome \in {"success", "corrected"}))]

-----------------------------------------------------------------------------
(* The orders: candidates are known by their place in the fused list.       *)

Reordered(seq, order) == [i \in DOMAIN order |-> seq[order[i]]]

\* The listed places first, the others after them in their order.
Completed(seq, first) == first \o SelectSeq([i \in DOMAIN seq |-> i], LAMBDA i : i \notin ToSet(first))

\* At most one candidate for a subject, the last observed; equals by body.
retain_most_recent_per_subject(fused) ==
  LET after(i, j) == \/ fused[i].observed > fused[j].observed
                     \/ fused[i].observed = fused[j].observed /\ fused[i].body > fused[j].body
      winner(i) == \A j \in DOMAIN fused : j # i /\ fused[j].key = fused[i].key =>
                     after(i, j) \/ (~after(j, i) /\ i < j)
  IN  Reordered(fused, SelectSeq([i \in DOMAIN fused |-> i], LAMBDA i : fused[i].key = Undated \/ winner(i)))

\* The votes of the channels for the places they ranked, by rank; a tie goes to
\* the channel listed first, then to the earlier place.
Votes(fused, channels) ==
  LET votes == UNION {{<<fused[i].ranks[channels[c]], c, i>> :
                         i \in {n \in DOMAIN fused : channels[c] \in DOMAIN fused[n].ranks}} : c \in DOMAIN channels}
      before(v, w) == \/ v[1] < w[1]
                      \/ v[1] = w[1] /\ (v[2] < w[2] \/ (v[2] = w[2] /\ v[3] < w[3]))
      nth(n) == CHOOSE v \in votes : Cardinality({w \in votes : before(w, v)}) = n - 1
  IN  [n \in 1..Cardinality(votes) |-> nth(n)[3]]

\* The next places of the list that are not chosen yet, at most so many.
Take(chosen, places, most) ==
  FoldLeft(LAMBDA got, i : IF i \in ToSet(got) \/ Len(got) = Len(chosen) + most THEN got ELSE Append(got, i),
           chosen, places)

\* Half of the head for each channel, the larger for the vectors; what a channel
\* cannot fill goes to the best ranks of both, then to the fused order.
promote_vector_lexical_balanced(fused, limit) ==
  LET target == Min({limit, Len(fused)})
      dense == Take(<<>>, Votes(fused, <<"vector">>), (target + 1) \div 2)
      both == Take(dense, Votes(fused, <<"lexical">>), target \div 2)
      filled == Take(both, Votes(fused, <<"vector", "lexical">>), target - Len(both))
  IN  Reordered(fused, Completed(fused, Take(filled, [i \in DOMAIN fused |-> i], target - Len(filled))))

-----------------------------------------------------------------------------
(* The submodular order.  The objective is a function from sets of places   *)
(* to their worth; what it adds up (relevance, query coverage, likeness to  *)
(* the rest, spread over sources) is left open.                             *)

Protected(cands) == SelectSeq([i \in DOMAIN cands |-> i], LAMBDA i : cands[i].projection)

AvailableBudget(cands, budget) ==
  LET cost == FoldLeft(LAMBDA sum, i : sum + cands[i].cost, 0, Protected(cands))
  IN  IF cost < budget THEN budget - cost ELSE 0

AvailableSlots(cands, k) ==
  LET slots == Max({k, 1}) IN IF Len(Protected(cands)) < slots THEN slots - Len(Protected(cands)) ELSE 0

Cost(c) == IF c.cost > 1 THEN c.cost ELSE 1

\* Between equals: the more relevant, then the cheaper, then the smaller id.
Tied(c, d) ==
  \/ c.relevance > d.relevance
  \/ c.relevance = d.relevance /\ (Cost(c) < Cost(d) \/ (Cost(c) = Cost(d) /\ c.id < d.id))

\* Which of two places is taken first when their gains are given.
Preferred(cands, i, j, gi, gj) ==
  LET ratio == gi * Cost(cands[j]) - gj * Cost(cands[i])
  IN  \/ ratio > 0
      \/ ratio = 0 /\ gi > gj
      \/ ratio = 0 /\ gi = gj /\ Tied(cands[i], cands[j])

\* The greedy choice by gain for its cost; it stops when nothing fits or gains.
Greedy(cands, worth, budget, slots) ==
  LET used(s) == FoldLeft(LAMBDA sum, i : sum + Cost(cands[i]), 0, s)
      gain(s, i) == Max({worth[ToSet(s) \cup {i}] - worth[ToSet(s)], 0})
      fits(s) == {i \in DOMAIN cands : ~cands[i].projection /\ i \notin ToSet(s) /\ used(s) + Cost(cands[i]) <= budget}
      best(s) == CHOOSE i \in fits(s) : \A j \in fits(s) \ {i} : Preferred(cands, i, j, gain(s, i), gain(s, j))
      pick[n \in 0..slots] ==
        IF n = 0 THEN <<>>
        ELSE LET s == pick[n - 1]
             IN  IF Len(s) < n - 1 \/ fits(s) = {} THEN s
                 ELSE IF gain(s, best(s)) = 0 THEN s ELSE Append(s, best(s))
  IN  pick[slots]

\* The greedy set, or the one affordable place that is worth more than all of it.
Chosen(cands, worth, budget, slots) ==
  LET greedy == Greedy(cands, worth, budget, slots)
      single == {i \in DOMAIN cands : ~cands[i].projection /\ Cost(cands[i]) <= budget}
      better(i, j) == worth[{i}] > worth[{j}] \/ (worth[{i}] = worth[{j}] /\ Tied(cands[i], cands[j]))
      best == CHOOSE i \in single : \A j \in single \ {i} : better(i, j)
  IN  IF single # {} /\ worth[{best}] > worth[ToSet(greedy)] THEN <<best>> ELSE greedy

submodular_pack_order(cands, worth, budget, k) ==
  LET room == AvailableBudget(cands, budget)
      slots == AvailableSlots(cands, k)
      chosen == IF room = 0 \/ slots = 0 THEN <<>> ELSE Chosen(cands, worth, room, slots)
  IN  Completed(cands, Protected(cands) \o chosen)

-----------------------------------------------------------------------------
(* The units a recall makes up for one answer: a rollup of the quantity     *)
(* events in the asked window, for each series the query is about, and the  *)
(* bundle of the structured items an artifact named in the query belongs    *)
(* to.  Both are pure; words stand for the tokens of a text.                *)

CONSTANTS Precision,   \* decimal places of an average that does not come out even
          MaxInt,      \* the largest coefficient an exact decimal can hold
          None         \* no event, no identity, no result

trust_risk_rank ==
  [trusted_user |-> 0, trusted_system |-> 0, verified_tool |-> 1, unverified_tool |-> 2,
   web_content |-> 3, agent_output |-> 4, imported_external |-> 5, quarantined |-> 6]

\* The last of the riskiest, as max_by_key picks it.
Riskiest(trusts) ==
  FoldLeft(LAMBDA worst, t : IF trust_risk_rank[t] >= trust_risk_rank[worst] THEN t ELSE worst, Head(trusts), trusts)

-----------------------------------------------------------------------------
(* Exact decimals: a coefficient and how many of its digits are fraction.   *)
(* Every operation is checked; a result out of range is None.               *)

Decimal(coefficient, scale) == [coef |-> coefficient, scale |-> scale]

Held(n) == IF n > MaxInt \/ n < -MaxInt THEN None ELSE n

rescale(d, scale) == Held(d.coef * 10 ^ (scale - d.scale))

checked_sum(values) ==
  FoldLeft(LAMBDA sum, v : IF sum = None \/ v = None THEN None ELSE Held(sum + v), 0, values)

Size(n) == IF n < 0 THEN -n ELSE n

\* Division and remainder toward zero.
Quotient(n, d) == IF n < 0 THEN -((-n) \div d) ELSE n \div d
Remainder(n, d) == n - Quotient(n, d) * d

average(total, scale, count) ==
  LET up == IF scale <= Precision THEN Held(total * 10 ^ (Precision - scale)) ELSE total
      by == IF scale <= Precision THEN count ELSE Held(count * 10 ^ (scale - Precision))
      away == IF up < 0 THEN -1 ELSE 1
  IN  IF Remainder(total, count) = 0 THEN Decimal(Quotient(total, count), scale)
      ELSE IF up = None \/ by = None THEN None
      ELSE Decimal(Quotient(up, by) + (IF 2 * Size(Remainder(up, by)) >= by THEN away ELSE 0), Precision)

-----------------------------------------------------------------------------
(* An event has a series (its names and its unit), an instant, an exact     *)
(* value and dimensions, a function from keys to sets of words.             *)

InWindow(u, window) ==
  /\ u.own /\ u.kind = "semantic" /\ u.state \in {"active", "superseded"} /\ u.live
  /\ u.event # None
  /\ window[1] <= u.event.at /\ u.event.at < window[2]

\* The dimensions the query speaks of, with the values it may mean.
MatchedDimensions(events, query) ==
  LET pairs == UNION {{<<k, e.event.dims[k]>> : k \in {n \in DOMAIN e.event.dims : e.event.dims[n] \cap query # {}}} :
                        e \in events}
  IN  [k \in {p[1] : p \in pairs} |-> {p[2] : p \in {q \in pairs : q[1] = k}}]

Selects(matched, e) ==
  \A k \in DOMAIN matched : k \in DOMAIN e.event.dims /\ e.event.dims[k] \in matched[k]

ById(units) == SetToSortSeq(units, LAMBDA u, v : u.id < v.id)

\* The rollup of one series, or None: the query is not about it, nothing is
\* left of it, or the sum cannot be held.
Rollup(series, events, query) ==
  LET matched == MatchedDimensions(events, query)
      selected == ById({e \in events : Selects(matched, e)})
      scale == Max({e.event.value.scale : e \in ToSet(selected)})
      values == [i \in DOMAIN selected |-> rescale(selected[i].event.value, scale)]
      total == checked_sum(values)
  IN  IF (series.names \cap query = {} /\ DOMAIN matched = {}) \/ selected = <<>> THEN None
      ELSE IF total = None \/ average(total, scale, Len(values)) = None THEN None
      ELSE [series |-> series, sources |-> {e.id : e \in ToSet(selected)}, filter |-> matched,
            total |-> Decimal(total, scale), average |-> average(total, scale, Len(values)), count |-> Len(values),
            min |-> Min(ToSet(values)), max |-> Max(ToSet(values)),
            trust |-> Riskiest([i \in DOMAIN selected |-> selected[i].trust])]

quantity_rollups(units, query, window) ==
  LET events == {u \in units : InWindow(u, window)}
  IN  {Rollup(s, {e \in events : e.event.series = s}, query) : s \in {e.event.series : e \in events}} \ {None}

-----------------------------------------------------------------------------
(* The anchor of a query is the artifact it quotes, if it is long enough.   *)

CONSTANTS MinAnchor    \* words of the shortest anchor

\* Quoted parts, the longest last of equals; without one, what follows the last colon.
explicit_artifact_anchor(query) ==
  LET longest == FoldLeft(LAMBDA best, q : IF Len(q) >= Len(best) THEN q ELSE best, <<>>, query.quoted)
      anchor == IF query.quoted # <<>> THEN longest ELSE query.suffix
  IN  IF Len(anchor) >= MinAnchor THEN anchor ELSE None

artifact_state_identity(u) ==
  IF /\ u.kind = "semantic" /\ ~u.deleted
     /\ u.state = "active" \/ (u.state = "superseded" /\ u.closed)
     /\ u.evidence
  THEN u.item ELSE None

artifact_bundle(units, query) ==
  LET anchor == explicit_artifact_anchor(query)
      own == {u \in units : u.own}
      seeds == {u.episode : u \in {v \in own : anchor # None /\ anchor \in v.says}} \ {None}
      structured == {u \in own : artifact_state_identity(u) # None}
      namespaces == {u.item.namespace : u \in {v \in structured : v.episode \in seeds}}
      members == {u \in structured : u.item.namespace \in namespaces}
      inOrder == SetToSortSeq(members, LAMBDA u, v :
                   \/ u.item.namespace < v.item.namespace
                   \/ /\ u.item.namespace = v.item.namespace
                      /\ u.item.key < v.item.key \/ (u.item.key = v.item.key /\ u.id < v.id))
      actor == inOrder[1].actor
  IN  IF Cardinality(members) < 2 THEN None
      ELSE [sources |-> {u.id : u \in members},
            lines |-> [i \in DOMAIN inOrder |-> inOrder[i].id],
            actor |-> IF \A u \in members : u.actor = actor THEN actor ELSE None,
            trust |-> Riskiest([i \in DOMAIN inOrder |-> inOrder[i].trust])]

\* The candidates of the recall: a rollup joins the events it adds up, a bundle
\* takes the place of its items.
Synthesized(units, rollups, bundle) ==
  [real  |-> IF bundle = None THEN units ELSE {u \in units : u.id \notin bundle.sources},
   made  |-> rollups \cup (IF bundle = None THEN {} ELSE {bundle})]
=============================================================================
