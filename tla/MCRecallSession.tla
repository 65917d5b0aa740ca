--------------------------- MODULE MCRecallSession ---------------------------
(* Instances of RecallSession for TLC, and the pure parts of a recall: what *)
(* it filters and orders, and the units it makes up.                        *)
EXTENDS RecallSession, RecallRanking, TLC

CONSTANTS e1, e2, r1
UndatedAs == <<1, 20>>

\* Bound: until the subject is erased the episode that does not match waits or
\* is compiled; it is not given up, corrected or forgotten.
OthersStay ==
  subject => \A e \in Episodes \ Matching :
    /\ jobs[e] # "dead"
    /\ ~(fix.on /\ Carries(fix.unit, e)) /\ ~(forget.on /\ forget.target = e)
-----------------------------------------------------------------------------
\* Units that meet each filter, and requests on each lane.
Kinds4 == {"episodic", "semantic", "procedural", "belief"}
States == {"candidate", "active", "superseded", "invalidated", "deleted", "quarantined", "expired", "validated"}
Filtered ==
  [id : {1}, kind : Kinds4, state : States, deleted : {FALSE}, allowed : {TRUE}, txFrom : {Undated}, validFrom : {Undated},
   txTo : {Undated, 3}, validTo : {Undated, Unreadable}, compact : BOOLEAN, capture : BOOLEAN, unsafe : BOOLEAN,
   personal : {FALSE}, trust : {"verified_tool", "web_content"}, matches : {TRUE}]
Requests ==
  [beliefs : BOOLEAN, procedures : BOOLEAN, captures : BOOLEAN, compactOnly : BOOLEAN,
   query : [current : BOOLEAN, historical : {FALSE}, risky : BOOLEAN]]
At == [asOf |-> 2, validAt |-> 2]

\* A unit the trace names as dropped is in no channel, except a procedure that
\* is not validated on a lane that serves captures; a unit that is in no
\* channel and not named is a belief nobody asked for, an unconfirmed
\* candidate, a raw unit on the card lane.
ASSUME DropsAreTold ==
  \A u \in Filtered, r \in Requests :
    LET told == trace_filter_drops({u}, r, At) # {}
        served == channel_candidates([x \in {u} |-> 1], {u}, r, At) # {}
    IN  /\ told /\ served =>
             u.kind = "procedural" /\ ServesCaptures(r) /\ u.state \in {"active", "candidate"}
        /\ ~told /\ ~served =>
             \/ u.kind = "belief" /\ ~r.beliefs
             \/ u.state = "candidate" /\ ~(u.capture /\ ServesCaptures(r))
             \/ r.compactOnly /\ ~u.compact /\ ~u.capture

\* A neighbour that may not be known at the asked time brings nobody in.
ASSUME EdgesJoinByLiveUnits ==
  \A n \in {u \in Filtered : u.trust = "web_content" /\ ~u.unsafe}, r \in Requests :
    LET u == [n EXCEPT !.id = 2, !.kind = "semantic", !.matches = FALSE]
        edge == [src |-> 1, dst |-> 2]
        joins == edge_score(u, {u, n}, {edge}, r, At) = 1
    IN  /\ joins => bitemporally_recallable(n, At)
        /\ Eligible(n, r, At) => joins
        /\ edge_score(u, {u, n}, {}, r, At) = 0

Fact(valid, tx, seen) == [kind |-> "semantic", state |-> "active", validFrom |-> valid, txFrom |-> tx, observed |-> seen]
Stamps == {Undated, Unreadable, 1, 4, 9}

\* A recency query ranks the facts by when they began, and drops none for its
\* age; the asked window comes before all.
ASSUME RecencyRanksByAge ==
  LET facts == {Fact(v, t, o) : v \in Stamps, t \in Stamps, o \in Stamps \ {Undated}}
      score(f, window) == temporal_score(f, [current |-> TRUE], window, 8)
  IN  \A f, g \in facts :
        /\ Above(score(f, <<>>), <<0, 1>>)
        /\ StampOf(f) # Unreadable /\ StampOf(g) # Unreadable =>
             (Above(score(f, <<>>), score(g, <<>>)) <=> age_days(StampOf(f), 8) < age_days(StampOf(g), 8))
        /\ f.validFrom = 4 => ~Above(score(g, <<3, 5>>), score(f, <<3, 5>>))

Reviews == [trace : {1, 2}, caller : {1}, outcome : {"success", "corrected", "ignored", "failure"}, used : {{1}, {2}}]

\* A review that is told again, by the same caller of the same trace, with any
\* outcome, changes nothing; reviews of other units do not either.
ASSUME ReviewsCountOnce ==
  \A n \in 0..2 : \A events \in [1..n -> Reviews], again \in Reviews :
    (again.used = {2} \/ \E i \in DOMAIN events : events[i].trace = again.trace /\ events[i].used = {1}) =>
      decay_score_for([id |-> 1, reinforced |-> 0], Append(events, again), TRUE)
        = decay_score_for([id |-> 1, reinforced |-> 0], events, TRUE)

\* One candidate is left of every subject, none of which was observed later.
ASSUME LatestPerSubject ==
  \A n \in 0..3 : \A fused \in [1..n -> [key : {Undated, 1, 2}, observed : 1..2, body : 1..2]] :
    LET kept == retain_most_recent_per_subject(fused)
        of(list, k) == {i \in DOMAIN list : list[i].key = k}
    IN  /\ \A k \in {1, 2} : Cardinality(of(kept, k)) = Min({1, Cardinality(of(fused, k))})
        /\ Cardinality(of(kept, Undated)) = Cardinality(of(fused, Undated))
        /\ \A i \in DOMAIN kept, j \in DOMAIN fused : kept[i].key = fused[j].key =>
             kept[i].key = Undated \/ kept[i].observed >= fused[j].observed

\* The promoted list is a permutation, its head has the best of each channel,
\* and a candidate no channel ranked is in it only when all ranked ones are.
ASSUME HeadIsBalanced ==
  \A n \in 0..4, limit \in 1..4 : \A has \in [1..n -> SUBSET {"vector", "lexical"}] :
    \A flip \in BOOLEAN :
      LET rank(i, c) == Cardinality({j \in 1..n : c \in has[j] /\ (IF flip THEN j >= i ELSE j <= i)})
          fused == [i \in 1..n |-> [id |-> i, ranks |-> [c \in has[i] |-> rank(i, c)]]]
          out == promote_vector_lexical_balanced(fused, limit)
          head == {out[i].id : i \in 1..Min({limit, n})}
          of(c) == {i \in 1..n : c \in has[i]}
      IN  /\ Len(out) = n /\ {out[i].id : i \in DOMAIN out} = 1..n
          /\ \A c \in {"vector", "lexical"} :
               Cardinality(head \cap of(c)) >= Min({Min({limit, n}) \div 2, Cardinality(of(c))})
          /\ n > 0 /\ of("vector") # {} => \E i \in head : "vector" \in has[i] /\ rank(i, "vector") = 1
          /\ (\E i \in head : has[i] = {}) => of("vector") \cup of("lexical") \subseteq head

\* The order is a permutation that starts with the projections; what was chosen
\* fits the budget and the slots beside them, and no affordable single candidate
\* is worth more than it.
ASSUME OrderServesTheBudget ==
  \A budget \in 2..4, k \in 1..2 : \A costs \in [1..3 -> 1..3], first \in BOOLEAN :
    \A w \in [1..3 -> 0..2], shared \in 0..2 :
      LET cands == [i \in 1..3 |-> [projection |-> first /\ i = 2, cost |-> costs[i], relevance |-> w[i], id |-> i]]
          sum(S) == MapThenSumSet(LAMBDA i : w[i], S)
          worth == [S \in SUBSET (1..3) |-> Max({sum(S) - (IF {1, 3} \subseteq S THEN shared ELSE 0), 0})]
          room == AvailableBudget(cands, budget)
          slots == AvailableSlots(cands, k)
          order == submodular_pack_order(cands, worth, budget, k)
          chosen == ToSet(Chosen(cands, worth, room, slots))
      IN  /\ Len(order) = 3 /\ ToSet(order) = 1..3
          /\ first => order[1] = 2
          /\ Cardinality(chosen) <= Max({slots, 1})
          /\ MapThenSumSet(LAMBDA i : costs[i], chosen) <= room
          /\ \A i \in 1..3 : ~cands[i].projection /\ costs[i] <= room => worth[{i}] <= worth[chosen]

-----------------------------------------------------------------------------
\* Averages are the nearest decimal of the precision, halves away from zero.
ASSUME AverageIsNearest ==
  \A total \in -25..25, scale \in 0..3, count \in 1..7 :
    LET a == average(total, scale, count)
        miss == a.coef * count * 10 ^ scale - total * 10 ^ a.scale
    IN  IF a.scale = scale /\ miss = 0 THEN TRUE
        ELSE a.scale = Precision /\ 2 * Size(miss) <= count * 10 ^ scale

Series(names, unit) == [names |-> names, unit |-> unit]
Measured(id, at, series, dims, value, trust) ==
  [id |-> id, own |-> TRUE, kind |-> "semantic", state |-> "active", live |-> TRUE, trust |-> trust,
   event |-> [at |-> at, series |-> series, dims |-> dims, value |-> value]]
Measures(id) ==
  {Measured(id, at, s, d, v, t) :
     at \in {1, 3}, s \in {Series({"run"}, "km"), Series({"run"}, "min")},
     d \in {<<>>, [place |-> {"park"}], [place |-> {"hall"}]}, v \in {Decimal(-15, 1), Decimal(7, 0)},
     t \in {"trusted_user", "web_content"}}

\* A rollup adds up every event of its series in the window that agrees with the
\* dimensions the query names, exactly and once, whatever their scales, and is
\* trusted no more than any of them.
ASSUME RollupsAreExact ==
  \A a \in Measures(1), b \in Measures(2), query \in {{"run"}, {"park"}, {"run", "hall", "park"}, {"swim"}} :
    \A r \in quantity_rollups({a, b, [a EXCEPT !.id = 3, !.own = FALSE]}, query, <<1, 3>>) :
      LET used == {u \in {a, b} : u.id \in r.sources}
          hundredths(d) == d.coef * 10 ^ (2 - d.scale)
          asked == \E u \in {a, b} : u.event.at = 1 /\ u.event.series = r.series
                                      /\ \E k \in DOMAIN u.event.dims : u.event.dims[k] \cap query # {}
      IN  /\ used # {} /\ Cardinality(r.sources) = Cardinality(used)
          /\ \A u \in used : /\ u.event.series = r.series /\ u.event.at = 1
                             /\ trust_risk_rank[u.trust] <= trust_risk_rank[r.trust]
                             /\ asked => \E k \in DOMAIN u.event.dims : u.event.dims[k] \cap query # {}
          /\ \A u \in {a, b} : u.event.at = 1 /\ u.event.series = r.series /\ ~asked => u \in used
          /\ hundredths(r.total) = MapThenSumSet(LAMBDA u : hundredths(u.event.value), used)

Items(id) ==
  [id : {id}, own : BOOLEAN, kind : {"semantic"}, state : {"active", "superseded"}, deleted : {FALSE}, closed : {FALSE},
   evidence : BOOLEAN, item : [namespace : {1, 2}, key : {1}], episode : {1, None}, says : {{}, {<<"my", "tall", "desk">>}},
   actor : {id, 1}, trust : {"trusted_user", "quarantined"}]

\* A bundle takes the place of its items: nothing is in the candidates twice or
\* lost, every line is a live item of the same scope, and it claims neither an
\* actor nor a trust that one of them does not have.
ASSUME BundleStandsForItems ==
  \A a \in Items(1), b \in Items(2) :
    LET query == [quoted |-> <<<<"my", "tall", "desk">>, <<"desk">>>>, suffix |-> <<>>]
        bundle == artifact_bundle({a, b}, query)
        after == Synthesized({a, b}, {}, bundle)
        items == UNION {m.sources : m \in after.made}
    IN  /\ {u.id : u \in after.real} \cup items = {1, 2} /\ {u.id : u \in after.real} \cap items = {}
        /\ bundle # None =>
             /\ ToSet(bundle.lines) = bundle.sources /\ Len(bundle.lines) = 2
             /\ \A u \in {a, b} : /\ u.own /\ u.state = "active" /\ u.evidence
                                  /\ bundle.actor \in {u.actor, None}
                                  /\ trust_risk_rank[u.trust] <= trust_risk_rank[bundle.trust]
             /\ \E u \in {a, b} : u.says # {} /\ u.episode # None
=============================================================================
