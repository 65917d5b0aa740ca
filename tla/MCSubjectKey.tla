----------------------------- MODULE MCSubjectKey ----------------------------
(* Two statements about one key, and a clock of a few ticks; and the miner   *)
(* that gives the facts of an episode their keys, on a small vocabulary.     *)
EXTENDS SubjectKey, FactMining, TLC

Symmetry == Permutations(Bodies) \cup Permutations(Writers)

UpTo(S, n) == UNION {[1..k -> S] : k \in 0..n}
Fact(family, phrase) == [family |-> family, phrase |-> phrase]

\* An update finds the key of what it updates: hedges, negation, the verb, an
\* article, trailing words and another clause do not change a preference's key,
\* and new does not change an attribute's.
ASSUME UpdatesShareTheKey ==
  /\ \A hedge \in UpTo(Fillers, 1) \cup UpTo({"don't", "really", "no", "longer"}, 2),
        trail \in UpTo(Trailers, 1) \cup UpTo({"now", "anymore"}, 2) :
     \A verb \in {<<v>> : v \in Verbs} \cup {<<"can't", "stand">>, <<"switched", "to">>},
        article \in {<<>>, <<"the">>}, clause \in {<<>>, <<"but", "i", "like", "it">>} :
       LET s == <<"i">> \o hedge \o verb \o article \o <<"coffee">> \o trail \o clause
       IN  Len(s) >= MinWords => match_fact(s) = Fact("preference", <<"coffee">>)
  /\ \A noun \in {<<"car">>, <<"first", "car">>}, value \in {"red", "blue"} :
       \A new \in {<<>>, <<"new">>} :
         match_fact(<<"my">> \o new \o noun \o <<"is", value>>) = Fact("attribute", noun)
  /\ \A hedge \in {<<>>, <<"no", "longer">>}, am \in {<<"i'm">>, <<"i", "am">>} :
       match_fact(am \o hedge \o <<"a", "baker", "now">>) = Fact("attribute", <<"baker", "now">>)

\* Whatever a sentence says, a mined key is made of its words, after the verb or
\* between my and is, and does not begin with a pronoun.
ASSUME KeysAreNotPronouns ==
  \A s \in [1..5 -> {"i", "my", "is", "like", "it", "coffee", "favorite"}] :
    LET fact == match_fact(s)
        phrase == fact.phrase
    IN  fact # NoFact =>
          /\ phrase # <<>> /\ phrase[1] \notin Pronouns
          /\ \E i \in 2..5 : Len(phrase) <= 6 - i /\ SubSeq(s, i, i + Len(phrase) - 1) = phrase

Says(role, words) == [role |-> role, sentences |-> <<words>>]
MCLines ==
  {Says("user", <<"i", "like", "green", "tea">>), Says("user", <<"i", "don't", "like", "green", "tea">>),
   Says("none", <<"my", "car", "is", "red">>), Says("user", <<"my", "favorite", "color", "is", "red">>),
   Says("assistant", <<"my", "car", "is", "blue">>)}

\* The facts of an episode are at most MaxFacts with different keys, each is the
\* last that the user says about its key, and a key that is left out was last
\* spoken of before those that are kept.
ASSUME LatestFactsAreKept ==
  \A body \in UpTo(MCLines, 4) :
    LET facts == extract_facts(body)
        key(n) == match_fact(body[n].sentences[1])
        said == {n \in DOMAIN body : body[n].role # "assistant"}
        last == {n \in said : \A m \in said : m > n => key(m) # key(n)}
        kept == {n \in last : \E i \in DOMAIN facts : facts[i].key = key(n)}
    IN  /\ Len(facts) = Min({MaxFacts, Cardinality(last)})
        /\ \A i \in DOMAIN facts : \E n \in kept : facts[i] = [key |-> key(n), body |-> body[n].sentences[1]]
        /\ Cardinality(kept) = Len(facts) /\ \A n \in kept, m \in last \ kept : m < n
=============================================================================
