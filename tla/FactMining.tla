----------------------------- MODULE FactMining -----------------------------
(***************************************************************************)
(* The deterministic miner of an episode's facts.  A body is a sequence of *)
(* lines [role, sentences]; a sentence is a sequence of words, lower case  *)
(* and without punctuation.  A fact is its key, [family, phrase], and the  *)
(* sentence it was found in.                                               *)
(***************************************************************************)
EXTENDS Integers, Sequences, SequencesExt, FiniteSetsExt

CONSTANTS MaxFacts, MinWords  \* MAX_EXTRACTED_FACTS, MIN_FACT_SENTENCE_WORDS

\* Objects that say nothing by themselves.
Pronouns ==
    {"it", "that", "this", "these", "those", "them", "they", "he", "she", "him", "her",
     "you", "us", "me", "myself", "one", "ones", "everything", "anything", "something",
     "nothing", "everyone", "anyone", "someone", "itself", "here", "there", "who", "what",
     "which"}
\* Moves of the discourse, not attributes.
NounStops ==
    {"point", "question", "guess", "concern", "answer", "goal", "issue", "problem", "idea",
     "opinion", "view", "take", "understanding", "assumption", "mistake", "bad",
     "apologies", "sense", "hope", "plan", "thought", "thoughts", "feeling", "feelings",
     "response", "reply", "suggestion", "recommendation", "advice", "impression", "worry",
     "fear"}
\* What follows i'm a without saying who.
IdentityStops ==
    {"bit", "little", "tad", "lot", "fan", "huge", "big", "couple", "few", "sort", "kind",
     "loyal"}
\* Negation and hedges between i and the verb.
Fillers ==
    {"do", "don't", "dont", "did", "didn't", "not", "never", "really", "no", "longer",
     "just", "also", "still", "actually", "totally", "absolutely", "genuinely", "truly",
     "simply", "so", "much", "always", "generally", "usually", "kinda", "sort", "of"}
Verbs ==
    {"love", "loved", "like", "liked", "prefer", "preferred", "enjoy", "enjoyed", "hate",
     "hated", "dislike", "disliked", "adore", "adored", "fancy"}
Trailers ==
    {"anymore", "now", "today", "currently", "lately", "recently", "nowadays", "days",
     "these", "any", "more", "longer", "too", "though", "either", "here"}
ClauseStops ==
    {"and", "but", "because", "so", "although", "though", "however", "yet", "while",
     "whereas"}

NoFact == [family |-> "none", phrase |-> <<>>]
Key(family, phrase) == IF phrase = <<>> THEN NoFact ELSE [family |-> family, phrase |-> phrase]

\* The first place of a word at or after from, or 0.
Find(words, word, from) ==
  LET places == {i \in from..Len(words) : words[i] = word}
  IN  IF places = {} THEN 0 ELSE Min(places)

After(words, i) == SubSeq(words, i, Len(words))

----------------------------------------------------------------------------
(* Phrases; the empty one says that there is none. *)

clause_trim(words) ==
  LET ends == {i \in DOMAIN words : words[i] \in ClauseStops}
  IN  IF ends = {} THEN words ELSE SubSeq(words, 1, Min(ends) - 1)

NotPronoun(words) == IF words # <<>> /\ words[1] \in Pronouns THEN <<>> ELSE words

clean_subject_phrase(words) == NotPronoun(clause_trim(words))

\* Without a leading article and the trailing words about time.
clean_object(words) ==
  LET clause == clause_trim(words)
      bare == IF clause # <<>> /\ clause[1] \in {"a", "an", "the"} THEN Tail(clause) ELSE clause
      kept == {i \in DOMAIN bare : bare[i] \notin Trailers}
  IN  IF kept = {} THEN <<>> ELSE NotPronoun(SubSeq(bare, 1, Max(kept)))

----------------------------------------------------------------------------
(* The rules. *)

\* my [all-time] favorite <noun> is <value>
match_superlative(words) ==
  LET fav == Find(words, "favorite", 1)
      is == Find(words, "is", fav + 1)
      noun == clean_subject_phrase(SubSeq(words, fav + 1, is - 1))
      rooted == \/ fav > 1 /\ words[fav - 1] = "my"
                \/ fav > 2 /\ SubSeq(words, fav - 2, fav - 1) = <<"my", "all-time">>
                \/ fav > 3 /\ SubSeq(words, fav - 3, fav - 1) = <<"my", "all", "time">>
  IN  IF rooted /\ is # 0 /\ noun # <<>> /\ clean_subject_phrase(After(words, is + 1)) # <<>>
      THEN Key("preference", <<"favorite">> \o noun) ELSE NoFact

\* my new <noun> is <value>: the key of my <noun> is <value>
match_my_new_noun(words) ==
  LET my == Find(words, "my", 1)
      is == Find(words, "is", my + 2)
      noun == clean_subject_phrase(SubSeq(words, my + 2, is - 1))
  IN  IF /\ my # 0 /\ my < Len(words) /\ words[my + 1] = "new" /\ is # 0
         /\ clean_subject_phrase(After(words, is + 1)) # <<>>
         /\ ~(Len(noun) = 1 /\ noun[1] \in NounStops)
      THEN Key("attribute", noun) ELSE NoFact

match_my_noun_is(words) ==
  LET my == Find(words, "my", 1)
      is == Find(words, "is", my + 1)
      noun == clean_subject_phrase(SubSeq(words, my + 1, is - 1))
  IN  IF /\ my # 0 /\ is # 0 /\ is - my - 1 \in 1..3
         /\ clean_subject_phrase(After(words, is + 1)) # <<>>
         /\ Range(noun) \cap NounStops = {}
      THEN Key("attribute", noun) ELSE NoFact

\* i am a <desc>, negated or not
match_identity(words) ==
  LET at == {i \in DOMAIN words : words[i] = "i'm" \/ (words[i] = "i" /\ i < Len(words) /\ words[i + 1] = "am")}
      start == IF words[Min(at)] = "i'm" THEN Min(at) + 1 ELSE Min(at) + 2
      hedges == {"not", "no", "longer", "really", "actually", "also", "still"}
      rest == {i \in start..Len(words) : words[i] \notin hedges}
      desc == clean_subject_phrase(After(words, Min(rest) + 1))
  IN  IF /\ at # {} /\ rest # {} /\ words[Min(rest)] \in {"a", "an"}
         /\ Len(desc) \in 1..4 /\ desc[1] \notin IdentityStops
      THEN Key("attribute", desc) ELSE NoFact

\* i [fillers] <verb> <object>: the first i that fronts a verb decides
match_preference_verb(words) ==
  LET verb(i) == LET j == {n \in i + 1..Len(words) : words[n] \notin Fillers}
                 IN  IF j = {} THEN 0 ELSE Min(j)
      double(j) == j < Len(words) /\ \/ words[j] \in {"can't", "cannot", "can"} /\ words[j + 1] = "stand"
                                     \/ words[j] = "switched" /\ words[j + 1] = "to"
      fronts == {i \in DOMAIN words : words[i] = "i" /\ verb(i) # 0
                                      /\ (double(verb(i)) \/ words[verb(i)] \in Verbs)}
      j == verb(Min(fronts))
  IN  IF fronts = {} THEN NoFact
      ELSE Key("preference", clean_object(After(words, IF double(j) THEN j + 2 ELSE j + 1)))

\* The first rule that matches.
match_fact(words) ==
  LET tried == SelectSeq(<<match_superlative(words), match_my_new_noun(words), match_my_noun_is(words),
                           match_identity(words), match_preference_verb(words)>>, LAMBDA f : f # NoFact)
  IN  IF Len(words) < MinWords \/ tried = <<>> THEN NoFact ELSE tried[1]

----------------------------------------------------------------------------

\* The sentences of the user's turns and of prose; a subject's last sentence
\* counts, in its place, and the latest MaxFacts are kept.
extract_facts(body) ==
  LET mined == SelectSeq(body, LAMBDA line : line.role \in {"user", "none"})
      sentences == FlattenSeq([n \in DOMAIN mined |-> mined[n].sentences])
      found == SelectSeq([n \in DOMAIN sentences |->
                            [key |-> match_fact(sentences[n]), body |-> sentences[n]]],
                         LAMBDA f : f.key # NoFact)
      deduped == FoldLeft(LAMBDA kept, f : Append(SelectSeq(kept, LAMBDA k : k.key # f.key), f), <<>>, found)
  IN  SubSeq(deduped, Max({1, Len(deduped) - MaxFacts + 1}), Len(deduped))
=============================================================================
