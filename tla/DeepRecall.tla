----------------------------- MODULE DeepRecall -----------------------------
(***************************************************************************)
(* A recall, fast or deep: the query is embedded, a deep one lets the      *)
(* provider gather evidence, then both pack their candidates, those of the *)
(* gathered sources first and in the provider's order, and decide whether  *)
(* to abstain.  The reads of the store beside other writers are            *)
(* RecallSession's subject: here the candidates are any that the provider's *)
(* sources and the channels may bring.                                     *)
(***************************************************************************)
EXTENDS DeepGather, ContextPack, VectorCalls

CONSTANTS MaxDeepCands, \* bound on the candidates of a deep recall
          Arm, Width,   \* the embedder and the width of its vectors
          Bodies        \* the bodies an answer to the query's batch may have

VARIABLES query,    \* the embedding of the query: where its post is, and its attempt
          mode,     \* fast or deep
          verdict,  \* what is kept of the gathered answer
          response  \* none, error, or the answer

recallVars == <<gatherVars, packVars, query, mode, verdict, response>>

NoVerdict == [status |-> "none", sources |-> <<>>, evidence |-> "none"]

\* NoopEmbedding: there is nothing to post, and the vector channel is off.
NoVectors == Width = 0

RecallInit ==
  /\ query = [state |-> IF NoVectors THEN "done" ELSE "post", attempt |-> 0]
  /\ GatherInit /\ PackInit /\ mode \in {"fast", "deep"}
  /\ verdict = NoVerdict /\ response = "none"

\* One answer to the post of the query, or its global timeout.  A failed call
\* fails the recall: the vector channel is never left out silently.
EmbedAnswers(outcome, body) ==
  /\ query.state = "post"
  /\ query' = IF Retries(outcome, query.attempt) THEN [query EXCEPT !.attempt = @ + 1]
              ELSE [state |-> "done", attempt |-> 0]
  /\ response' = IF \/ Retries(outcome, query.attempt)
                    \/ outcome = "2xx" /\ Accept(Arm, Width, <<"query">>, body).ok
                 THEN "none" ELSE "error"
  /\ UNCHANGED <<gatherVars, packVars, mode, verdict>>

Embedded == query.state = "done" /\ response = "none"
EmbedQuery == \E outcome \in Outcomes, body \in Bodies : EmbedAnswers(outcome, body)

Gathering == Embedded /\ mode = "deep" /\ pc # "over"
Elsewhere == UNCHANGED <<packVars, query, mode, verdict, response>>
OwnStep == Gathering /\ Own /\ Elsewhere
ProviderStep == Gathering /\ Provider /\ Elsewhere
TimerStep == Gathering /\ Timers /\ Elsewhere
TickStep == Gathering /\ GatherTick /\ Elsewhere

\* The loop's state goes when gather returns.
GatherIsOver ==
  /\ pc' = "over" /\ clock' = 0 /\ size' = PromptSize
  /\ usage' = [context |-> 0, spend |-> 0, tools |-> 0]
  /\ out' = NoRequest /\ ids' = <<>> /\ route' = NoRoute
  /\ notes' = NoNotes
  /\ attempts' = 0 /\ settleBy' = Wall /\ answer' = NoAnswer
  /\ charge' = Nothing /\ billed' = Nothing

\* deep_unavailable or deep_provider_invalid_output.
GatherErrors ==
  /\ pc = "failed" /\ response' = "error" /\ GatherIsOver
  /\ UNCHANGED <<packVars, query, mode, verdict>>

GatherReturns ==
  /\ pc = "accepted" /\ GatherIsOver
  /\ verdict' = [status |-> answer.status, sources |-> answer.sources, evidence |-> answer.evidence]
  /\ UNCHANGED <<packVars, query, mode, response>>

\* A candidate bound to a gathered source has that source's rank.
Ranked(c) ==
  LET hits == {p \in 1..Len(verdict.sources) : verdict.sources[p] = c.source}
  IN [c EXCEPT !.deep = IF hits = {} THEN 0 ELSE Min(hits)]

MayPack == Embedded /\ (mode = "fast" \/ pc = "over")

Offers(c) ==
  /\ MayPack /\ Len(cand) < (IF mode = "deep" THEN MaxDeepCands ELSE MaxCands)
  /\ Offer(Ranked(c))
  /\ UNCHANGED <<gatherVars, query, mode, verdict, response>>

Packs ==
  /\ MayPack
  /\ BeginPack(mode = "deep") \/ \E p \in Permutations(1..RerankedHead) : Rerank(p)
  /\ UNCHANGED <<gatherVars, query, mode, verdict, response>>

Packed == PackNext /\ UNCHANGED <<gatherVars, query, mode, verdict, response>>

\* suppression_labels_for: an item joined to another live candidate by a
\* Contradicts edge.
Unresolved ==
  \E i \in Range(items) : \E j \in (1..Len(cand)) \ {i} : Contradicts(i, j)

\* A mutant: only an empty pack abstains.
AbstainsWhenEmpty == items = <<>>

Abstains ==
  \/ items = <<>> \/ (Packing /\ Unresolved)
  \/ verdict.evidence = "insufficient"

\* A verdict that claims evidence needs a verified citation among the items.
Answer(verified) ==
  /\ stage = "done" /\ response = "none" /\ (verified => items # <<>>)
  /\ response' = IF verdict.evidence \notin {"none", "insufficient"} /\ ~verified THEN "error"
                 ELSE IF Abstains THEN "abstains" ELSE "answers"
  /\ UNCHANGED <<gatherVars, packVars, query, mode, verdict>>

RecallNext ==
  \/ EmbedQuery
  \/ OwnStep \/ ProviderStep \/ TimerStep \/ TickStep
  \/ GatherErrors \/ GatherReturns
  \/ \E c \in Kinds : Offers(c)
  \/ Packs \/ Packed
  \/ \E verified \in BOOLEAN : Answer(verified)

\* The caller's own steps, its timers and the clock are fair, and so is the post
\* of the query, which its global timeout ends; the provider is free never to
\* answer.
FairSpec ==
  /\ RecallInit /\ [][RecallNext]_recallVars
  /\ WF_recallVars(EmbedQuery) /\ WF_recallVars(OwnStep) /\ WF_recallVars(TimerStep) /\ WF_recallVars(TickStep)
  /\ WF_recallVars(GatherErrors \/ GatherReturns \/ Packs \/ Packed)
  /\ WF_recallVars(\E verified \in BOOLEAN : Answer(verified))

----------------------------------------------------------------------------

\* An answer that does not abstain has items, and a deep one rests on a finish
\* of the model that claims evidence: neither a cap, an error of the provider
\* nor an unresolved contradiction is answered.
AnswersOnlyFromEvidence ==
  response = "answers" =>
    /\ items # <<>>
    /\ mode = "deep" => verdict.status = "completed" /\ verdict.evidence # "insufficient"
    /\ Packing => ~Unresolved

\* A recall ends although the provider never has to answer.
RecallEnds == <>(response # "none")
=============================================================================
