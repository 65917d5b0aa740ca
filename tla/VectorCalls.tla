----------------------------- MODULE VectorCalls -----------------------------
(***************************************************************************)
(* The embedding and reranking providers.  An embedding call splits its    *)
(* texts into batches, posts each with retries, and accepts a response     *)
(* only if it holds one vector of the declared width for every text.  The  *)
(* hosted rerankers make one attempt and accept one finite score for each  *)
(* document.  A vector is [of, dims], of the text that it embeds.  Entries *)
(* of a response carry the index the provider says they answer, from 0.    *)
(***************************************************************************)
EXTENDS Integers, Sequences, SequencesExt, FiniteSetsExt

CONSTANTS MaxAttempts   \* MAX_ATTEMPTS of a post

Failed == [ok |-> FALSE, vectors |-> <<>>]
Fine(vs) == [ok |-> TRUE, vectors |-> vs]

(***************************************************************************)
(* The arms: how a response is shaped and how many texts a request may     *)
(* carry.  The local models run in the process, under a lock, and take any *)
(* number.                                                                 *)
(***************************************************************************)
Voyage    == [id |-> "voyage",    shape |-> "indexed", batch |-> 64]
Context   == [id |-> "voyage-context-4", shape |-> "context", batch |-> 64]
Gemini    == [id |-> "gemini",    shape |-> "ordered", batch |-> 100]
Jina      == [id |-> "jina",      shape |-> "indexed", batch |-> 128]
OpenAi    == [id |-> "openai",    shape |-> "indexed", batch |-> 256]
FastEmbed == [id |-> "fastembed", shape |-> "local",   batch |-> 0]
Qwen3     == [id |-> "qwen3",     shape |-> "local",   batch |-> 0]

Hosted == {Voyage, Context, Gemini, Jina, OpenAi}
Local == {FastEmbed, Qwen3}

(***************************************************************************)
(* Batches: consecutive ranges of at most size texts.                      *)
(***************************************************************************)
batch_ranges(n, size) ==
  [b \in 1..(n + size - 1) \div size |->
     <<(b - 1) * size + 1, IF b * size < n THEN b * size ELSE n>>]

BatchOf(texts, range) == SubSeq(texts, range[1], range[2])

\* What is posted for a batch: contextualized documents are one document of
\* chunks, contextualized queries one document each.
Documents(arm, kind, batch) ==
  IF arm.shape # "context" \/ kind = "document" THEN <<batch>>
  ELSE [i \in DOMAIN batch |-> <<batch[i]>>]

(***************************************************************************)
(* Reading a response.                                                     *)
(***************************************************************************)
Entry(n, vector) == [index |-> n, vector |-> vector]

order_indexed(data) ==
  LET at(n) == CHOOSE i \in DOMAIN data : data[i].index = n
  IN  IF {data[i].index : i \in DOMAIN data} = 0..Len(data) - 1
      THEN Fine([n \in 1..Len(data) |-> data[at(n - 1)].vector])
      ELSE Failed

flatten_context(documents) ==
  LET at(n) == CHOOSE i \in DOMAIN documents : documents[i].index = n
      inner == [n \in 1..Len(documents) |-> order_indexed(documents[at(n - 1)].data)]
  IN  IF /\ {documents[i].index : i \in DOMAIN documents} = 0..Len(documents) - 1
         /\ \A n \in DOMAIN inner : inner[n].ok
      THEN Fine(FlattenSeq([n \in DOMAIN inner |-> inner[n].vectors]))
      ELSE Failed

Decode(arm, response) ==
  CASE arm.shape = "indexed" -> order_indexed(response)
    [] arm.shape = "context" -> flatten_context(response)
    [] OTHER                 -> Fine([i \in DOMAIN response |-> response[i].vector])

expect_batch_len(vectors, batch) == Len(vectors) = Len(batch)
assert_dims(vectors, dims) == \A i \in DOMAIN vectors : vectors[i].dims = dims

\* The local models return what the session produced, unchecked.
Accept(arm, dims, batch, response) ==
  LET d == Decode(arm, response)
  IN  IF /\ d.ok
         /\ arm.shape = "local" \/ (expect_batch_len(d.vectors, batch) /\ assert_dims(d.vectors, dims))
      THEN d ELSE Failed

\* A call: one response for each batch, and the first bad one fails the call.
embed(arm, dims, texts, responses) ==
  LET ranges == batch_ranges(Len(texts), IF arm \in Local THEN Len(texts) ELSE arm.batch)
      parts == [b \in DOMAIN ranges |-> Accept(arm, dims, BatchOf(texts, ranges[b]), responses[b])]
  IN  IF \A b \in DOMAIN parts : parts[b].ok
      THEN Fine(FlattenSeq([b \in DOMAIN parts |-> parts[b].vectors])) ELSE Failed

(***************************************************************************)
(* The attempts of one post.                                               *)
(***************************************************************************)
is_retryable_status(outcome) == outcome \in {"429", "5xx"}
Retries(outcome, attempt) ==
  (is_retryable_status(outcome) \/ outcome = "transport") /\ attempt + 1 < MaxAttempts
\* A retry waits for what Retry-After says, or for an exponential delay.
Outcomes == {"2xx", "bad_body", "4xx", "429", "5xx", "transport"}

(***************************************************************************)
(* Rerankers: scores in the order of the documents, or none.  A score is a *)
(* number or Infinite.                                                     *)
(***************************************************************************)
Infinite == 1000

scores_in_input_order(items, count) ==
  LET at(n) == CHOOSE i \in DOMAIN items : items[i].index = n
  IN  IF /\ Len(items) = count
         /\ \A i \in DOMAIN items : items[i].index \in 0..count - 1 /\ items[i].score # Infinite
         /\ \A i, j \in DOMAIN items : items[i].index = items[j].index => i = j
      THEN [n \in 1..count |-> items[at(n - 1)].score] ELSE <<>>

\* The local cross-encoder: the same without the test of the scores.
scatter_rerank_results(items, count) ==
  LET at(n) == CHOOSE i \in DOMAIN items : items[i].index = n
  IN  IF Len(items) = count /\ {items[i].index : i \in DOMAIN items} = 0..count - 1
      THEN [n \in 1..count |-> items[at(n - 1)].score] ELSE <<>>

\* One attempt: an error, a status or a body that cannot be read leaves no scores.
VoyageRerank(outcome, items, count) ==
  IF count = 0 \/ outcome # "2xx" THEN <<>> ELSE scores_in_input_order(items, count)

\* Cohere asks for all documents and reads the same.
CohereRerank(outcome, items, count) == VoyageRerank(outcome, items, count)

\* Each candidate's documents are a range of the flattened ones; its score is
\* the best of its own.
PooledScores(scores, counts) ==
  LET upto(c) == FoldLeft(LAMBDA n, k : n + k, 0, SubSeq(counts, 1, c))
  IN  [c \in DOMAIN counts |-> Max({scores[i] : i \in upto(c - 1) + 1..upto(c)})]

\* The stage that uses the scores: one for every document and all finite, pooled
\* and sorted, equal ones in their order; otherwise the order stays.
RerankOrder(scores, counts) ==
  LET pooled == PooledScores(scores, counts)
  IN  IF Len(scores) # FoldLeft(LAMBDA n, k : n + k, 0, counts) \/ Infinite \in Range(scores)
      THEN [i \in DOMAIN counts |-> i]
      ELSE SetToSortSeq(DOMAIN counts,
             LAMBDA i, j : pooled[i] > pooled[j] \/ (pooled[i] = pooled[j] /\ i < j))
=============================================================================
