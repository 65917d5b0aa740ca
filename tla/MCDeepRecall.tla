---------------------------- MODULE MCDeepRecall ----------------------------
(* Instances of DeepRecall for TLC: the turns a model may answer with, and  *)
(* candidates that meet each rule of the packing.                           *)
EXTENDS DeepRecall, Chunking, TLC

CONSTANTS s1, s2

Call(tool, sources, status) == [tool |-> tool, ids |-> sources, status |-> status]

MCTurns ==
  {<<Call("read_file", <<>>, "")>>,
   <<Call("malformed", <<>>, "")>>,
   <<Call("record_evidence", <<s1>>, "")>>,
   <<Call("record_evidence", <<Unknown>>, "")>>,
   <<Call("record_evidence", <<s2, s1>>, ""), Call("malformed", <<>>, "")>>,
   <<Call("finish", <<s2, s2, s1>>, "supported")>>,
   <<Call("finish", <<>>, "supported")>>,
   <<Call("finish", <<>>, "insufficient"), Call("record_evidence", <<s2>>, "")>>}

\* Answers to a batch of texts: each entry says which index it answers, its
\* vector is of the text at that index, and its width may be wrong; the local
\* and Gemini arms rely on the order alone.
Vec(t, d) == [of |-> t, dims |-> d]
Entries(texts) == {Entry(n, Vec(texts[n + 1], d)) : n \in 0..Len(texts) - 1, d \in {Width, Width + 1}}
Replies(texts, len) == UNION {[1..k -> Entries(texts)] : k \in 0..len}
MCBodies == Replies(<<"query">>, 1) \cup {<<Entry(1, Vec("query", Width))>>}

Texts == <<"t1", "t2", "t3">>
Two == SubSeq(Texts, 1, 2)
Holds(call, texts) ==
  call.ok => call.vectors = [i \in DOMAIN texts |-> Vec(texts[i], Width)]

\* The batches are consecutive, none is empty or too large, and together they
\* are the texts.
ASSUME BatchesPartition ==
  \A n \in 0..7, most \in 1..4 :
    LET r == batch_ranges(n, most)
    IN  /\ FlattenSeq([b \in DOMAIN r |-> [i \in 1..r[b][2] - r[b][1] + 1 |-> r[b][1] + i - 1]])
           = [i \in 1..n |-> i]
        /\ \A b \in DOMAIN r : r[b][2] - r[b][1] + 1 \in 1..most

\* Whatever a provider that numbers its entries honestly drops, repeats,
\* permutes or gives in another width, an accepted call has at every place the
\* vector of the text at that place; and some call is accepted.
ASSUME VectorsMatchTexts ==
  \A arm \in {a \in Hosted : a.shape = "indexed"} :
    LET pairs == [arm EXCEPT !.batch = 2]
        calls == {embed(pairs, Width, Texts, <<r1, r2>>) :
                    r1 \in Replies(Two, 2), r2 \in Replies(SubSeq(Texts, 3, 3), 1)}
    IN  /\ \A c \in calls : Holds(c, Texts)
        /\ \E c \in calls : c.ok
        /\ \A r \in Replies(Two, 3) : Holds(Accept(arm, Width, Two, r), Two)

\* Without indices: an answer in order, cut short or with a text too many.
ASSUME OrderedMatchesTexts ==
  LET r(k, d) == [i \in 1..k |-> Entry(0, Vec(Texts[i], d))]
  IN  /\ \A k \in 0..3, d \in {Width, Width + 1} : Holds(Accept(Gemini, Width, Two, r(k, d)), Two)
      /\ \A arm \in Local : Holds(embed(arm, Width, Texts, <<r(3, Width)>>), Texts)

\* Contextualized: one document of all the chunks, or a document for each query;
\* the documents of an answer may come in any order, repeated or cut short.
ASSUME ContextMatchesTexts ==
  \A kind \in {"document", "query"} :
    LET docs == Documents(Context, kind, Two)
        answers == UNION {{[index |-> n, data |-> r] : r \in Replies(docs[n + 1], Len(docs[n + 1]))} :
                            n \in 0..Len(docs) - 1}
    IN  \A given \in UNION {[1..k -> answers] : k \in 0..Len(docs)} :
          Holds(Accept(Context, Width, Two, given), Two)

Item(n, score) == [index |-> n, score |-> score]
Items == UNION {[1..k -> {Item(n, s) : n \in 0..2, s \in {1, 2, Infinite}}] : k \in 0..3}

\* The rerankers return one score for every document, the one that was given
\* for it, or none.
ASSUME ScoresMatchDocuments ==
  \A given \in Items, outcome \in {"2xx", "5xx"} :
    LET strict == CohereRerank(outcome, given, 2)
        inside == scatter_rerank_results(given, 2)
    IN  /\ \A s \in {strict, inside} :
             s # <<>> => Len(s) = 2 /\ \A n \in 1..2 : Item(n - 1, s[n]) \in Range(given)
        /\ strict # <<>> => strict = inside /\ Infinite \notin Range(strict)

\* The order is a permutation, and a candidate comes before another exactly if
\* its best document does, or is as good and it came first.
ASSUME RerankingIsSound ==
  \A counts \in [1..3 -> 1..2] : \A scores \in UNION {[1..k -> {1, 2, Infinite}] : k \in 3..5} :
    LET order == RerankOrder(scores, counts)
        best == PooledScores(scores, counts)
    IN  /\ Range(order) = 1..3
        /\ Len(scores) = counts[1] + counts[2] + counts[3] /\ Infinite \notin Range(scores) =>
             \A a, b \in 1..3 : a < b =>
               best[order[a]] > best[order[b]] \/ (best[order[a]] = best[order[b]] /\ order[a] < order[b])

Line(kind, n, gaps) == [kind |-> kind, len |-> n, gaps |-> gaps]
Disjoint(spans) == \A i \in 1..Len(spans) - 1 : spans[i][2] <= spans[i + 1][1]
Inside(span, spans) == \E i \in DOMAIN spans : spans[i][1] <= span[1] /\ span[2] <= spans[i][2]
LinesOf(body, kinds) == {LineSpan(body, i) : i \in {n \in DOMAIN body : body[n].kind \in kinds}}

\* The windows of an episode are at most MaxChunks, in order, and have all its
\* segments: a line is left out only from a body that is cut by turns, and then
\* it is no turn.
ASSUME EpisodeChunksCover ==
  \A n \in 0..6 : \A body \in [1..n -> {Line("blank", 0, {}), Line("text", 1, {}), Line("turn", 2, {})}] :
    LET chunks == episode_contextual_chunks(body)
    IN  chunks # <<>> =>
          /\ Len(chunks) \in 2..MaxChunks /\ Disjoint(chunks)
          /\ \A line \in LinesOf(body, {"turn"}) : Inside(line, chunks)
          /\ TurnStructured(body) \/ \A line \in LinesOf(body, {"text"}) : Inside(line, chunks)

\* The windows of a document are in order, each within the hard limit, and no
\* text is lost: every line is inside one or cut at the edge of one.  Only a
\* paragraph over the hard limit is cut.
ASSUME DocumentChunksCover ==
  \A n \in 0..4 : \A body \in [1..n -> {Line("blank", 0, {}), Line("text", 2, {}), Line("text", 7, {2, 4}),
                                       Line("fence", 1, {})}] :
    LET chunks == resource_contextual_chunks(body)
        within(p) == \E i \in DOMAIN chunks : chunks[i][1] <= p /\ p < chunks[i][2]
    IN  chunks # <<>> =>
          /\ Disjoint(chunks) /\ \A i \in DOMAIN chunks : chunks[i][2] - chunks[i][1] \in 1..HardMax
          /\ \A line \in LinesOf(body, {"text", "fence"}) : \A p \in line[1]..line[2] - 1 : within(p)
          /\ \A para \in Range(paragraphs(body)) :
               \/ para[2] - para[1] > HardMax \/ Inside(para, chunks)

\* No document is over the budget, none of a text's characters is lost, and a
\* document is ended only when the next word does not fit.
ASSUME SubSplitKeepsWords ==
  \A words \in UNION {[1..k -> 1..6] : k \in 0..4}, budget \in 1..4 :
    LET docs == sub_split_for_rerank(words, budget)
        total(s) == FoldLeft(LAMBDA a, b : a + b, 0, s)
    IN  /\ \A d \in Range(docs) : d \in 1..budget
        /\ total(docs) >= total(words) /\ total(docs) + Len(docs) <= total(words) + total([i \in DOMAIN words |-> (words[i] + budget - 1) \div budget])
        /\ DocumentsOf(<<words, words>>, budget) # <<>>

Plain == [source |-> NoKey, deep |-> 0, exact |-> FALSE, projection |-> FALSE, key |-> NoKey,
          episode |-> NoKey, unit |-> [tokens |-> 2, chunks |-> <<>>], score |-> 1, weak |-> FALSE,
          says |-> 0, fresh |-> 0, disputed |-> FALSE]
Chunk(body, score) == [head |-> 1, body |-> body, score |-> score, doc |-> 1]

MCKinds ==
  {[Plain EXCEPT !.episode = "e1", !.source = s1],
   [Plain EXCEPT !.episode = "e1", !.says = 1, !.fresh = 2, !.key = "b"],
   [Plain EXCEPT !.episode = "e2", !.says = 2, !.fresh = 1, !.key = "c", !.source = s2],
   [Plain EXCEPT !.unit.tokens = 4, !.score = 2, !.key = "a", !.exact = TRUE],
   [Plain EXCEPT !.key = "a", !.disputed = TRUE, !.says = 1, !.episode = "e1"],
   [Plain EXCEPT !.weak = TRUE, !.says = 3, !.key = "d", !.fresh = 3],
   [Plain EXCEPT !.projection = TRUE, !.unit.tokens = 4],
   [Plain EXCEPT !.unit.chunks = <<Chunk(1, 0), Chunk(2, 1), Chunk(2, 2)>>, !.episode = "e2"],
   [Plain EXCEPT !.unit.chunks = <<Chunk(2, 1), Chunk(2, 0)>>],
   [Plain EXCEPT !.unit.tokens = 6, !.score = 3, !.weak = TRUE]}
=============================================================================
