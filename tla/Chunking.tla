------------------------------ MODULE Chunking ------------------------------
(***************************************************************************)
(* How a source is cut: an episode into windows of turns, a document into  *)
(* windows of paragraphs, a candidate of the reranker into documents that  *)
(* fit its model.  A body is a sequence of lines [kind, len, gaps], gaps   *)
(* the offsets of its white space; each line ends with a newline.  A span  *)
(* <<s, e>> is the characters from offset s up to e.                       *)
(***************************************************************************)
EXTENDS Integers, Sequences, SequencesExt, FiniteSetsExt

CONSTANTS Window, MaxChunks,             \* CONTEXTUAL_CHUNK_WINDOW, MAX_CONTEXTUAL_CHUNKS
          TargetMin, TargetMax, HardMax, \* RESOURCE_CHUNK_*_CHARS
          MaxSubchunks                   \* RERANK_MAX_SUBCHUNKS_PER_CANDIDATE

ASSUME ChunkingBounds ==
  /\ {Window, MaxChunks, TargetMax, HardMax, MaxSubchunks} \subseteq Nat \ {0}
  /\ TargetMin \in Nat /\ TargetMin < TargetMax /\ TargetMax <= HardMax

LineStart(body, i) == FoldLeft(LAMBDA n, l : n + l.len + 1, 0, SubSeq(body, 1, i - 1))
LineSpan(body, i) == <<LineStart(body, i), LineStart(body, i) + body[i].len>>
White(body, p) ==
  \E i \in DOMAIN body : LET at == p - LineStart(body, i)
                         IN  at = body[i].len \/ at \in body[i].gaps

\* Consecutive groups of w elements, as <<first, last>>.
Groups(n, w) ==
  [g \in 1..(n + w - 1) \div w |-> <<(g - 1) * w + 1, Min({g * w, n})>>]

Covering(spans, groups) ==
  [g \in DOMAIN groups |-> <<spans[groups[g][1]][1], spans[groups[g][2]][2]>>]

----------------------------------------------------------------------------
(* Episodes. *)

\* Turns are the segments when there are two and they are half of the lines;
\* otherwise every line that is not blank.
TurnStructured(body) ==
  LET turns == {i \in DOMAIN body : body[i].kind = "turn"}
      lines == {i \in DOMAIN body : body[i].kind # "blank"}
  IN  Cardinality(turns) >= 2 /\ 2 * Cardinality(turns) >= Cardinality(lines)

segment_episode_body(body) ==
  LET counts(i) == IF TurnStructured(body) THEN body[i].kind = "turn" ELSE body[i].kind # "blank"
      lines == SelectSeq([i \in DOMAIN body |-> i], counts)
  IN  [n \in DOMAIN lines |-> LineSpan(body, lines[n])]

\* The window grows so that MaxChunks windows are enough for any body.
adaptive_chunk_window(n) == Max({Window, (n + MaxChunks - 1) \div MaxChunks})

episode_contextual_chunks(body) ==
  LET spans == segment_episode_body(body)
      chunks == Covering(spans, Groups(Len(spans), adaptive_chunk_window(Len(spans))))
  IN  IF Len(spans) <= Window THEN <<>>
      ELSE SubSeq(chunks, 1, Min({MaxChunks, Len(chunks)}))

----------------------------------------------------------------------------
(* Documents. *)

\* A span that is too long is cut after the last white space between the targets,
\* or else at the hard limit.
split_oversized_resource_span(body, span) ==
  LET split[c \in span[1]..span[2]] ==
        LET after == {p \in c + TargetMin..c + TargetMax - 1 : White(body, p)}
            cut == IF after = {} THEN c + HardMax ELSE Max(after) + 1
        IN  IF c = span[2] THEN <<>>
            ELSE IF span[2] - c <= HardMax THEN <<<<c, span[2]>>>>
            ELSE <<<<c, cut>>>> \o split[cut]
  IN  split[span[1]]

\* A blank line ends a paragraph unless a fence is open.
paragraphs(body) ==
  LET step(a, i) ==
        LET line == LineSpan(body, i)
        IN  IF body[i].kind = "blank" /\ ~a.fence
            THEN [a EXCEPT !.open = <<>>, !.done = @ \o a.open]
            ELSE [done |-> a.done,
                  open |-> IF a.open = <<>> THEN <<line>> ELSE <<<<a.open[1][1], line[2]>>>>,
                  fence |-> a.fence # (body[i].kind = "fence")]
      last == FoldLeft(step, [done |-> <<>>, open |-> <<>>, fence |-> FALSE],
                       [i \in DOMAIN body |-> i])
  IN  last.done \o last.open

segment_resource_paragraphs(body) ==
  LET paras == paragraphs(body)
  IN  FlattenSeq([p \in DOMAIN paras |-> split_oversized_resource_span(body, paras[p])])

Chars(paras, first, last) == paras[last][2] - paras[first][1]

\* A window takes the next paragraph while that keeps it within the target, or
\* while it is still too small and the hard limit allows it.
LastOfWindow(paras, first) ==
  LET grow[e \in first..Len(paras)] ==
        LET now == Chars(paras, first, e)
            next == Chars(paras, first, e + 1)
        IN  IF e = Len(paras) THEN e
            ELSE IF \/ now >= TargetMax \/ next > HardMax
                    \/ (next > TargetMax /\ now >= TargetMin) THEN e
            ELSE grow[e + 1]
  IN  grow[first]

window_resource_paragraphs(paras) ==
  LET from[i \in 1..Len(paras) + 1] ==
        IF i > Len(paras) THEN <<>>
        ELSE <<<<i, LastOfWindow(paras, i)>>>> \o from[LastOfWindow(paras, i) + 1]
      windows == from[1]
      n == Len(windows)
  IN  IF /\ n >= 2
         /\ Chars(paras, windows[n][1], windows[n][2]) < TargetMin
         /\ Chars(paras, windows[n - 1][1], windows[n][2]) <= HardMax
      THEN Append(SubSeq(windows, 1, n - 2), <<windows[n - 1][1], windows[n][2]>>)
      ELSE windows

resource_contextual_chunks(body) ==
  LET paras == segment_resource_paragraphs(body)
      windows == window_resource_paragraphs(paras)
  IN  IF Len(windows) <= 1 THEN <<>> ELSE Covering(paras, windows)

----------------------------------------------------------------------------
(* Documents for the reranker: the lengths of the words of a text, packed  *)
(* into windows of at most budget characters.                              *)

Pieces(n, budget) ==
  [p \in 1..(n + budget - 1) \div budget |-> IF p * budget <= n THEN budget ELSE n % budget]

\* windows and the open one; 0 is an empty window.
AddWord(a, n, budget) ==
  IF n > budget
  THEN LET cut == Pieces(n, budget)
       IN  [done |-> a.done \o (IF a.open = 0 THEN <<>> ELSE <<a.open>>) \o Front(cut),
            open |-> Last(cut)]
  ELSE LET joined == IF a.open = 0 THEN n ELSE a.open + n + 1
       IN  IF joined > budget THEN [done |-> Append(a.done, a.open), open |-> n]
           ELSE [a EXCEPT !.open = joined]

sub_split_for_rerank(words, budget) ==
  LET end == FoldLeft(LAMBDA a, n : AddWord(a, n, budget), [done |-> <<>>, open |-> 0], words)
  IN  end.done \o (IF end.open = 0 THEN <<>> ELSE <<end.open>>)

\* The documents of one candidate: its chunks' bodies, or its own.  A candidate
\* with no words still has a document.
DocumentsOf(texts, budget) ==
  LET all == FlattenSeq([t \in DOMAIN texts |-> sub_split_for_rerank(texts[t], budget)])
  IN  IF all = <<>> THEN <<0>> ELSE SubSeq(all, 1, Min({MaxSubchunks, Len(all)}))
=============================================================================
