----------------------------- MODULE MemoryText -----------------------------
(***************************************************************************)
(* The paths, texts and listings of the MCP memory tool, as operators.  A  *)
(* path is a sequence of components below /memories.  A body is a sequence *)
(* of lines, a line is a token or Blank; the empty body is one blank line, *)
(* as str::split gives it.  Sizes in bytes are counted in lines.           *)
(***************************************************************************)
EXTENDS Integers, Sequences, FiniteSets, SequencesExt

CONSTANTS Blank,         \* the empty line
          Hidden,        \* components that valid_relative_memory_path refuses
          MaxBody,       \* MAX_TOPIC_BYTES
          MaxView,       \* MAX_VIEW_CHARACTERS
          MaxIndex,      \* MAX_MEMORY_INDEX_LINES
          MaxListing,    \* MAX_DIRECTORY_ENTRIES
          PathOrder      \* the writable paths in byte order of their text

Root   == <<>>
Index  == <<"MEMORY.md">>
Header == 5              \* lines of the index before its entries

Least(a, b) == IF a < b THEN a ELSE b

(***************************************************************************)
(* Paths.                                                                  *)
(***************************************************************************)
Below(p, q)  == IsStrictPrefix(p, q)
Clashes(p, q) == p = q \/ Below(p, q) \/ Below(q, p)

\* Mutant: only an equal path or one inside the new one is a conflict.
PathConflictsDownwards(paths, p) == \E q \in paths : q = p \/ Below(p, q)
path_conflicts(paths, p) == \E q \in paths : Clashes(p, q)

valid_relative_memory_path(p) == p # Root /\ \A i \in DOMAIN p : p[i] \notin Hidden
writable_memory_path(p) ==
  CASE p = Root  -> "read_only_path"
    [] p = Index -> "read_only_path"
    [] ~valid_relative_memory_path(p) -> "invalid_path"
    [] OTHER     -> "ok"

\* A file if there is one at the path, otherwise everything below it.
Selected(paths, p) == IF p \in paths THEN {p} ELSE {q \in paths : Below(p, q)}

\* strip_prefix and format!: the path of q once p has become r.
Moved(q, p, r) == r \o SubSeq(q, Len(p) + 1, Len(q))

\* snapshot: the paths are sorted as text and each is compared with the next.
InByteOrder(paths) == SelectSeq(PathOrder, LAMBDA p : p \in paths)
CollidingSnapshot(paths) ==
  LET sorted == InByteOrder(paths)
  IN  Index \in paths \/ \E i \in 1..Len(sorted) - 1 : Below(sorted[i], sorted[i + 1])

(***************************************************************************)
(* Bodies.                                                                 *)
(***************************************************************************)
Empty == <<Blank>>

ensure_topic_body(b) ==
  CASE b = Empty        -> "empty_content"
    [] Len(b) > MaxBody -> "content_too_large"
    [] OTHER            -> "ok"

\* insert_line counts the lines kept in front of the new one.
insert_after_line(b, at, line) ==
  IF at \notin 0..Len(b) THEN [code |-> "invalid_line", body |-> b]
  ELSE [code |-> "ok", body |-> InsertAt(b, at + 1, line)]

Matches(b, old) == {i \in DOMAIN b : b[i] = old}

replace_once(b, old, new) ==
  CASE old = Blank                      -> [code |-> "invalid_request", body |-> b]
    [] Matches(b, old) = {}             -> [code |-> "text_not_found", body |-> b]
    [] Cardinality(Matches(b, old)) > 1 -> [code |-> "ambiguous_match", body |-> b]
    [] OTHER -> [code |-> "ok", body |-> [i \in DOMAIN b |-> IF b[i] = old THEN new ELSE b[i]]]

Numbered(b, from, to) == [n \in 1..to - from + 1 |-> <<from + n - 1, b[from + n - 1]>>]

\* The range is <<>> when the caller gave none; -1 is the last line.
numbered_view(b, range) ==
  LET shown == IF range = <<>> THEN SubSeq(b, 1, Least(MaxView, Len(b))) ELSE b
      start == IF range = <<>> THEN 1 ELSE range[1]
      last  == IF range = <<>> \/ range[2] = -1 THEN Len(shown) ELSE range[2]
  IN  IF ~(start >= 1 /\ (range = <<>> \/ range[2] = -1 \/ range[2] >= start)) \/ start > Len(shown)
      THEN [code |-> "invalid_range", lines |-> <<>>]
      ELSE [code |-> "ok", lines |-> Numbered(shown, start, Least(last, Len(shown)))]

\* Two lines around the one that changed.
replacement_response(b, changed) ==
  Numbered(b, IF changed > 3 THEN changed - 2 ELSE 1, Least(changed + 2, Len(b)))

(***************************************************************************)
(* Listings.                                                               *)
(***************************************************************************)
\* memory_index: entries in path order while a line is left, and a notice
\* of two lines for the others if it still fits.
memory_index(paths) ==
  LET included == Least(Cardinality(paths), MaxIndex - Header)
      omitted  == Cardinality(paths) - included
      notice   == omitted > 0 /\ Header + included + 2 <= MaxIndex
  IN  [entries |-> included, omitted |-> omitted, notice |-> notice,
       lines |-> Header + included + IF notice THEN 2 ELSE 0]

\* The entries of a directory, two levels deep: files, and directories marked
\* with a last component "/".
Levels(p, q) ==
  LET rest == SubSeq(q, Len(p) + 1, Len(q))
      dir(n) == p \o SubSeq(rest, 1, n) \o <<"/">>
  IN  CASE Len(rest) = 1 -> {q}
        [] Len(rest) = 2 -> {dir(1), q}
        [] OTHER         -> {dir(1), dir(2)}

IsDirectory(paths, p) == p = Root \/ \E q \in paths : Below(p, q)
DirectoryEntries(paths, p) == UNION {Levels(p, q) : q \in {r \in paths : Below(p, r)}}

\* In order up to the bound, then one line that says there are more.
Listing(paths, p) ==
  LET E == SetToSeq(DirectoryEntries(paths, p))
  IN  IF Len(E) <= MaxListing THEN E
      ELSE Append(SubSeq(E, 1, MaxListing), "additional topic files omitted")

view(files, p, range) ==
  CASE IsDirectory(DOMAIN files, p) ->
         [code |-> IF range = <<>> THEN "ok" ELSE "invalid_request", lines |-> Listing(DOMAIN files, p)]
    [] p = Index -> numbered_view([i \in 1..memory_index(DOMAIN files).lines |-> Blank], range)
    [] p \notin DOMAIN files -> [code |-> "not_found", lines |-> <<>>]
    [] ensure_topic_body(files[p]) # "ok" -> [code |-> ensure_topic_body(files[p]), lines |-> <<>>]
    [] OTHER -> numbered_view(files[p], range)

(***************************************************************************)
(* A page of the resource list.  A cursor is <<>> or <<fingerprint,        *)
(* offset>>; the fingerprint of a projection stands for its items.         *)
(***************************************************************************)
resource_page(items, fingerprint, cursor, limit) ==
  LET start == IF cursor = <<>> THEN 0 ELSE cursor[2]
      last  == Least(start + limit, Len(items))
  IN  CASE cursor # <<>> /\ cursor[1] # fingerprint -> [code |-> "stale_cursor", page |-> <<>>, next |-> <<>>]
        [] start > Len(items)                       -> [code |-> "invalid_cursor", page |-> <<>>, next |-> <<>>]
        [] OTHER -> [code |-> "ok", page |-> SubSeq(items, start + 1, last),
                     next |-> IF last < Len(items) THEN <<fingerprint, last>> ELSE <<>>]
=============================================================================
