----------------------------- MODULE MCMemoryTool -----------------------------
(* A small tree with a directory, a file inside it, and a file whose name     *)
(* sorts between the two; the operators of MemoryText checked over all small  *)
(* bodies, ranges and sets of paths.                                          *)
EXTENDS MemoryTool

a   == <<"a">>
ac  == <<"a", "c">>
amd == <<"a.md">>
b   == <<"b">>
bc  == <<"b", "c">>

MCPaths == {a, ac, amd, b, bc}
MCOrder == <<a, amd, ac, b, bc>>
MCSeeds == <<Semantic(ac, <<"x">>, 0)>>
MCBodies == {<<"x">>}

Cmd(v, p, q, at, old, t) == [verb |-> v, path |-> p, to |-> q, at |-> at, old |-> old, text |-> t]

MCKeys == {ac, bc}

MCCommands ==
  {Cmd("create", b, Root, 0, Blank, "x"), Cmd("create", bc, Root, 0, Blank, "x"),
   Cmd("str_replace", ac, Root, 0, "x", "y"),
   Cmd("insert", b, Root, 1, Blank, "y"),
   Cmd("delete", b, Root, 0, Blank, "x"), Cmd("rename", a, b, 0, Blank, "x")}

Texts == UNION {[1..n -> {"x", "y", Blank}] : n \in 1..4}
Trees == SUBSET (MCPaths \cup {<<"b", "c", "d">>})
Ranges == {<<>>} \cup ((-1..6) \X (-1..6))

(* A view shows a window of consecutive lines under their own numbers.        *)
ASSUME ViewIsAWindow ==
  \A t \in Texts, r \in Ranges : LET v == numbered_view(t, r) IN
    /\ v.code = "ok" => /\ v.lines # <<>>
                        /\ \A i \in DOMAIN v.lines : v.lines[i] = <<v.lines[1][1] + i - 1, t[v.lines[i][1]]>>
    /\ v.code = "ok" /\ r # <<>> => v.lines[1][1] = r[1]

(* The snippet after a replacement contains the line that changed.            *)
ASSUME SnippetShowsTheChange ==
  \A t \in Texts : \A n \in DOMAIN t :
    LET s == replacement_response(t, n) IN \E i \in DOMAIN s : s[i] = <<n, t[n]>>

(* Taking the inserted line out again gives the body back.                    *)
ASSUME InsertAddsOneLine ==
  \A t \in Texts, n \in -1..5 : LET e == insert_after_line(t, n, "z") IN
    e.code = "ok" => RemoveAt(e.body, n + 1) = t /\ e.body[n + 1] = "z"

(* The index stays within its bound and accounts for every topic.             *)
ASSUME IndexAccountsForAll ==
  \A T \in Trees : LET m == memory_index(T) IN
    m.lines <= MaxIndex /\ m.entries + m.omitted = Cardinality(T)

(* A listing stands for every topic below the directory, and for nothing else. *)
ASSUME ListingIsComplete ==
  \A T \in Trees, p \in MCPaths \cup {Root} :
    LET E == DirectoryEntries(T, p)
        Dir(e) == IF Last(e) = "/" THEN Front(e) ELSE e
    IN  /\ \A q \in T : Below(p, q) => \E e \in E : Dir(e) = q \/ Below(Dir(e), q)
        /\ \A e \in E : \E q \in T : Dir(e) = q \/ Below(Dir(e), q)

(* Comparing neighbours in byte order misses a collision only when another    *)
(* topic sorts between the file and the file inside it.                       *)
ASSUME NeighboursMissOnlyInterleaved ==
  \A T \in SUBSET MCPaths :
    ~CollidingSnapshot(T) => \A p, q \in T : Below(p, q) => \E s \in T : s \notin {p, q} /\ ~Below(p, s)
=============================================================================
