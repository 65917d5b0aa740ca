----------------------------- MODULE SubjectKey ------------------------------
(***************************************************************************)
(* The rows of one fact key: rectangles in valid time (from, to) and       *)
(* transaction time (tfrom, tto), written by the compiler in two steps (a  *)
(* plan prepared on a snapshot, persisted later at read committed), by the *)
(* correction and invalidation calls and by forget.  Bounds are half open; *)
(* 0 and Inf stand for the open bounds.                                    *)
(***************************************************************************)
EXTENDS Integers, Sequences, FiniteSets, SequencesExt

CONSTANTS LastTime,   \* bound on the clock
          Bodies,     \* statements
          NoBody,     \* the body of a tombstone
          Writers,    \* compilations that may be under way
          MaxRows,    \* bound on the rows
          MaxCalls    \* bound on the calls and compilations

ASSUME BoundsAreNat == LastTime \in Nat \ {0} /\ MaxRows \in Nat /\ MaxCalls \in Nat

VARIABLES now,        \* the clock
          rows,       \* memory_unit, a sequence; the id of a row is its index
          plans,      \* writer -> the compilation it has prepared
          refusals,   \* history: compilations the database refused
          calls       \* history: how many calls and compilations began

vars == <<now, rows, plans, refusals, calls>>

Inf == LastTime + 1
Times == 1..LastTime
Instants == 0..LastTime

Row == [kind : {"semantic", "belief"}, body : Bodies \cup {NoBody},
        state : {"active", "candidate", "superseded", "invalidated", "deleted"},
        from : 0..LastTime, to : 1..Inf, tfrom : Times, tto : 1..Inf,
        prev : SUBSET (1..MaxRows), erased : BOOLEAN]

Open(r) == r.tto = Inf
Covers(r, x) == r.from <= x /\ x < r.to
Overlap(r, c) == r.from < c.to /\ c.from < r.to

\* A candidate of the compiler.  Its source is trusted, or at least another
\* one than that of the belief it repeats.
Candidate == [body : Bodies, from : 0..LastTime, to : 1..Inf,
              hint : {"assert", "invalidate"},
              source : {"trusted", "independent", "other"}]
Bounded(c) == c.from # 0 \/ c.to # Inf

Mint(kind, state, c, old) ==
  [kind |-> kind, body |-> c.body, state |-> state, from |-> c.from, to |-> c.to,
   tfrom |-> now, tto |-> Inf, prev |-> old, erased |-> FALSE]

-----------------------------------------------------------------------------
(***************************************************************************)
(* correction_rectangles: what is left of row i around a window.           *)
(***************************************************************************)
Remainder(i, from, to) ==
  [rows[i] EXCEPT !.state = "active", !.from = from, !.to = to, !.tfrom = now,
                  !.tto = Inf, !.prev = {i}]

\* Mutant of Remainders: what follows the window is lost.
RemaindersWithoutFuture(i, from, to) ==
  IF rows[i].from < from THEN <<Remainder(i, rows[i].from, from)>> ELSE <<>>

Remainders(i, from, to) ==
  (IF rows[i].from < from THEN <<Remainder(i, rows[i].from, from)>> ELSE <<>>)
    \o (IF to < rows[i].to THEN <<Remainder(i, to, rows[i].to)>> ELSE <<>>)

Later(a, b) == IF a < b THEN b ELSE a
Earlier(a, b) == IF a < b THEN a ELSE b

(***************************************************************************)
(* The compiler's choice.                                                  *)
(***************************************************************************)
Targets(c, r) ==
  IF Bounded(c) THEN Overlap(r, c) ELSE Covers(r, now)

CoversCandidate(c, r) ==
  IF Bounded(c) THEN r.from <= c.from /\ c.to <= r.to ELSE Covers(r, now)

Duplicates(c) == {i \in DOMAIN rows :
  /\ Open(rows[i]) /\ rows[i].state \in {"active", "candidate"}
  /\ rows[i].body = c.body /\ CoversCandidate(c, rows[i])}

First(S) == CHOOSE i \in S : \A j \in S : i <= j

\* Mutant of Incumbents: one row is closed, whatever the window overlaps.
IncumbentsFirstOnly(c) ==
  LET hit == {i \in DOMAIN rows :
                rows[i].kind = "semantic" /\ rows[i].state = "active" /\ Targets(c, rows[i])}
  IN  IF hit = {} THEN {} ELSE {First(hit)}

Incumbents(c) ==
  LET hit == {i \in DOMAIN rows :
                rows[i].kind = "semantic" /\ rows[i].state = "active" /\ Targets(c, rows[i])}
  IN  IF hit = {} \/ Bounded(c) THEN hit ELSE {First(hit)}

\* The window a candidate takes from row i.
WindowIn(c, i) ==
  IF Bounded(c) THEN [from |-> Later(rows[i].from, c.from), to |-> Earlier(rows[i].to, c.to)]
  ELSE [from |-> now, to |-> rows[i].to]

RemaindersOf(c, S) ==
  FlattenSeq([n \in DOMAIN SetToSortSeq(S, <) |->
    LET i == SetToSortSeq(S, <)[n]
    IN  Remainders(i, WindowIn(c, i).from, WindowIn(c, i).to)])

Nothing == [closes |-> {}, as |-> "superseded", adds |-> <<>>, rests |-> <<>>]

\* close_open_generation and the new unit.
Supersession(c) ==
  LET old == Incumbents(c)
      unit == Mint("semantic", "active", c, old)
  IN  [closes |-> old, as |-> "superseded", rests |-> RemaindersOf(c, old),
       adds |-> <<IF Bounded(c) \/ old = {} THEN unit
                  ELSE [unit EXCEPT !.from = now, !.to = rows[First(old)].to]>>]

Invalidation(c) ==
  [closes |-> Incumbents(c), as |-> IF Bounded(c) THEN "superseded" ELSE "invalidated",
   rests |-> IF Bounded(c) THEN RemaindersOf(c, Incumbents(c)) ELSE <<>>, adds |-> <<>>]

Promotes(c, r) == r.kind = "belief" /\ c.source # "other"

\* A duplicate merges, unless it is a belief that the candidate confirms.
Compiled(c) ==
  LET dup == Duplicates(c)
  IN  CASE dup # {} /\ Promotes(c, rows[First(dup)]) -> Supersession(c)
        [] dup # {} /\ ~Promotes(c, rows[First(dup)]) -> Nothing
        [] dup = {} /\ c.source # "trusted" ->
             [Nothing EXCEPT !.adds = <<Mint("belief", "candidate", c, {})>>]
        [] dup = {} /\ c.source = "trusted" /\ c.hint = "invalidate" -> Invalidation(c)
        [] OTHER -> Supersession(c)

\* An invalidation that matches nothing fails before it writes.
Admissible(c) ==
  c.hint = "invalidate" /\ c.source = "trusted" /\ Duplicates(c) = {} => Incumbents(c) # {}

-----------------------------------------------------------------------------
NoPlan == [on |-> FALSE, plan |-> Nothing, bounded |-> FALSE, seen |-> <<>>]

Init ==
  /\ now = 1
  /\ rows = <<>>
  /\ plans = [w \in Writers |-> NoPlan]
  /\ refusals = {}
  /\ calls = 0

Call == calls < MaxCalls /\ calls' = calls + 1

\* What the database keeps: the open semantic rows of a key are disjoint.
Exclusive(rs) ==
  \A i, j \in DOMAIN rs :
    i # j /\ {rs[i].kind, rs[j].kind} = {"semantic"} /\ Open(rs[i]) /\ Open(rs[j])
      => ~Overlap(rs[i], rs[j])

\* The compiler reads the rows and decides; embedding calls follow.
PrepareWrite(w, c) ==
  /\ Call
  /\ ~plans[w].on
  /\ Admissible(c)
  /\ plans' = [plans EXCEPT ![w] = [on |-> TRUE, plan |-> Compiled(c), bounded |-> Bounded(c),
                                    seen |-> rows]]
  /\ UNCHANGED <<now, rows, refusals>>

Closed(rs, S, st) ==
  [i \in DOMAIN rs |-> IF i \in S THEN [rs[i] EXCEPT !.state = st, !.tto = now] ELSE rs[i]]
Stamped(added) == [n \in DOMAIN added |-> [added[n] EXCEPT !.tfrom = now]]

Persisted(p) == Closed(rows, p.closes, p.as) \o Stamped(p.rests \o p.adds)

\* An open tombstone of the key blocks every new row of its kind.
Blocked(p) == \E n \in DOMAIN (p.rests \o p.adds) : \E i \in DOMAIN rows :
  /\ rows[i].state = "invalidated" /\ Open(rows[i])
  /\ rows[i].kind = (p.rests \o p.adds)[n].kind

\* The rows are closed by id alone, then the new ones are inserted.
PersistWrite(w) ==
  LET p == plans[w].plan
  IN  /\ plans[w].on
      /\ plans' = [plans EXCEPT ![w] = NoPlan]
      /\ Len(Persisted(p)) <= MaxRows
      /\ IF Blocked(p)
         THEN UNCHANGED <<rows, refusals>>
         ELSE IF Exclusive(Persisted(p))
         THEN rows' = Persisted(p) /\ UNCHANGED refusals
         ELSE UNCHANGED rows /\ refusals' = refusals \cup
                {[bounded |-> plans[w].bounded, raced |-> plans[w].seen # rows]}
      /\ UNCHANGED <<now, calls>>

(***************************************************************************)
(* The calls.  A correction without bounds speaks about the time from now  *)
(* on; its window may reach beyond the row.                                *)
(***************************************************************************)
\* Mutant of Corrected: the row itself is edited.
CorrectedInPlace(i, b, c) == [ok |-> TRUE, rs |-> [rows EXCEPT ![i].body = b]]

Corrected(i, b, c) ==
  LET from == IF Bounded(c) THEN IF c.from = 0 THEN rows[i].from ELSE c.from ELSE now
      to == IF c.to = Inf THEN rows[i].to ELSE c.to
      new == [Remainder(i, from, to) EXCEPT !.body = b]
  IN  [ok |-> from < to /\ Overlap(rows[i], new),
       rs |-> Closed(rows, {i}, "superseded") \o <<new>> \o Remainders(i, from, to)]

Correctable(i) == rows[i].state # "deleted" /\ Open(rows[i])

Correct(i, b, c) ==
  LET done == Corrected(i, b, c)
  IN  /\ Call
      /\ Correctable(i)
      /\ done.ok /\ Exclusive(done.rs)
      /\ Len(done.rs) <= MaxRows
      /\ rows' = done.rs
      /\ UNCHANGED <<now, plans, refusals>>

InvalidateMemory(i) ==
  /\ Call
  /\ Correctable(i) /\ Len(rows) < MaxRows
  /\ rows' = Append(Closed(rows, {i}, "superseded"),
                    [rows[i] EXCEPT !.state = "invalidated", !.body = NoBody, !.tfrom = now,
                                    !.prev = {i}])
  /\ UNCHANGED <<now, plans, refusals>>

Linked(i, j) == i \in rows[j].prev \/ j \in rows[i].prev

\* Bidirectional closure of the supersedes edges.
Lineage(i) ==
  LET grow[n \in 0..Len(rows)] ==
        IF n = 0 THEN {i}
        ELSE grow[n - 1] \cup {j \in DOMAIN rows : \E k \in grow[n - 1] : Linked(j, k)}
  IN  grow[Len(rows)]

Forget(i) ==
  /\ Call
  /\ ~rows[i].erased
  /\ rows' = [j \in DOMAIN rows |->
       IF j \in Lineage(i) /\ rows[j].state # "deleted"
       THEN [rows[j] EXCEPT !.state = "deleted", !.body = NoBody, !.tto = now, !.erased = TRUE]
       ELSE rows[j]]
  /\ UNCHANGED <<now, plans, refusals>>

Tick == now < LastTime /\ now' = now + 1 /\ UNCHANGED <<rows, plans, refusals, calls>>

\* The valid intervals a caller may state.
Bounds == {b \in [from : 0..LastTime, to : 1..Inf] : b.from < b.to}

Next ==
  \/ Tick
  \/ \E w \in Writers : PersistWrite(w) \/ \E c \in Candidate : c.from < c.to /\ PrepareWrite(w, c)
  \/ \E i \in DOMAIN rows : InvalidateMemory(i) \/ Forget(i)
  \/ \E i \in DOMAIN rows, b \in Bodies, c \in Bounds : Correct(i, b, c)

Spec == Init /\ [][Next]_vars

-----------------------------------------------------------------------------
(***************************************************************************)
(* What recall answers.                                                    *)
(***************************************************************************)
Visible(r, t, x) == ~r.erased /\ r.tfrom <= t /\ t < r.tto /\ Covers(r, x)
Served(r) == r.state = "active" \/ (r.state = "superseded" /\ ~Open(r))
Known(t, x) ==
  {rows[i].body : i \in {j \in DOMAIN rows :
     /\ rows[j].kind = "semantic" /\ rows[j].body # NoBody
     /\ Served(rows[j]) /\ Visible(rows[j], t, x)}}

\* The statement of an instant: that of the open active row which covers it.
Truth(rs) == [x \in Instants |->
  LET at == {i \in DOMAIN rs : /\ rs[i].kind = "semantic" /\ rs[i].state = "active"
                               /\ Open(rs[i]) /\ Covers(rs[i], x)}
  IN  IF at = {} THEN NoBody ELSE rs[First(at)].body]

(***************************************************************************)
(* What holds.                                                             *)
(***************************************************************************)

\* The shape of the rows and of the plans.
TypeOK ==
  /\ now \in Times
  /\ rows \in Seq(Row) /\ Len(rows) <= MaxRows
  /\ \A w \in Writers : Range(plans[w].plan.adds \o plans[w].plan.rests) \subseteq Row

\* Every step is a step of the timeline: a write changes one window and takes
\* nothing else away, whatever rectangles it cuts (correction_rectangles).
Timeline == INSTANCE SubjectTimeline
  WITH truth <- Truth(rows), read <- [w \in Writers |-> Truth(plans[w].seen)]
ImplementsTimeline == Timeline!Spec

\* The exclusion constraint on memory_unit never fires on a statement that has
\* a bound, unless another write of the key came between its preparation and
\* its transaction: the compiler closes all that it overlaps, on a promotion too.
BoundedCollidesOnlyInRace == \A r \in refusals : r.raced \/ ~r.bounded

\* What recall answers for an earlier transaction time stays the same, except
\* for what is forgotten, for a compilation that another write has overtaken,
\* and for the rows that the compiler invalidates without a bound.
CorrectionKeepsHistory ==
  [][/\ \A w \in Writers : plans[w].on /\ ~plans'[w].on =>
           plans[w].seen = rows /\ plans[w].plan.as = "superseded"
     /\ \A i \in DOMAIN rows : rows'[i].erased = rows[i].erased
     => \A t \in 1..(now - 1), x \in Instants : Known(t, x)' = Known(t, x)]_vars

\* A reading for an earlier transaction time is reproducible: only forgetting
\* changes what was known then.
AuditReplay ==
  [][(\A i \in DOMAIN rows : rows'[i].erased = rows[i].erased) =>
       \A t \in 1..(now - 1), x \in Instants : Known(t, x)' = Known(t, x)]_vars

\* Forgetting a row erases its whole lineage: nothing that supersedes an erased
\* row, or remains of it, is left.
LineageErased ==
  \A j \in DOMAIN rows : \A i \in rows[j].prev : rows[i].erased => rows[j].erased

\* The exclusion constraint refuses a compilation only if another write of the
\* key came between its preparation and its transaction.
CollidesOnlyInRace == \A r \in refusals : r.raced
=============================================================================
