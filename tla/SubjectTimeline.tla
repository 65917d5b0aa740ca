--------------------------- MODULE SubjectTimeline ---------------------------
(***************************************************************************)
(* What a fact key promises its readers: for every instant of the          *)
(* represented world at most one statement.  A write sets its window; what *)
(* lies outside it keeps its statement, unless something was withdrawn     *)
(* while the write was on its way: then the write may put back what its    *)
(* writer had read.                                                        *)
(***************************************************************************)
EXTENDS Integers

CONSTANTS Instants,   \* of the represented world
          Bodies,     \* statements
          NoBody,     \* no statement
          Writers

VARIABLES truth,      \* instant -> statement
          read        \* writer -> the timeline it has read

Statement == Bodies \cup {NoBody}

Blank == [x \in Instants |-> NoBody]

Init == truth = Blank /\ read = [w \in Writers |-> Blank]

Read(w) == read' = [read EXCEPT ![w] = truth] /\ UNCHANGED truth

\* The windows are intervals.
Window == {W \in SUBSET Instants :
             \A a, b \in W, x \in Instants : a < x /\ x < b => x \in W}

\* One statement for the window of a writer; outside of it an instant keeps
\* its statement, or gets back the one that the writer had read.
Write(w) ==
  /\ \E W \in Window, s \in Statement, back \in SUBSET Instants :
       truth' = [x \in Instants |->
                   IF x \in W THEN s ELSE IF x \in back THEN read[w][x] ELSE truth[x]]
  /\ read' = [read EXCEPT ![w] = Blank]

\* A statement is corrected in one window, or withdrawn wherever it stands.
Correct ==
  /\ \E W \in Window, s \in Statement :
       truth' = [x \in Instants |-> IF x \in W THEN s ELSE truth[x]]
  /\ UNCHANGED read

Withdraw ==
  /\ \E lost \in SUBSET Instants :
        truth' = [x \in Instants |-> IF x \in lost THEN NoBody ELSE truth[x]]
  /\ UNCHANGED read

Next == Correct \/ Withdraw \/ \E w \in Writers : Read(w) \/ Write(w)

Spec == Init /\ [][Next]_<<truth, read>>
=============================================================================
