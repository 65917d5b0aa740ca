---------------------------- MODULE RecallSession ----------------------------
(***************************************************************************)
(* Recall beside the writers of one scope.  A recall is a chain of read    *)
(* transactions without a common snapshot: the deep workspace, the         *)
(* candidates, the vector neighbours, the citation check (units, then      *)
(* citations, then sources), the trace, and for an empty answer the        *)
(* pending jobs and the raw episodes.  Compilations, corrections, forgets  *)
(* and the erasure of the subject commit in between.  Writers are cut at   *)
(* the statements whose order matters: what they read, the row locks they  *)
(* wait for (for update against the key-share locks of foreign keys), and  *)
(* their commit.  Each compiled unit has a fact key of its own; superseded *)
(* generations are SubjectKey's subject.                                   *)
(***************************************************************************)
EXTENDS Integers, Sequences, FiniteSets

CONSTANTS Episodes,   \* sources the client retains
          Matching,   \* those whose body shares a word with the query
          NoEpisode,  \* the source of a correction
          Readers,    \* recall calls
          MaxItems,   \* items an answer may have
          LastTime,   \* bound on the clock
          MaxRows     \* bound on the units

ASSUME RecallBounds ==
  /\ Matching \subseteq Episodes /\ NoEpisode \notin Episodes
  /\ MaxItems \in Nat \ {0} /\ LastTime \in Nat \ {0} /\ MaxRows \in Nat

VARIABLES now,        \* the clock
          subject,    \* whether the subject's row exists
          episodes,   \* episode -> absent, live or forgotten
          jobs,       \* episode -> the state of its reflect job
          rows,       \* memory_unit with its citations; the id is the index
          compiles,   \* episode -> the compile under way
          fix,        \* the correction under way
          forget,     \* the forget under way
          reads,      \* reader -> its recall
          traces,     \* reader -> what retrieval_trace stores of its answer
          raced       \* history: units committed after the forget of their source

store == <<subject, episodes, jobs, rows>>
writers == <<compiles, fix, forget, raced>>
vars == <<now, store, writers, reads, traces>>

Inf == LastTime + 1
Times == 1..LastTime
Rows == 1..MaxRows

Row == [src : Episodes \cup {NoEpisode}, cites : SUBSET Episodes, prev : 0..MaxRows,
        state : {"active", "superseded", "deleted"},
        tfrom : Times, tto : 1..Inf, from : 0..LastTime, to : 1..Inf]

Idle == [at |-> "idle", stamp |-> 1, blocked |-> FALSE]
NoFix == [on |-> FALSE, unit |-> 1, stamp |-> 1]
NoForget == [on |-> FALSE, kind |-> "unit", target |-> 1, units |-> {}]

NoRead == [pc |-> "idle", deep |-> FALSE, pinned |-> FALSE, asof |-> 1, valid |-> 1,
           supported |-> FALSE, pool |-> {}, items |-> {}, cited |-> {}, raw |-> {},
           closed |-> {}, gone |-> {}, owed |-> {}]

TypeOK ==
  /\ now \in Times /\ subject \in BOOLEAN
  /\ episodes \in [Episodes -> {"absent", "live", "forgotten"}]
  /\ jobs \in [Episodes -> {"none", "queued", "running", "done", "dead"}]
  /\ Len(rows) <= MaxRows /\ \A i \in DOMAIN rows : rows[i] \in Row
  /\ compiles \in [Episodes -> [at : {"idle", "fetched", "open"}, stamp : Times, blocked : BOOLEAN]]
  /\ fix \in [on : BOOLEAN, unit : Rows, stamp : Times]
  /\ \A r \in Readers : reads[r].items \subseteq DOMAIN rows /\ Cardinality(reads[r].items) <= MaxItems
  /\ raced \subseteq DOMAIN rows

Init ==
  /\ now = 1
  /\ subject = TRUE
  /\ episodes = [e \in Episodes |-> "absent"]
  /\ jobs = [e \in Episodes |-> "none"]
  /\ rows = <<>>
  /\ compiles = [e \in Episodes |-> Idle]
  /\ fix = NoFix
  /\ forget = NoForget
  /\ reads = [r \in Readers |-> NoRead]
  /\ traces = [r \in Readers |-> {}]
  /\ raced = {}

Live(i) == rows[i].state # "deleted"
Open(i) == rows[i].tto = Inf

\* Mutant of Recallable: the end of a transaction time still counts.
RecallableAtEnd(i, q) ==
  /\ Live(i)
  /\ rows[i].tfrom <= q.asof /\ q.asof <= rows[i].tto
  /\ rows[i].from <= q.valid /\ q.valid < rows[i].to

\* bitemporally_recallable
Recallable(i, q) ==
  /\ Live(i)
  /\ rows[i].tfrom <= q.asof /\ q.asof < rows[i].tto
  /\ rows[i].from <= q.valid /\ q.valid < rows[i].to

-----------------------------------------------------------------------------
(***************************************************************************)
(* The clock and the writers.                                              *)
(***************************************************************************)
Tick ==
  /\ now < LastTime
  /\ now' = now + 1
  /\ UNCHANGED <<store, writers, reads, traces>>

Retain(e) ==
  /\ subject /\ episodes[e] = "absent"
  /\ episodes' = [episodes EXCEPT ![e] = "live"]
  /\ jobs' = [jobs EXCEPT ![e] = "queued"]
  /\ UNCHANGED <<now, subject, rows, writers, reads, traces>>

\* A worker claims the job and reads the episode; one that is gone leaves
\* nothing to do.
Fetch(e) ==
  /\ jobs[e] = "queued"
  /\ IF episodes[e] = "live"
     THEN /\ jobs' = [jobs EXCEPT ![e] = "running"]
          /\ compiles' = [compiles EXCEPT ![e].at = "fetched"]
     ELSE jobs' = [jobs EXCEPT ![e] = "done"] /\ UNCHANGED compiles
  /\ UNCHANGED <<now, subject, episodes, rows, fix, forget, raced, reads, traces>>

\* The compile fails before its transaction: the job waits or is given up.
Fail(e) ==
  /\ compiles[e].at = "fetched"
  /\ \E s \in {"queued", "dead"} : jobs' = [jobs EXCEPT ![e] = s]
  /\ compiles' = [compiles EXCEPT ![e] = Idle]
  /\ UNCHANGED <<now, subject, episodes, rows, fix, forget, raced, reads, traces>>

\* The compile transaction begins and reads forgotten_source.
ReadTombstones(e) ==
  /\ compiles[e].at = "fetched"
  /\ compiles' = [compiles EXCEPT ![e] =
       [at |-> "open", stamp |-> now, blocked |-> episodes[e] = "forgotten"]]
  /\ UNCHANGED <<now, store, fix, forget, raced, reads, traces>>

\* What a forget under way has locked for update.
LockedEpisodes == IF forget.on /\ forget.kind = "episode" THEN {forget.target} ELSE {}

CompiledRow(e) ==
  [src |-> e, cites |-> {e}, prev |-> 0, state |-> "active",
   tfrom |-> compiles[e].stamp, tto |-> Inf, from |-> 0, to |-> Inf]

\* It inserts unit, citation and embedding and sets the job done in one
\* transaction; the foreign key to the episode waits for a forget of it.
CompileCommits(e, derived) ==
  /\ compiles[e].at = "open"
  /\ e \notin LockedEpisodes
  /\ Len(rows) < MaxRows
  /\ LET unit == derived /\ ~compiles[e].blocked
     IN  /\ rows' = IF unit THEN Append(rows, CompiledRow(e)) ELSE rows
         /\ raced' = IF unit /\ episodes[e] = "forgotten"
                     THEN raced \cup {Len(rows) + 1} ELSE raced
  /\ jobs' = [jobs EXCEPT ![e] = "done"]
  /\ compiles' = [compiles EXCEPT ![e] = Idle]
  /\ UNCHANGED <<now, subject, episodes, fix, forget, reads, traces>>

\* stage_correction locks the open row it corrects.
Correct(i) ==
  /\ ~fix.on
  /\ Live(i) /\ Open(i)
  /\ fix' = [on |-> TRUE, unit |-> i, stamp |-> now]
  /\ UNCHANGED <<now, store, compiles, forget, raced, reads, traces>>

\* Mutant of CitationLocks: copied citations have no foreign key.
NoLocks(i) == {}

\* The copies of the citations of row i lock the episodes they name.
CitationLocks(i) == rows[i].cites

\* It closes the row and inserts what was true before and the replacement,
\* each with a supersedes edge and the citations of the old row.
CorrectCommits ==
  LET i == fix.unit
      rest == [rows[i] EXCEPT !.to = fix.stamp, !.tfrom = fix.stamp, !.prev = i]
      new == [rows[i] EXCEPT !.src = NoEpisode, !.from = fix.stamp, !.tfrom = fix.stamp, !.prev = i]
      split == rows[i].from < fix.stamp
  IN  /\ fix.on
      /\ CitationLocks(i) \cap LockedEpisodes = {}
      /\ Len(rows) + (IF split THEN 2 ELSE 1) <= MaxRows
      /\ rows' = [rows EXCEPT ![i].state = "superseded", ![i].tto = fix.stamp]
                   \o <<new>> \o (IF split THEN <<rest>> ELSE <<>>)
      /\ fix' = NoFix
      /\ UNCHANGED <<now, subject, episodes, jobs, compiles, forget, raced, reads, traces>>

\* Along supersedes edges: the rows made from those of S, and those S was made from.
Made(S) == {i \in DOMAIN rows : rows[i].prev \in S}
From(S) == {rows[i].prev : i \in S} \ {0}

\* What the two recursive queries return: the least set that has S and their step.
Derived(S) ==
  {i \in DOMAIN rows : \A T \in SUBSET DOMAIN rows : S \cup Made(T) \subseteq T => i \in T}
Lineage(S) ==
  {i \in DOMAIN rows : \A T \in SUBSET DOMAIN rows :
                         S \cup Made(T) \cup From(T) \subseteq T => i \in T}

OfEpisode(e) == {i \in DOMAIN rows : rows[i].src = e}

\* stage_forget locks its target; the statement that marks the units sees
\* the rows of this moment.
ForgetEpisode(e) ==
  /\ ~forget.on
  /\ episodes[e] = "live"
  /\ forget' = [on |-> TRUE, kind |-> "episode", target |-> e,
                units |-> Derived(OfEpisode(e))]
  /\ UNCHANGED <<now, store, compiles, fix, raced, reads, traces>>

ForgetUnit(i) ==
  /\ ~forget.on
  /\ Live(i) /\ ~(fix.on /\ fix.unit = i)
  /\ forget' = [on |-> TRUE, kind |-> "unit", target |-> i, units |-> Lineage({i})]
  /\ UNCHANGED <<now, store, compiles, fix, raced, reads, traces>>

\* It waits for the rows a correction holds, then erases bodies, citations
\* and embeddings, blanks the episode and commits with the tombstone.
ForgetCommits ==
  /\ forget.on
  /\ ~(fix.on /\ fix.unit \in forget.units)
  /\ rows' = [i \in DOMAIN rows |->
       IF i \in forget.units /\ Live(i)
       THEN [rows[i] EXCEPT !.state = "deleted", !.tto = now, !.cites = {}]
       ELSE rows[i]]
  /\ episodes' = IF forget.kind = "episode"
                 THEN [episodes EXCEPT ![forget.target] = "forgotten"] ELSE episodes
  /\ forget' = NoForget
  /\ UNCHANGED <<now, subject, jobs, compiles, fix, raced, reads, traces>>

\* The two wait for each other; the database ends one of them.
Deadlock ==
  /\ fix.on /\ forget.on
  /\ fix.unit \in forget.units /\ CitationLocks(fix.unit) \cap LockedEpisodes # {}
  /\ \/ fix' = NoFix /\ UNCHANGED forget
     \/ forget' = NoForget /\ UNCHANGED fix
  /\ UNCHANGED <<now, store, compiles, raced, reads, traces>>

\* The erasure of the subject waits for every transaction that holds a row of
\* it, and cascades to all of them and to the traces.
Erase ==
  /\ subject
  /\ ~fix.on /\ ~forget.on /\ \A e \in Episodes : compiles[e].at # "open"
  /\ subject' = FALSE
  /\ rows' = [i \in DOMAIN rows |-> [rows[i] EXCEPT !.state = "deleted", !.cites = {}]]
  /\ episodes' = [e \in Episodes |-> IF episodes[e] = "absent" THEN "absent" ELSE "forgotten"]
  /\ jobs' = [e \in Episodes |-> "none"]
  /\ compiles' = [e \in Episodes |-> Idle]
  /\ traces' = [r \in Readers |-> {}]
  /\ UNCHANGED <<now, fix, forget, raced, reads>>

-----------------------------------------------------------------------------
(***************************************************************************)
(* The reader.                                                             *)
(***************************************************************************)
Stays == UNCHANGED <<now, store, writers>>
\* What the reader does next; with its answer or error it forgets its state.
Goes(r, new) ==
  reads' = [reads EXCEPT ![r] =
    IF new.pc \in {"done", "failed"} THEN [NoRead EXCEPT !.pc = new.pc] ELSE new]

\* Mutant of Pending: only what waits counts.
QueuedOnly == {e \in Episodes : jobs[e] = "queued"}

\* pending_job_count
Pending == {e \in Episodes : jobs[e] \in {"queued", "running"}}

\* History: what the client has stored and recall owes it.
Outstanding(e) == jobs[e] \in {"queued", "running"} /\ episodes[e] = "live"

\* recall fixes its times once (questions about the future are left out).
Begin(r, deep, asof, valid) ==
  /\ subject /\ reads[r].pc = "idle"
  /\ valid <= asof /\ asof <= now
  /\ Goes(r, [NoRead EXCEPT
       !.pc = IF deep THEN "snapshot" ELSE "candidates", !.deep = deep,
       !.pinned = asof # now \/ valid # now, !.asof = asof, !.valid = valid,
       !.closed = {i \in DOMAIN rows : ~Open(i)},
       !.gone = {i \in DOMAIN rows : ~Live(i)},
       !.owed = {e \in Matching : Outstanding(e)}])
  /\ UNCHANGED traces /\ Stays

\* fetch_deep_snapshot: the sources of directly cited units.
SnapshotUnits(q) ==
  {i \in DOMAIN rows : Recallable(i, q) /\ rows[i].src # NoEpisode
                       /\ episodes[rows[i].src] = "live"}

\* validate_deep_provider_result: sources of the workspace, and at least one
\* when the verdict says that the evidence is there.
ValidResult(entries, S, verdict) == S \subseteq entries /\ (verdict => S # {})

\* The provider works on a copy for as long as its limits allow; what it
\* returns is a choice of the sources, a verdict, or an error.
Gather(r) ==
  /\ reads[r].pc = "snapshot"
  /\ LET entries == {rows[i].src : i \in SnapshotUnits(reads[r])}
     IN  \/ \E S \in SUBSET entries : \E verdict \in BOOLEAN :
              /\ ValidResult(entries, S, verdict)
              /\ Goes(r, [reads[r] EXCEPT !.pc = "candidates", !.supported = verdict,
                            !.pool = {i \in SnapshotUnits(reads[r]) : rows[i].src \in S}])
         \/ Goes(r, [reads[r] EXCEPT !.pc = "failed"])
  /\ UNCHANGED traces /\ Stays

FetchCandidates(r) ==
  /\ reads[r].pc = "candidates"
  /\ Goes(r, [reads[r] EXCEPT !.pc = "vector",
       !.pool = @ \cup {i \in DOMAIN rows : Recallable(i, reads[r])}])
  /\ UNCHANGED traces /\ Stays

\* fetch_vector_candidates reads again; without an embedder it is skipped.
VectorUnits(q, embedder) == {i \in DOMAIN rows : embedder /\ Recallable(i, q)}

\* Fusion and packing: rank, budget and the abstention rules choose among
\* what was read.
PackItems(r) ==
  /\ reads[r].pc = "vector"
  /\ \E embedder \in BOOLEAN :
       \E S \in SUBSET (reads[r].pool \cup VectorUnits(reads[r], embedder)) :
         /\ Cardinality(S) <= MaxItems
         /\ Goes(r, [reads[r] EXCEPT !.pc = "units", !.pool = {}, !.items = S])
  /\ UNCHANGED traces /\ Stays

Direct(S) == {i \in S : rows[i].src # NoEpisode}

\* fetch_record_material, first its units: every directly cited item must
\* still be recallable.
CheckUnits(r) ==
  /\ reads[r].pc = "units"
  /\ Goes(r, [reads[r] EXCEPT
       !.pc = IF \A i \in Direct(reads[r].items) : Recallable(i, reads[r])
              THEN "citations" ELSE "failed",
       !.gone = @ \cup {i \in DOMAIN rows : ~Live(i)}])
  /\ UNCHANGED traces /\ Stays

\* Then the citations; an item without one is returned unverified.
CheckCitations(r) ==
  /\ reads[r].pc = "citations"
  /\ Goes(r, [reads[r] EXCEPT !.pc = "sources",
       !.cited = {i \in Direct(reads[r].items) : rows[i].src \in rows[i].cites}])
  /\ UNCHANGED traces /\ Stays

\* The quotes are checked against the episodes; a deep verdict needs one.
CheckSources(r) ==
  /\ reads[r].pc = "sources"
  /\ LET ok == /\ \A i \in reads[r].cited : episodes[rows[i].src] = "live"
               /\ reads[r].supported => reads[r].cited # {}
     IN  Goes(r, [reads[r] EXCEPT !.pc = IF ok THEN "trace" ELSE "failed"])
  /\ UNCHANGED traces /\ Stays

\* The foreign key of retrieval_trace.
Storable == subject

FallsBack(q) == q.items = {} /\ ~q.deep /\ ~q.pinned

StoreTrace(r) ==
  /\ reads[r].pc = "trace"
  /\ IF Storable
     THEN /\ traces' = [traces EXCEPT ![r] = {"recalled"}]
          /\ Goes(r, [reads[r] EXCEPT !.pc = IF FallsBack(reads[r]) THEN "pending" ELSE "done"])
     ELSE Goes(r, [reads[r] EXCEPT !.pc = "failed"]) /\ UNCHANGED traces
  /\ Stays

CountPending(r) ==
  /\ reads[r].pc = "pending"
  /\ Goes(r, [reads[r] EXCEPT !.pc = IF Pending = {} THEN "done" ELSE "episodes"])
  /\ UNCHANGED traces /\ Stays

\* fetch_episodes_for_scope
ScopeEpisodes == {e \in Episodes : episodes[e] = "live"}

\* degraded_episode_items: the best of those that match.
ReadEpisodes(r) ==
  /\ reads[r].pc = "episodes"
  /\ LET hits == ScopeEpisodes \cap Matching
     IN  IF hits = {} THEN Goes(r, [reads[r] EXCEPT !.pc = "done"])
         ELSE \E S \in SUBSET hits :
                /\ S # {} /\ Cardinality(S) <= MaxItems
                /\ (Cardinality(S) < MaxItems => S = hits)
                /\ Goes(r, [reads[r] EXCEPT !.pc = "degraded", !.raw = S])
  /\ UNCHANGED traces /\ Stays

\* The stored trace is read back ...
LoadTrace(r) ==
  /\ reads[r].pc = "degraded"
  /\ Goes(r, [reads[r] EXCEPT !.pc = IF traces[r] # {} THEN "retrace" ELSE "failed"])
  /\ UNCHANGED traces /\ Stays

\* ... and written again with the raw items.
StoreDegraded(r) ==
  /\ reads[r].pc = "retrace"
  /\ IF Storable
     THEN /\ traces' = [traces EXCEPT ![r] = {"recalled", "degraded"}]
          /\ Goes(r, [reads[r] EXCEPT !.pc = "done"])
     ELSE Goes(r, [reads[r] EXCEPT !.pc = "failed"]) /\ UNCHANGED traces
  /\ Stays

Write ==
  \/ Tick
  \/ \E e \in Episodes : Retain(e) \/ Fetch(e) \/ Fail(e) \/ ReadTombstones(e) \/ ForgetEpisode(e)
  \/ \E e \in Episodes : \E derived \in BOOLEAN : CompileCommits(e, derived)
  \/ \E i \in DOMAIN rows : Correct(i) \/ ForgetUnit(i)
  \/ CorrectCommits \/ ForgetCommits \/ Deadlock \/ Erase

Read(r) ==
  \/ \E deep \in BOOLEAN : \E asof, valid \in Times : Begin(r, deep, asof, valid)
  \/ Gather(r) \/ FetchCandidates(r) \/ PackItems(r)
  \/ CheckUnits(r) \/ CheckCitations(r) \/ CheckSources(r)
  \/ StoreTrace(r) \/ CountPending(r) \/ ReadEpisodes(r) \/ LoadTrace(r) \/ StoreDegraded(r)

Next == Write \/ \E r \in Readers : Read(r)
Spec == Init /\ [][Next]_vars

-----------------------------------------------------------------------------
(***************************************************************************)
(* Properties.                                                             *)
(***************************************************************************)
Carries(i, e) == rows[i].src = e \/ e \in rows[i].cites

\* Forgetting an episode removes every unit made from it, corrections under
\* way included (stage_forget and the foreign keys of citation); what survives
\* was inserted by a compile that had read forgotten_source before the forget
\* and committed after it, or was corrected from such a unit.  No trace of an
\* answer outlives the subject it is about, also when the recall ends after the
\* erasure (store_trace).
SurvivesOnlyByRace ==
  /\ \A i \in DOMAIN rows : \A e \in Episodes :
       Live(i) /\ Carries(i, e) /\ episodes[e] = "forgotten"
         => i \in Derived(raced)
  /\ subject \/ \A r \in Readers : traces[r] = {}

\* What does not hold, because of that race: the comment on the tombstones in
\* stage_compiled_units, "durably block re-derivation".
TombstonesBlock ==
  \A i \in DOMAIN rows : \A e \in Episodes :
    Live(i) /\ Carries(i, e) => episodes[e] # "forgotten"

Answered(r) == reads[r].pc # "done" /\ reads'[r].pc = "done"
Empty(r) == FallsBack(reads[r]) /\ reads[r].raw = {}

\* An answer holds nothing that had been forgotten or corrected before the
\* recall began, unless the client asks for the past, although it was put
\* together from many reads; and no directly cited item that was forgotten before the
\* citation check, in particular while the deep provider worked on its copy: such a
\* recall fails (build_recall_citations).
AnswerIsCurrent ==
  [][\A r \in Readers : Answered(r) =>
       /\ ~reads[r].pinned => reads[r].items \cap reads[r].closed = {}
       /\ Direct(reads[r].items) \cap reads[r].gone = {}]_vars

\* Read your own writes (recall_internal): an answer is empty only when every
\* matching episode that waited for its compile when the recall began has been
\* compiled, given up or forgotten by now.
OwedIsServed ==
  [][\A r \in Readers : Answered(r) /\ Empty(r)
       => \A e \in reads[r].owed : ~Outstanding(e)]_vars
=============================================================================
