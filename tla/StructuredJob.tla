---------------------------- MODULE StructuredJob ----------------------------
(***************************************************************************)
(* Reflect jobs of one source whose structured state is extracted by the   *)
(* paid provider: prepare_structured_state, the compile against the rows   *)
(* of the job's context, and the commit.  The jobs belong to different     *)
(* contexts and so have rows of their own, but their batches are the same  *)
(* requests: they meet in the files of the campaign.                       *)
(***************************************************************************)
EXTENDS PaidExtraction

CONSTANTS Jobs,
          Batches,     \* the extraction keys of the source, in batch order
          Deletes,     \* the keys whose observation deletes the item
          MaxAttempts, \* WORKER_MAX_ATTEMPTS
          MaxCrashes,
          NoJob

ASSUME JobAssumption ==
  Batches \in Seq(Keys) /\ Deletes \subseteq Keys /\ MaxAttempts \in Nat /\ NoJob \notin Jobs

VARIABLES job,     \* the job_state rows
          rows,    \* the active rows of the item, by job: the attempt they come from
          claim,   \* what the workers hold of the job they run
          edits,   \* the jobs in whose context another writer has replaced the row
          crashes

vars == <<provider, job, rows, claim, edits, crashes>>

Seed == -1
Edited == -2

Queued == [state |-> "queued", gen |-> 0, attempts |-> 0, prepared |-> <<>>]
Free == [at |-> "free", job |-> NoJob, gen |-> 0, packets |-> <<>>, targets |-> {}]

Init ==
  /\ ProviderInit
  /\ job = [j \in Jobs |-> Queued]
  /\ rows \in [Jobs -> {{}, {Seed}}]
  /\ claim = [p \in Workers |-> Free]
  /\ edits = {} /\ crashes = 0

-----------------------------------------------------------------------------
At_(p, at) == claim[p].at = at /\ At(p, "idle")
Mine(p) == claim[p].job
Owns(p) == job[Mine(p)].state = "running" /\ job[Mine(p)].gen = claim[p].gen

\* A queued job, or a running one whose lease has expired; the claim is fenced off
\* from the earlier ones by its generation.
Claim(p) ==
  /\ At_(p, "free")
  /\ \E j \in Jobs :
       /\ job[j].state \in {"queued", "running"} /\ job[j].attempts < MaxAttempts
       /\ job' = [job EXCEPT ![j].state = "running", ![j].gen = @ + 1, ![j].attempts = @ + 1]
       /\ claim' = [claim EXCEPT ![p] = [Free EXCEPT !.at = "fetch", !.job = j,
                                                     !.gen = job[j].gen + 1]]
  /\ UNCHANGED <<provider, rows, edits, crashes>>

\* A claim of anyone first gives up the jobs at their limit, the running ones included.
Bury(j) ==
  /\ job[j].state \in {"queued", "running"} /\ job[j].attempts = MaxAttempts
  /\ job' = [job EXCEPT ![j].state = "failed"]
  /\ UNCHANGED <<provider, rows, claim, edits, crashes>>

\* fetch_prepared_structured_state, by the fence of the claim.
FetchPrepared(p) ==
  /\ At_(p, "fetch")
  /\ claim' = [claim EXCEPT ![p] =
       IF Owns(p) /\ job[Mine(p)].prepared # <<>>
         THEN [@ EXCEPT !.at = "fold", !.packets = job[Mine(p)].prepared]
         ELSE [@ EXCEPT !.at = "extract"]]
  /\ UNCHANGED <<provider, job, rows, edits, crashes>>

\* The batches are extracted one after the other, each by a call of the provider.
Extract(p) ==
  /\ At_(p, "extract") /\ Len(claim[p].packets) < Len(Batches)
  /\ proc' = [proc EXCEPT ![p].pc = "lock", ![p].id = Nothing, ![p].answer = Nothing,
                          ![p].key = Batches[Len(claim[p].packets) + 1]]
  /\ UNCHANGED <<route, wave, disk, flock, posts, job, rows, claim, edits, crashes>>

Answered(p) ==
  /\ At(p, "answered")
  /\ claim' = [claim EXCEPT ![p].packets = Append(@, proc[p].answer)]
  /\ Goto(p, "idle")
  /\ UNCHANGED <<route, wave, disk, flock, posts, job, rows, edits, crashes>>

\* fail_reflect_job: is_terminal_provider_error holds of every error of the provider.
FailJob(p) == job' = IF Owns(p) THEN [job EXCEPT ![Mine(p)].state = "failed"] ELSE job

Refused(p) ==
  /\ At(p, "failed")
  /\ FailJob(p)
  /\ claim' = [claim EXCEPT ![p] = Free]
  /\ Goto(p, "idle")
  /\ UNCHANGED <<route, wave, disk, flock, posts, rows, edits, crashes>>

\* store_prepared_structured_state.
StorePrepared(p) ==
  /\ At_(p, "extract") /\ Len(claim[p].packets) = Len(Batches)
  /\ job' = IF Owns(p) /\ job[Mine(p)].prepared = <<>>
              THEN [job EXCEPT ![Mine(p)].prepared = claim[p].packets] ELSE job
  /\ claim' = [claim EXCEPT ![p].at = "fold"]
  /\ UNCHANGED <<provider, rows, edits, crashes>>

\* fold_structured_observations: the last observation of the item decides.
Said(packets) == {i \in DOMAIN packets : packets[i] # Nothing}
LastSaid(packets) == Max(Said(packets))
Deleting(packets) == Batches[LastSaid(packets)] \in Deletes

\* The rows of the context that an observation finds active are its targets.
Fold(p) ==
  /\ At_(p, "fold")
  /\ LET active == rows[Mine(p)]
         packets == claim[p].packets
     IN  IF Said(packets) # {} /\ Deleting(packets) /\ active = {}
           THEN FailJob(p) /\ claim' = [claim EXCEPT ![p] = Free]
           ELSE /\ claim' = [claim EXCEPT ![p].at = "compile", ![p].targets = active]
                /\ UNCHANGED job
  /\ UNCHANGED <<provider, rows, edits, crashes>>

\* The compile demands that every target is still active, and that the key has no
\* other active row.
TargetsMatch(targets, active) == targets = active

Compile(p) ==
  /\ At_(p, "compile")
  /\ IF Said(claim[p].packets) # {} /\ ~TargetsMatch(claim[p].targets, rows[Mine(p)])
       THEN FailJob(p) /\ claim' = [claim EXCEPT ![p] = Free]
       ELSE claim' = [claim EXCEPT ![p].at = "persist"] /\ UNCHANGED job
  /\ UNCHANGED <<provider, rows, edits, crashes>>

\* The transaction of the compile: fenced; the targets are closed by id; the exclusion
\* constraint admits one open row of the key, and otherwise the job is released with
\* what was prepared.
\* Mutant: every open row of the key is closed, not the targets alone.
LeavesNone(active, targets) == {}
Leaves(active, targets) == active \ targets

Release(p) == job' = [job EXCEPT ![Mine(p)].state = "queued"]

Persist(p) ==
  /\ At_(p, "persist")
  /\ LET j == Mine(p)
         packets == claim[p].packets
         left == Leaves(rows[j], claim[p].targets)
         adds == ~Deleting(packets)
         done == job' = [job EXCEPT ![j].state = "done"]
     IN  IF ~Owns(p) THEN UNCHANGED <<job, rows>>
         ELSE IF Said(packets) = {} THEN done /\ UNCHANGED rows
         ELSE IF adds /\ left # {} THEN Release(p) /\ UNCHANGED rows
         ELSE /\ done
              /\ rows' = [rows EXCEPT ![j] =
                            left \cup (IF adds THEN {packets[LastSaid(packets)]} ELSE {})]
  /\ claim' = [claim EXCEPT ![p] = Free]
  /\ UNCHANGED <<provider, edits, crashes>>

\* Another writer of the context replaces the active row, or makes the first one.
Edit(j) ==
  /\ j \notin edits /\ rows[j] \subseteq {Seed}
  /\ rows' = [rows EXCEPT ![j] = {Edited}]
  /\ edits' = edits \cup {j}
  /\ UNCHANGED <<provider, job, claim, crashes>>

WorkerCrash(p) ==
  /\ crashes < MaxCrashes /\ crashes' = crashes + 1
  /\ Crash(p)
  /\ claim' = [claim EXCEPT ![p] = Free]
  /\ UNCHANGED <<job, rows, edits>>

\* A worker is stopped between two jobs, for the next wave.
Stop(p) ==
  /\ wave < MaxWave /\ At_(p, "free")
  /\ proc' = [proc EXCEPT ![p] = Down]
  /\ UNCHANGED <<route, wave, disk, flock, posts, job, rows, claim, edits, crashes>>

Service == <<job, rows, claim, edits, crashes>>

Work(p) ==
  \/ Extraction(p) /\ UNCHANGED Service
  \/ Claim(p) \/ FetchPrepared(p) \/ Extract(p) \/ Answered(p) \/ Refused(p)
  \/ StorePrepared(p) \/ Fold(p) \/ Compile(p) \/ Persist(p)

Started(p) == Boot(p) /\ UNCHANGED Service
Wave == NextWave /\ UNCHANGED Service

Settled == \A j \in Jobs : job[j].state \in {"done", "failed"}
Idle == Settled /\ UNCHANGED vars

Next ==
  \/ \E p \in Workers : Work(p) \/ WorkerCrash(p) \/ Started(p) \/ Stop(p)
  \/ \E j \in Jobs : Edit(j) \/ Bury(j)
  \/ Wave
  \/ Idle

Spec == Init /\ [][Next]_vars

-----------------------------------------------------------------------------
\* The ledger of the campaign is the record of what happened, over all workers, crashes
\* and waves: it stays within the reservation, nothing is sent that is not in it, and a
\* row that a compile writes comes from an answer it records as decoded; neither a failed
\* attempt nor one whose outcome is unknown becomes memory.
LedgerIsTheRecord ==
  route.ledger =>
    /\ Reserved <= Cap
    /\ \A x \in posts : \E i \in DOMAIN disk.ledger :
         disk.ledger[i].event = "started" /\ disk.ledger[i].id = x.id
    /\ \A j \in Jobs : \A a \in rows[j] \ {Seed, Edited} : \E i \in DOMAIN disk.ledger :
         disk.ledger[i].id = a /\ disk.ledger[i].status = "decoded"

\* A compile closes the rows it was folded on and no others, so an edit that its model
\* never saw is not buried under it; and the item never has two active rows.
EditIsNotBuried ==
  [][\A j \in Jobs :
       /\ Cardinality(rows'[j]) <= 1
       /\ job'[j].state = "done" /\ job[j].state # "done" =>
            \E p \in Workers :
              /\ Mine(p) = j
              /\ rows[j] \ rows'[j] \subseteq claim[p].targets
              /\ rows'[j] \ rows[j] # {} => claim[p].targets = rows[j]]_vars

\* What does not hold: that a job that is done has an answer for every batch.  An attempt
\* that failed answers the later calls of its wave with no observations.
OmissionIsNotClean ==
  \A j \in Jobs : job[j].state = "done" => Said(job[j].prepared) = DOMAIN Batches

-----------------------------------------------------------------------------
(***************************************************************************)
(* plan_structured_state_batches_with: the slices of a source are cut into *)
(* batches, each found by a binary search for the longest one that fits.   *)
(* A batch is the number of its last slice; fits holds the pairs <<from,   *)
(* to>> for which the slices after from and up to to make an admissible    *)
(* request, exact the same for the final plan, which counts tokens.        *)
(***************************************************************************)
\* The longest end in lower..upper that fits, if the search meets one.
Longest(from, n, fits) ==
  LET search[lower \in 1..n + 1, upper \in 0..n, best \in 0..n] ==
        LET end == lower + (upper - lower) \div 2
        IN  IF lower > upper THEN best
            ELSE IF <<from, end>> \in fits THEN search[end + 1, upper, end]
            ELSE search[lower, end - 1, best]
  IN  search[from + 1, n, from]

\* The ends of the batches, in order; <<-1>> when the planning fails.
plan_batches(n, fits, exact) ==
  LET plan[cursor \in 0..n] ==
        LET best == Longest(cursor, n, fits)
        IN  IF cursor = n THEN <<>>
            ELSE IF best = cursor \/ <<cursor, best>> \notin exact \/ plan[best] = <<-1>> THEN <<-1>>
            ELSE <<best>> \o plan[best]
  IN  plan[0]
=============================================================================
