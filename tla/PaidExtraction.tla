---------------------------- MODULE PaidExtraction ----------------------------
(***************************************************************************)
(* extract_sync of the structured-state provider: what several workers     *)
(* leave on the disk of a campaign (the attempt ledger, the journal of     *)
(* dispatched requests, the cache of observations) so that an extraction   *)
(* is paid at most once, whichever of them crash.  An attempt is a number; *)
(* it also stands for the observations that were decoded from its answer.  *)
(***************************************************************************)
EXTENDS Integers, Sequences, FiniteSets, SequencesExt, FiniteSetsExt

CONSTANTS Workers,
          Keys,       \* extraction keys
          Routes,     \* configurations: ledger, journal, cache, cache_only
          MaxWave,    \* MAX_CAMPAIGN_ATTEMPTS
          Cap,        \* aggregate reservation, in attempts
          NoKey

ASSUME ExtractionAssumption ==
  /\ Routes \subseteq [ledger : BOOLEAN, journal : BOOLEAN, cache : BOOLEAN, only : BOOLEAN]
  /\ MaxWave \in Nat \ {0} /\ Cap \in Nat /\ NoKey \notin Keys \cup Workers

VARIABLES route,  \* the configuration of the campaign
          wave,   \* campaign_attempt
          disk,   \* ledger, journal, cache; torn: the last ledger line is cut
          flock,  \* key -> the worker that has locked its file, or NoKey
          proc,   \* the workers
          posts   \* history: the attempts that were sent, with key and wave

provider == <<route, wave, disk, flock, proc, posts>>

Nothing == 0
Replies == {"refused", "unnamed", "undecodable", "foreign", "good"}

Down == [pc |-> "off", key |-> NoKey, id |-> Nothing, reply |-> "good", resumed |-> FALSE,
         prefix |-> 0, cut |-> FALSE, answer |-> Nothing]

ProviderInit ==
  /\ route \in Routes /\ wave = 1
  /\ disk = [ledger |-> <<>>, torn |-> FALSE, journal |-> <<>>, cache |-> <<>>]
  /\ flock = [k \in Keys |-> NoKey]
  /\ proc = [p \in Workers |-> Down]
  /\ posts = {}

-----------------------------------------------------------------------------
(***************************************************************************)
(* The disk.                                                               *)
(***************************************************************************)
Put(f, x, v) == [y \in DOMAIN f \cup {x} |-> IF y = x THEN v ELSE f[y]]

Event(event, p, status) ==
  [event |-> event, key |-> proc[p].key, wave |-> wave, id |-> proc[p].id, status |-> status]

\* The places in the ledger of the events of the key and wave.
EventsOf(k) == {i \in DOMAIN disk.ledger : disk.ledger[i].key = k /\ disk.ledger[i].wave = wave}

AttemptOf(k) == disk.ledger[Min(EventsOf(k))].id

\* exact_attempt_state: a start, then at most its result.
exact_attempt_state(k) ==
  LET first == disk.ledger[Min(EventsOf(k))]
      last == disk.ledger[Max(EventsOf(k))]
  IN  IF disk.torn THEN "malformed"
      ELSE IF EventsOf(k) = {} THEN "absent"
      ELSE IF first.event = "started" /\ Cardinality(EventsOf(k)) = 1 THEN "started"
      ELSE IF /\ first.event = "started" /\ Cardinality(EventsOf(k)) = 2
              /\ last.event = "result" /\ last.id = first.id
        THEN IF last.status = "decoded" THEN "decoded" ELSE "spent"
      ELSE "forked"

\* append_json_line, under the lock of the file: refused if the ledger cannot be read,
\* or if a start would exceed the reservation.
Reserved == Cardinality({i \in DOMAIN disk.ledger : disk.ledger[i].event = "started"})

Appends(event) == ~disk.torn /\ (event = "started" => Reserved + 1 <= Cap)

\* Journal files are created, never replaced; a cut one has no attempt.
File(p, stage) == <<wave, proc[p].key, stage>>
Exists(p, stage) == File(p, stage) \in DOMAIN disk.journal
Readable(p, stage, id) == Exists(p, stage) /\ disk.journal[File(p, stage)].id = id

\* validate_source_ledger: both events of the entry are in the ledger as it was when
\* the worker was started.
SourceIsFrozen(p, entry) ==
  /\ ~proc[p].cut
  /\ \A event \in {"started", "result"} : \E i \in 1..proc[p].prefix :
       disk.ledger[i].event = event /\ disk.ledger[i].id = entry

-----------------------------------------------------------------------------
(***************************************************************************)
(* Steps of extract_sync.                                                  *)
(***************************************************************************)
At(p, pc) == proc[p].pc = pc
Goto(p, pc) == proc' = [proc EXCEPT ![p].pc = pc]

\* The call returns; the lock of the key goes with it.
Return(p, pc, answer) ==
  /\ proc' = [proc EXCEPT ![p].pc = pc, ![p].answer = answer, ![p].resumed = FALSE]
  /\ flock' = [k \in Keys |-> IF flock[k] = p THEN NoKey ELSE flock[k]]

Fails(p) == Return(p, "failed", Nothing)

\* Mutant: the lock of the key is not waited for.
LockAnyway(p) == TRUE
LockFree(p) == flock[proc[p].key] = NoKey

Lock(p) ==
  /\ At(p, "lock")
  /\ IF route.cache
       THEN LockFree(p) /\ flock' = [flock EXCEPT ![proc[p].key] = p]
       ELSE UNCHANGED flock
  /\ Goto(p, "load")
  /\ UNCHANGED <<route, wave, disk, posts>>

Load(p) ==
  /\ At(p, "load")
  /\ IF ~route.cache \/ proc[p].key \notin DOMAIN disk.cache
       THEN IF route.only THEN Fails(p) ELSE Goto(p, "resume") /\ UNCHANGED flock
       ELSE LET entry == disk.cache[proc[p].key]
            IN  IF SourceIsFrozen(p, entry) THEN Return(p, "answered", entry) ELSE Fails(p)
  /\ UNCHANGED <<route, wave, disk, posts>>

\* resume_exact_attempt: what the ledger and the journal say of this key and wave.
LostAnswer(p, id) == Fails(p)

ResumeStarted(p, id) ==
  LET reply == disk.journal[File(p, "response")].reply
      kept == [proc[p] EXCEPT !.id = id, !.reply = reply, !.resumed = TRUE]
  IN  IF ~route.journal \/ ~Readable(p, "response", id) THEN LostAnswer(p, id)
      ELSE IF reply = "unnamed" \/ (Exists(p, "generation") /\ ~Readable(p, "generation", id))
        THEN Fails(p)
      ELSE /\ proc' = [proc EXCEPT ![p] = [kept EXCEPT !.pc =
                         IF reply = "refused" THEN "refused"
                         ELSE IF Exists(p, "generation") THEN "decode" ELSE "reconcile"]]
           /\ UNCHANGED flock

ResumeDecoded(p, id) ==
  IF ~route.journal \/ ~Readable(p, "generation", id) THEN Fails(p)
  ELSE /\ proc' = [proc EXCEPT ![p].pc = "store", ![p].id = id,
                               ![p].reply = disk.journal[File(p, "generation")].reply]
       /\ UNCHANGED flock

\* An attempt that failed answers every later call of its wave with no observations.
\* Mutant: with what it had.
SpentIsAnswer(id) == id
SpentAnswer(id) == Nothing

Resume(p) ==
  /\ At(p, "resume")
  /\ LET state == IF route.ledger THEN exact_attempt_state(proc[p].key) ELSE "absent"
         id == AttemptOf(proc[p].key)
     IN  \/ state = "absent" /\ Goto(p, "start") /\ UNCHANGED flock
         \/ state = "spent" /\ Return(p, "answered", SpentAnswer(id))
         \/ state = "started" /\ ResumeStarted(p, id)
         \/ state = "decoded" /\ ResumeDecoded(p, id)
         \/ state \in {"malformed", "forked"} /\ Fails(p)
  /\ UNCHANGED <<route, wave, disk, posts>>

\* The event is appended, or the call fails.
Record(p, event, status, next) ==
  IF route.ledger /\ ~Appends(event) THEN Fails(p) /\ UNCHANGED disk
  ELSE /\ next
       /\ disk' = IF route.ledger
                    THEN [disk EXCEPT !.ledger = Append(@, Event(event, p, status))] ELSE disk

\* A fresh attempt: numbers in the order of the starts.
Fresh == 1 + Max({0} \cup {proc[p].id : p \in Workers}
                   \cup {disk.ledger[i].id : i \in DOMAIN disk.ledger} \cup {x.id : x \in posts})

Name(p) ==
  /\ At(p, "start") /\ proc[p].id = Nothing
  /\ proc' = [proc EXCEPT ![p].id = Fresh]
  /\ UNCHANGED <<route, wave, disk, flock, posts>>

Start(p) ==
  /\ At(p, "start") /\ proc[p].id # Nothing
  /\ Record(p, "started", "reserved", Goto(p, "post") /\ UNCHANGED flock)
  /\ UNCHANGED <<route, wave, posts>>

\* The request is sent.  It fails in the transport, or there is some reply.
Post(p) ==
  /\ At(p, "post")
  /\ posts' = posts \cup {[key |-> proc[p].key, wave |-> wave, id |-> proc[p].id]}
  /\ \/ Goto(p, "unsent")
     \/ \E reply \in Replies : proc' = [proc EXCEPT ![p].pc = "keep", ![p].reply = reply]
  /\ UNCHANGED <<route, wave, disk, flock>>

\* persist_dispatch_response.
Keep(p, stage, next) ==
  IF route.journal /\ Exists(p, stage) THEN Fails(p) /\ UNCHANGED disk
  ELSE /\ next
       /\ disk' = IF route.journal
                    THEN [disk EXCEPT !.journal = Put(@, File(p, stage),
                                        [id |-> proc[p].id, reply |-> proc[p].reply])]
                    ELSE disk

KeepResponse(p) ==
  /\ At(p, "keep")
  /\ Keep(p, "response",
          Goto(p, IF proc[p].reply = "refused" THEN "refused" ELSE "reconcile") /\ UNCHANGED flock)
  /\ UNCHANGED <<route, wave, posts>>

\* reconcile_generation: needs the id of the reply, and may fail.
Reconcile(p) ==
  /\ At(p, "reconcile")
  /\ \/ proc[p].reply # "unnamed" /\ Goto(p, "generation") /\ UNCHANGED flock
     \/ Fails(p)
  /\ UNCHANGED <<route, wave, disk, posts>>

KeepGeneration(p) ==
  /\ At(p, "generation")
  /\ Keep(p, "generation", Goto(p, "decode") /\ UNCHANGED flock)
  /\ UNCHANGED <<route, wave, posts>>

\* decode_response.  An answer that cannot be decoded is recorded, but not on resumption.
Decode(p) ==
  /\ At(p, "decode")
  /\ IF proc[p].reply # "undecodable" THEN Goto(p, "complete") /\ UNCHANGED flock
     ELSE IF proc[p].resumed THEN Fails(p)
     ELSE Goto(p, "undecodable") /\ UNCHANGED flock
  /\ UNCHANGED <<route, wave, disk, posts>>

RecordFailure(p) ==
  /\ \E f \in {<<"unsent", "transport_error">>, <<"refused", "http_error">>,
               <<"undecodable", "response_decode_error">>} :
       At(p, f[1]) /\ Record(p, "result", f[2], Fails(p))
  /\ UNCHANGED <<route, wave, posts>>

Complete(p) ==
  /\ At(p, "complete")
  /\ Record(p, "result", "decoded", Goto(p, "store") /\ UNCHANGED flock)
  /\ UNCHANGED <<route, wave, posts>>

\* CampaignCache::store: an answer of another route than the authorised one is refused,
\* and so is an entry that differs from the one that is there.
Store(p) ==
  /\ At(p, "store")
  /\ LET k == proc[p].key IN
     IF ~route.cache THEN Return(p, "answered", proc[p].id) /\ UNCHANGED disk
     ELSE IF proc[p].reply = "foreign"
               \/ (k \in DOMAIN disk.cache /\ disk.cache[k] # proc[p].id)
       THEN Fails(p) /\ UNCHANGED disk
     ELSE /\ Return(p, "answered", proc[p].id)
          /\ disk' = [disk EXCEPT !.cache = Put(@, k, proc[p].id)]
  /\ UNCHANGED <<route, wave, posts>>

Extraction(p) ==
  \/ Lock(p) \/ Load(p) \/ Resume(p) \/ Name(p) \/ Start(p) \/ Post(p) \/ KeepResponse(p)
  \/ Reconcile(p) \/ KeepGeneration(p) \/ Decode(p) \/ RecordFailure(p) \/ Complete(p) \/ Store(p)

-----------------------------------------------------------------------------
(***************************************************************************)
(* Crashes and waves.                                                      *)
(***************************************************************************)
\* What a crash in the middle of a write leaves.
Written(p) ==
  CASE proc[p].pc \in {"start", "unsent", "refused", "undecodable", "complete"} /\ route.ledger
         -> {disk, [disk EXCEPT !.torn = TRUE]}
    [] proc[p].pc = "keep" /\ route.journal /\ ~Exists(p, "response")
         -> {disk, [disk EXCEPT !.journal = Put(@, File(p, "response"),
                                                [id |-> Nothing, reply |-> "good"])]}
    [] proc[p].pc = "generation" /\ route.journal /\ ~Exists(p, "generation")
         -> {disk, [disk EXCEPT !.journal = Put(@, File(p, "generation"),
                                                [id |-> Nothing, reply |-> "good"])]}
    [] OTHER -> {disk}

Crash(p) ==
  /\ ~At(p, "off")
  /\ disk' \in Written(p)
  /\ proc' = [proc EXCEPT ![p] = Down]
  /\ flock' = [k \in Keys |-> IF flock[k] = p THEN NoKey ELSE flock[k]]
  /\ UNCHANGED <<route, wave, posts>>

\* A worker is started with the ledger as it is by then.
Boot(p) ==
  /\ At(p, "off")
  /\ proc' = [proc EXCEPT ![p] = [Down EXCEPT !.pc = "idle", !.prefix = Len(disk.ledger),
                                              !.cut = disk.torn]]
  /\ UNCHANGED <<route, wave, disk, flock, posts>>

NextWave ==
  /\ wave < MaxWave
  /\ \A p \in Workers : At(p, "off")
  /\ wave' = wave + 1
  /\ UNCHANGED <<route, disk, flock, proc, posts>>

-----------------------------------------------------------------------------
(***************************************************************************)
(* Properties of the provider.                                             *)
(***************************************************************************)
Sent(k, w) == {x \in posts : x.key = k /\ x.wave = w}

\* On the campaign route, with the cache, whose lock serialises the callers of a key, and
\* the ledger, which remembers what was started, an extraction is sent at most once in a
\* wave, whatever crashes, and however often it is asked for.
PaidOnce ==
  route.cache /\ route.ledger =>
    \A k \in Keys, w \in 1..MaxWave : Cardinality(Sent(k, w)) <= 1
=============================================================================
