----------------------------- MODULE DeepGather -----------------------------
(***************************************************************************)
(* The provider loop of a deep recall and the check of its result by the   *)
(* core.  The loop reserves an upper bound for each request before it is   *)
(* posted, retries answers that never became a generation, settles what a  *)
(* turn really cost, runs the model's tool calls and stops at its limits.  *)
(* All of it runs under two deadlines: the loop's, and a later one that    *)
(* leaves time to ask what an unfinished generation cost.  The provider is *)
(* external: it may lose, bill, refuse or answer any request, and bills a  *)
(* request at most what the request's price ceiling allows.                *)
(***************************************************************************)
EXTENDS Integers, Sequences, FiniteSets, Functions

CONSTANTS Sources,       \* source ids of the workspace's manifest
          Unknown,       \* a source id the manifest does not have
          Routes,        \* provider names an answer may carry
          Allowed,       \* those that normalise to a configured provider
          GenIds,        \* generation ids
          NoId, NoRoute, \* absent values
          Turns,         \* the tool calls a turn may ask for
          MaxEvidence,   \* MAX_EVIDENCE_IDS
          MaxSpend, MaxContext, MaxTools, Wall,  \* DeepRecallLimits
          Reserve,       \* settlement_reserve_ms
          MaxRetries, MalformedLimit,
          PromptSize,    \* size of the first request
          Completion,    \* max_completion_tokens
          InPrice, OutPrice, PriceUnit, \* micros per PriceUnit tokens
          BillSizes      \* bills below the ceiling of a request

ASSUME DeepBounds ==
  /\ Unknown \notin Sources /\ NoId \notin GenIds /\ NoRoute \notin Routes
  /\ Allowed \subseteq Routes /\ Turns \subseteq Seq([tool : STRING, ids : Seq(Sources \cup {Unknown}), status : STRING])
  /\ {MaxSpend, MaxContext, MaxTools, Wall, Reserve, PromptSize, Completion} \subseteq Nat \ {0}
  /\ {InPrice, OutPrice, PriceUnit} \subseteq Nat \ {0}
  /\ {MaxRetries, MalformedLimit, MaxEvidence} \subseteq Nat /\ BillSizes \subseteq Nat
  /\ Reserve <= Wall

VARIABLES pc,        \* where gather_inner or run_loop waits
          clock,     \* time since the call
          size,      \* size of the next request, which grows with the messages
          usage,     \* settled context, spend and tool calls
          out,       \* the outstanding request: reservation and generation id
          ids,       \* generation_ids
          route,     \* observed_provider
          notes,     \* the tools' checkpoint, the malformed answers, and of the turn the calls left and its finish
          attempts,  \* posts of the current request
          settleBy,  \* the settlement's deadline
          answer,    \* what gather returns
          charge,    \* external: what the provider bills for the outstanding request
          billed     \* external: what it has billed in all

provider == <<charge, billed>>
loop == <<size, usage, out, ids, route, notes, attempts>>
gatherVars == <<pc, clock, loop, settleBy, answer, provider>>

Nothing == [context |-> 0, spend |-> 0]
NoRequest == [on |-> FALSE, context |-> 0, spend |-> 0, id |-> NoId]
NoNotes == [checkpoint |-> <<>>, malformed |-> 0, calls |-> <<>>, finish |-> <<>>]
NoAnswer == [status |-> "none", reason |-> "none", sources |-> <<>>, evidence |-> "none",
             usage |-> [context |-> 0, spend |-> 0, tools |-> 0], unsettled |-> Nothing,
             ids |-> <<>>, time |-> 0]

LoopDeadline == Wall - Reserve

GatherInit ==
  /\ pc = "loop" /\ clock = 0 /\ size = PromptSize
  /\ usage = [context |-> 0, spend |-> 0, tools |-> 0]
  /\ out = NoRequest /\ ids = <<>> /\ route = NoRoute
  /\ notes = NoNotes
  /\ attempts = 0 /\ settleBy = Wall /\ answer = NoAnswer
  /\ charge = Nothing /\ billed = Nothing

Add(a, b) == [context |-> a.context + b.context, spend |-> a.spend + b.spend]
PlusUsage(b) == [usage EXCEPT !.context = @ + b.context, !.spend = @ + b.spend]

----------------------------------------------------------------------------
(* The result, and how the loop ends. *)

\* The outstanding reservation is reported as an upper bound; without a finish
\* the answer is the checkpoint, and calls itself insufficient.
result(status, reason, finish, used, request) ==
  [status |-> status, reason |-> reason,
   sources |-> IF finish = <<>> THEN notes'.checkpoint ELSE finish[1].ids,
   evidence |-> IF finish = <<>> THEN "insufficient" ELSE finish[1].status,
   usage |-> used, unsettled |-> [context |-> request.context, spend |-> request.spend],
   ids |-> ids', time |-> 0]

\* A request that has a generation id is settled before the answer.
Ends(status, reason, finish) ==
  /\ answer' = result(status, reason, finish, usage', out')
  /\ pc' = IF out'.id # NoId THEN "settle" ELSE "measure"
  /\ settleBy' = IF clock + Reserve < Wall THEN clock + Reserve ELSE Wall

Unavailable == answer' = [NoAnswer EXCEPT !.status = "error"] /\ pc' = "failed"

----------------------------------------------------------------------------
(* Before a request. *)

reserve_micros(tokens, price) == (tokens * price + PriceUnit - 1) \div PriceUnit

reservation_for(n) ==
  [on |-> TRUE, id |-> NoId, context |-> n + Completion,
   spend |-> reserve_micros(n, InPrice) + reserve_micros(Completion, OutPrice)]

\* The cap that is reached, in the order stop_reason asks.
stop_reason ==
  IF usage.spend >= MaxSpend THEN "spend"
  ELSE IF usage.context >= MaxContext THEN "context_tokens"
  ELSE IF usage.tools >= MaxTools THEN "tool_iterations" ELSE "none"

\* The cap that the next request would break.
Overruns(r) ==
  IF usage.spend + r.spend > MaxSpend THEN "spend"
  ELSE IF usage.context + r.context > MaxContext THEN "context_tokens" ELSE "none"

\* begin_dispatch: the reservation is installed before the post.
Dispatch ==
  /\ pc = "loop"
  /\ LET r == reservation_for(size)
         cap == IF stop_reason # "none" THEN stop_reason ELSE Overruns(r)
     IN IF cap # "none"
        THEN /\ UNCHANGED <<loop, provider>>
             /\ Ends("capped", cap, <<>>)
        ELSE /\ out' = r /\ attempts' = 1 /\ pc' = "post" /\ charge' = Nothing
             /\ UNCHANGED <<size, usage, ids, route, notes, settleBy, answer, billed>>
  /\ UNCHANGED clock

\* External: the bills a posted request can lead to.
Upto(n) == {b \in BillSizes : b <= n} \cup {n}
Charges == {[context |-> c, spend |-> s] : c \in Upto(size), s \in Upto(out.spend)}

Bills(c) == charge' = c /\ billed' = Add(billed, c)

----------------------------------------------------------------------------
(* What the post comes back with. *)

\* A mutant: a broken connection is retried like a refusal.
PostFailsRetried(c) ==
  /\ pc = "post" /\ Bills(c)
  /\ UNCHANGED <<clock, size, usage, ids, route, notes, attempts>>
  /\ IF attempts <= MaxRetries
     THEN out' = NoRequest /\ pc' = "sleep" /\ UNCHANGED <<settleBy, answer>>
     ELSE UNCHANGED out /\ Ends("partial", "provider_error", <<>>)

\* The connection breaks: whether the provider worked on it is unknown.
PostFails(c) ==
  /\ pc = "post" /\ Bills(c)
  /\ UNCHANGED <<clock, loop>>
  /\ Ends("partial", "provider_error", <<>>)

PostTimesOut(c) ==
  /\ pc = "post" /\ clock >= LoopDeadline /\ Bills(c)
  /\ UNCHANGED <<clock, loop>>
  /\ Ends("capped", "wall_time", <<>>)

has_prior_work ==
  ids # <<>> \/ usage.context # 0 \/ usage.spend # 0 \/ notes.checkpoint # <<>>

\* An error without a generation id was never a generation.  A 429 or 5xx is
\* retried; otherwise the loop ends with what it has, or with an error.
PostRefused(retryable) ==
  /\ pc = "post"
  /\ out' = NoRequest
  /\ UNCHANGED <<clock, size, usage, ids, route, notes, attempts, provider>>
  /\ IF retryable /\ attempts <= MaxRetries
     THEN pc' = "sleep" /\ UNCHANGED <<settleBy, answer>>
     ELSE IF has_prior_work
          THEN Ends("partial", "provider_error", <<>>)
          ELSE Unavailable /\ UNCHANGED settleBy

Retry ==
  /\ pc = "sleep" /\ pc' = "post" /\ attempts' = attempts + 1
  /\ out' = reservation_for(size) /\ charge' = Nothing
  /\ UNCHANGED <<clock, size, usage, ids, route, notes, settleBy, answer, billed>>

SleepTimesOut ==
  /\ pc = "sleep" /\ clock >= LoopDeadline
  /\ UNCHANGED <<clock, loop, provider>>
  /\ Ends("capped", "wall_time", <<>>)

\* attach_generation: an id that was already used is refused.
Attaches(id) ==
  IF id \in Range(ids)
  THEN UNCHANGED <<out, ids>>
  ELSE out' = [out EXCEPT !.id = id] /\ ids' = Append(ids, id)

\* An error with a generation id is a generation that failed.
PostFailsWithId(id, c) ==
  /\ pc = "post" /\ Bills(c)
  /\ Attaches(id)
  /\ UNCHANGED <<clock, size, usage, route, notes, attempts>>
  /\ Ends("partial", IF id \in Range(ids) THEN "invalid_output" ELSE "provider_error", <<>>)

\* A stream starts; without an id, with a used one or with another content
\* type it is not read.
Streams(id, typed, c) ==
  /\ pc = "post" /\ Bills(c)
  /\ IF id = NoId THEN UNCHANGED <<out, ids>> ELSE Attaches(id)
  /\ UNCHANGED <<clock, size, usage, route, notes, attempts>>
  /\ IF id # NoId /\ id \notin Range(ids) /\ typed
     THEN pc' = "stream" /\ UNCHANGED <<settleBy, answer>>
     ELSE Ends("partial", "invalid_output", <<>>)

----------------------------------------------------------------------------
(* A turn. *)

\* parse_turn fails: the connection broke or the events make no turn.
StreamFails(reason) ==
  /\ pc = "stream"
  /\ UNCHANGED <<clock, loop, provider>>
  /\ Ends("partial", reason, <<>>)

\* A mutant: the stream is read without a deadline.
StreamNeverTimesOut == pc = "none" /\ UNCHANGED gatherVars

StreamTimesOut ==
  /\ pc = "stream" /\ clock >= LoopDeadline
  /\ UNCHANGED <<clock, loop, provider>>
  /\ Ends("capped", "wall_time", <<>>)

\* record_evidence and finish name sources of the workspace only; a finish
\* that claims evidence has some.
RecordFails(call, checkpoint) ==
  \/ Len(call.ids) > MaxEvidence
  \/ Unknown \in Range(call.ids)
  \/ /\ call.tool = "record_evidence"
     /\ Cardinality(Range(checkpoint) \cup Range(call.ids)) > MaxEvidence
  \/ call.tool = "finish" /\ call.status # "insufficient" /\ call.ids = <<>>

\* Each id once, in the order of its first mention.
FirstMentions(s) == {i \in 1..Len(s) : \A j \in 1..(i - 1) : s[j] # s[i]}
Mention(s, n) == CHOOSE i \in FirstMentions(s) : Cardinality({j \in FirstMentions(s) : j < i}) = n - 1
Dedup(s) == [n \in 1..Cardinality(FirstMentions(s)) |-> s[Mention(s, n)]]

\* observe_route: an allowed provider, and the one of the turns before.
RouteHolds(r) == r \in Allowed /\ route \in {NoRoute, r}

\* A whole turn: its route, its settlement, the cap on tool calls.
Turn(calls, r) ==
  /\ pc = "stream"
  /\ UNCHANGED <<clock, ids, attempts, provider>>
  /\ IF ~RouteHolds(r)
     THEN /\ UNCHANGED <<size, usage, out, route, notes>>
          /\ Ends("partial", "invalid_output", <<>>)
     ELSE /\ route' = r /\ out' = NoRequest
          /\ IF usage.tools + Len(calls) > MaxTools
             THEN /\ usage' = PlusUsage(charge) /\ UNCHANGED <<size, notes>>
                  /\ Ends("capped", "tool_iterations", <<>>)
             ELSE /\ usage' = [PlusUsage(charge) EXCEPT !.tools = @ + Len(calls)]
                  /\ notes' = [notes EXCEPT !.calls = calls, !.finish = <<>>]
                  /\ pc' = "tools" /\ UNCHANGED <<size, settleBy, answer>>

\* What WorkspaceTools.call does with a call: an error counts as malformed, a
\* record extends the checkpoint, the first finish of the turn is kept.
Called(call) ==
  LET recorded == call.tool \in {"record_evidence", "finish"}
      left == [notes EXCEPT !.calls = Tail(@)]
  IN IF call.tool = "malformed" \/ (recorded /\ RecordFails(call, notes.checkpoint))
     THEN [left EXCEPT !.malformed = @ + 1]
     ELSE IF call.tool = "record_evidence"
     THEN [left EXCEPT !.checkpoint = Dedup(@ \o call.ids)]
     ELSE IF call.tool = "finish" /\ notes.finish = <<>>
     THEN [left EXCEPT !.finish = <<[ids |-> Dedup(call.ids), status |-> call.status]>>]
     ELSE left

\* The next call of the turn; a turn whose malformed answers pass the limit is
\* not continued.
CallTool ==
  /\ pc = "tools" /\ notes.calls # <<>>
  /\ UNCHANGED <<clock, size, usage, out, ids, route, attempts, provider>>
  /\ LET done == Called(notes.calls[1])
     IN IF done.malformed > MalformedLimit
        THEN /\ notes' = [done EXCEPT !.calls = <<>>, !.finish = <<>>]
             /\ Ends("partial", "invalid_output", <<>>)
        ELSE notes' = done /\ UNCHANGED <<pc, settleBy, answer>>

\* The turn is over: a finish ends the loop.
TurnEnds ==
  /\ pc = "tools" /\ notes.calls = <<>> /\ size' = size + 1
  /\ notes' = [notes EXCEPT !.finish = <<>>]
  /\ UNCHANGED <<clock, usage, out, ids, route, attempts, provider>>
  /\ IF notes.finish = <<>>
     THEN pc' = "loop" /\ UNCHANGED <<settleBy, answer>>
     ELSE Ends("completed", "completed", notes.finish)

----------------------------------------------------------------------------
(* The end of gather_inner, and the core's check. *)

\* settle_outstanding: /generation tells what the request cost.
Settles ==
  /\ pc = "settle" /\ pc' = "measure"
  /\ usage' = PlusUsage(charge) /\ out' = NoRequest
  /\ answer' = [answer EXCEPT !.usage = usage', !.unsettled = Nothing]
  /\ UNCHANGED <<clock, size, ids, route, notes, attempts, settleBy, provider>>

SettlementFails ==
  /\ pc = "settle" /\ pc' = "measure"
  /\ UNCHANGED <<clock, loop, settleBy, answer, provider>>

SettlementTimesOut ==
  /\ pc = "settle" /\ clock >= settleBy /\ pc' = "measure"
  /\ UNCHANGED <<clock, loop, settleBy, answer, provider>>

Measure ==
  /\ pc = "measure" /\ pc' = "check"
  /\ answer' = [answer EXCEPT !.time = clock]
  /\ UNCHANGED <<clock, loop, settleBy, provider>>

StopReasons(status) ==
  CASE status = "completed" -> {"completed"}
    [] status = "capped" -> {"wall_time", "tool_iterations", "context_tokens", "spend"}
    [] status = "partial" -> {"provider_error", "invalid_output"}
    [] OTHER -> {}

\* validate_deep_provider_result.
Accepted(a) ==
  /\ a.reason \in StopReasons(a.status)
  /\ a.time <= Wall /\ a.usage.tools <= MaxTools
  /\ a.usage.context + a.unsettled.context <= MaxContext
  /\ a.usage.spend + a.unsettled.spend <= MaxSpend
  /\ Cardinality(Range(a.ids)) = Len(a.ids)
  /\ a.evidence # "insufficient" => a.sources # <<>> /\ a.status = "completed"
  /\ Cardinality(Range(a.sources)) = Len(a.sources) /\ Range(a.sources) \subseteq Sources

Check ==
  /\ pc = "check"
  /\ pc' = IF Accepted(answer) THEN "accepted" ELSE "failed"
  /\ UNCHANGED <<clock, loop, settleBy, answer, provider>>

----------------------------------------------------------------------------

\* Time passes while the loop waits; a timer fires at its deadline or one
\* tick late.
GatherTick ==
  /\ pc \in {"post", "sleep", "stream", "settle"}
  /\ clock <= IF pc = "settle" THEN settleBy ELSE LoopDeadline
  /\ clock' = clock + 1
  /\ UNCHANGED <<pc, loop, settleBy, answer, provider>>

Timers ==
  \/ \E c \in Charges \cup {Nothing} : PostTimesOut(c)
  \/ SleepTimesOut \/ StreamTimesOut \/ SettlementTimesOut

Own == Dispatch \/ Retry \/ CallTool \/ TurnEnds \/ Measure \/ Check

Provider ==
  \/ \E c \in Charges \cup {Nothing} : PostFails(c)
  \/ \E retryable \in BOOLEAN : PostRefused(retryable)
  \/ \E id \in GenIds, c \in Charges : PostFailsWithId(id, c)
  \/ \E id \in GenIds \cup {NoId}, typed \in BOOLEAN, c \in Charges : Streams(id, typed, c)
  \/ \E reason \in {"provider_error", "invalid_output"} : StreamFails(reason)
  \/ \E calls \in Turns, r \in Routes : Turn(calls, r)
  \/ Settles \/ SettlementFails

----------------------------------------------------------------------------
(* Properties. *)

GatherTypeOK ==
  /\ pc \in {"loop", "post", "sleep", "stream", "tools", "settle", "measure", "check", "accepted", "failed", "over"}
  /\ clock \in 0..(Wall + 1) /\ size \in Nat /\ attempts \in 0..(MaxRetries + 1)
  /\ out \in [on : BOOLEAN, context : Nat, spend : Nat, id : GenIds \cup {NoId}]
  /\ route \in Allowed \cup {NoRoute}

\* Whatever the provider charges is inside the caller's caps, and an answer
\* reports at least what was charged, settled or as an upper bound: nothing is
\* billed behind a retry, a cancelled stream, a failed settlement or an error.
\* The core accepts every result of the loop, and its account with it, except one
\* that a late settlement timer measured past the wall-time limit: a finish is
\* never thrown away, nor is any result for a cap that the loop overran.
NothingUnaccounted ==
  /\ billed.spend <= MaxSpend /\ billed.context <= MaxContext
  /\ pc \in {"check", "accepted"} =>
       /\ billed.spend <= answer.usage.spend + answer.unsettled.spend
       /\ billed.context <= answer.usage.context + answer.unsettled.context
  /\ answer.status = "error" => billed = Nothing
  /\ pc = "failed" /\ answer.status # "error" => answer.time > Wall /\ answer.status # "completed"

\* A cap returns the evidence found so far, as docs/superpowers/plans promises:
\* broken by the wall-time limit itself.
CapIsServed == pc = "failed" => answer.status # "capped"
=============================================================================
