------------------------------ MODULE ServeLoop ------------------------------
(***************************************************************************)
(* The engine's server loop, `bnk serve` (src/server/serve.cpp).  A reader *)
(* thread takes the protocol's lines: it queues requests, and marks or     *)
(* unqueues cancelled ones.  The worker admits a request into a free       *)
(* conversation slot (reads its prompt, in chunks) and decodes every       *)
(* request in flight in rounds: one batched forward; or, on two GPUs, one  *)
(* request's lookahead round, whose confirmed speculation leaves the next  *)
(* window half done; or two lanes, each on the GPU the other left.         *)
(* Between a prompt's chunks the others' rounds go on.                     *)
(*                                                                         *)
(* The messages of consecutive rounds are one entry of `told': "tokens",   *)
(* or "late" when the request had already been stopped.  Which free slot   *)
(* is picked (the conversation that continues best) is left open.  The     *)
(* engine may move a conversation off the GPU when a forward needs its     *)
(* memory: any slot that set_busy does not name, but for the one the       *)
(* forward is being prepared for.                                          *)
(***************************************************************************)
EXTENDS Integers, Sequences, FiniteSets, SequencesExt

CONSTANTS
  Reqs, Resets, Bad,   \* ids of generate, reset and malformed or unknown requests, in the order they come
  Slots,               \* conversation slots, numbered
  TwoGpus,             \* lookahead rounds and lanes are possible
  MemoryShort,         \* forwards may need the memory of other conversations
  MaxTokens,           \* bound: rounds each request's max_tokens lasts
  MaxChunks,           \* bound: chunks of a prompt
  MaxFailures,         \* bound: engine exceptions
  None

Ids == Reqs \cup Resets \cup Bad

ASSUME ServeAssumption ==
  /\ Slots \subseteq Nat /\ Slots # {} /\ IsFiniteSet(Slots)
  /\ Ids \subseteq Nat /\ None \notin Ids \cup Slots
  /\ TwoGpus \in BOOLEAN /\ MemoryShort \in BOOLEAN
  /\ MaxTokens \in [Reqs -> Nat \ {0}] /\ MaxChunks \in Nat \ {0} /\ MaxFailures \in Nat

VARIABLES
  sent, queue, cancelled, quit,       \* the reader's side
  wpc,                                \* where the worker is
  after,                              \* where la_drain returns to
  todo,                               \* half-done requests la_drain has still to visit
  head,                               \* the request taken from the queue
  active, slot, stop, produced,       \* the requests in flight
  pending,                            \* Generator::lookahead_pending
  chunks,                             \* chunks of the prompt still to read
  busy,                               \* the engine's set_busy
  lanes, mid, piped,
  moved,                              \* ghost: requests in flight whose conversation was moved off the GPU
  undrained,                          \* ghost: requests whose half-done window failed in la_drain
  told,                               \* the messages each id was sent
  failures

reader  == <<sent, queue, cancelled, quit>>
control == <<wpc, after, todo, head>>
flight  == <<active, slot, stop, produced, pending, chunks, busy>>
pipe    == <<lanes, mid, piped>>
ghost   == <<moved, undrained>>
vars == <<reader, control, flight, pipe, ghost, told, failures>>

Messages == {"prefill", "tokens", "late", "done", "error", "reset"}

TypeOK ==
  /\ sent \in SUBSET Ids /\ cancelled \in SUBSET Ids /\ quit \in BOOLEAN
  /\ queue \in Seq(Ids)
  /\ wpc \in {"main", "pipe_drain", "step_drain", "la_drain", "dispatch", "reading", "between", "batch", "exit"}
  /\ after \in {"dispatch", "batch", "reading"}
  /\ todo \in SUBSET Reqs /\ head \in Ids \cup {None}
  /\ active \in SUBSET Reqs /\ stop \in SUBSET Reqs /\ pending \in SUBSET Reqs
  /\ slot \in [Reqs -> Slots \cup {None}]
  /\ produced \in [Reqs -> Nat]
  /\ chunks \in 0..MaxChunks
  /\ busy \in SUBSET Slots
  /\ lanes \in [{0, 1} -> SUBSET Reqs] /\ mid \in {-1, 0, 1} /\ piped \in BOOLEAN
  /\ moved \in SUBSET Reqs /\ undrained \in SUBSET Reqs
  /\ told \in [Ids -> Seq(Messages)]
  /\ failures \in 0..MaxFailures

NoLanes == [l \in {0, 1} |-> {}]

Init ==
  /\ sent = {} /\ queue = <<>> /\ cancelled = {} /\ quit = FALSE
  /\ wpc = "main" /\ after = "dispatch" /\ todo = {} /\ head = None
  /\ active = {} /\ slot = [r \in Reqs |-> None] /\ stop = {} /\ produced = [r \in Reqs |-> 0]
  /\ pending = {} /\ chunks = 0 /\ busy = {}
  /\ lanes = NoLanes /\ mid = -1 /\ piped = FALSE
  /\ moved = {} /\ undrained = {} /\ told = [i \in Ids |-> <<>>] /\ failures = 0

-----------------------------------------------------------------------------
(* The reader thread *)

ReadRequest(i) ==
  /\ ~quit /\ i \notin sent
  /\ \A j \in Ids : j < i => j \in sent
  /\ sent' = sent \cup {i}
  /\ queue' = Append(queue, i)
  /\ UNCHANGED <<cancelled, quit, control, flight, pipe, ghost, told, failures>>

\* the queue without an id's request; an id is queued once
Without(q, i) == IF i \in ToSet(q) THEN RemoveAt(q, CHOOSE k \in DOMAIN q : q[k] = i) ELSE q

\* cancelled under cur_mu, then the queue under mu; a queued request is gone without an answer.
ReadCancel(i) ==
  /\ ~quit /\ i \in sent
  /\ cancelled' = cancelled \cup {i}
  /\ queue' = Without(queue, i)
  /\ UNCHANGED <<sent, quit, control, flight, pipe, ghost, told, failures>>

\* "quit", or the end of stdin
ReadQuit ==
  /\ ~quit /\ quit' = TRUE
  /\ UNCHANGED <<sent, queue, cancelled, control, flight, pipe, ghost, told, failures>>

-----------------------------------------------------------------------------
(* Parts of the worker's steps *)

SlotsOf(rs) == {slot[r] : r \in rs}

\* The request whose prompt is being read, and all that hold a slot
Reading == {r \in {head} \cap Reqs : slot[r] # None}
InFlight == active \cup Reading

\* A forward prepared for each request of rs in turn (evict_idle_for): a conversation may go to make room
\* for another's window, unless it is busy.
Forward(rs) ==
  /\ \E m \in SUBSET {r \in InFlight : MemoryShort /\ slot[r] \notin busy /\ rs \ {r} # {}} : moved' = moved \cup m
  /\ UNCHANGED undrained

\* What a round gives a request: tokens, tokens and the end of its answer, or the stop token alone.
Outcomes == {"more", "end", "only end"}

\* mutant: the budget is not counted
StopAfterNoBudget(rs, o) == stop \cup {r \in rs : o[r] # "more" \/ r \in cancelled}

\* deliver: who is stopped once the requests of rs have had outcome o
StopAfter(rs, o) ==
  stop \cup {r \in rs : o[r] # "more" \/ produced[r] + 1 >= MaxTokens[r] \/ r \in cancelled}

\* deliver: what request r is sent, after what it was told
WithTokens(said, r, o) ==
  LET m == IF r \in stop THEN "late" ELSE "tokens"
  IN  IF o = "only end" \/ (said # <<>> /\ Last(said) = m) THEN said ELSE Append(said, m)

\* mark_busy(-1) over the requests that stay
MarkBusy(rs) == busy' = SlotsOf(rs)

\* the loop over the requests of a round that are done
Leaving(leavers, stopped) == leavers \cap stopped

\* the requests left in flight
Remaining(leave) == active \ leave

\* The requests of rs receive a round's tokens; those of leavers that are stopped then finish
\* (finish_request, erase, mark_busy(-1)).  half: requests whose next window is half done.
DeliverRound(rs, leavers, half) ==
  \E o \in [rs -> Outcomes] :
    LET stopped == StopAfter(rs, o)
        leave   == Leaving(leavers, stopped)
    IN  /\ told' = [i \in Ids |-> (IF i \in rs THEN WithTokens(told[i], i, o[i]) ELSE told[i])
                                   \o (IF i \in leave THEN <<"done">> ELSE <<>>)]
        /\ produced' = [r \in Reqs |-> IF r \in rs THEN Min({MaxTokens[r], produced[r] + 1}) ELSE produced[r]]
        /\ stop' = stopped \ leave
        /\ active' = Remaining(leave)
        /\ slot' = [r \in Reqs |-> IF r \in active \ active' THEN None ELSE slot[r]]
        /\ pending' = ((pending \ rs) \cup half) \ leave
        /\ cancelled' = cancelled \ leave
        /\ IF leave = {} THEN UNCHANGED busy ELSE MarkBusy(active')

\* An exception in a round: every request in flight is told, its slot reset; the process exits when
\* the GPU context is lost (exit_if_gpu_lost), else the worker goes on at home.
EveryoneFails(home) ==
  /\ failures < MaxFailures /\ failures' = failures + 1
  /\ told' = [i \in Ids |-> IF i \in active THEN Append(told[i], "error") ELSE told[i]]
  /\ active' = {} /\ stop' = {} /\ pending' = {}
  /\ slot' = [r \in Reqs |-> IF r \in active THEN None ELSE slot[r]]
  /\ wpc' \in {home, "exit"}
  /\ UNCHANGED <<produced, ghost, chunks, after, todo, head, reader>>

-----------------------------------------------------------------------------
(* The worker: the main loop *)

\* A generate request while a slot is free, anything else once nothing is in flight.
Takeable ==
  /\ queue # <<>>
  /\ active = {} \/ (Cardinality(active) < Cardinality(Slots) /\ Head(queue) \in Reqs)

TakeHead ==
  /\ wpc = "main" /\ ~quit /\ Takeable
  /\ head' = Head(queue) /\ queue' = Tail(queue)
  /\ wpc' = "pipe_drain"
  /\ UNCHANGED <<sent, cancelled, quit, after, todo, flight, pipe, ghost, told, failures>>

\* two requests or more in flight on two GPUs
MayStep == wpc = "main" /\ ~quit /\ ~Takeable /\ TwoGpus /\ Cardinality(active) >= 2

Leave ==
  /\ wpc = "main" /\ quit
  /\ wpc' = "exit"
  /\ UNCHANGED <<reader, after, todo, head, flight, pipe, ghost, told, failures>>

\* mutant: la_drain finds no half-done window
DrainNobody(return) == wpc' = "la_drain" /\ after' = return /\ todo' = {}

\* la_drain is called: it visits the requests whose next window is half done.
Drain(return) == wpc' = "la_drain" /\ after' = return /\ todo' = active' \cap pending'

\* pipe_drain's end, before a request is read or after a lane ran empty
Drained == IF wpc = "step_drain" THEN wpc' = "main" /\ UNCHANGED <<after, todo>> ELSE Drain("dispatch")

\* no lanes: back to one batch per round
NoLanesLeft == lanes' = NoLanes /\ mid' = -1 /\ piped' = FALSE

\* pipe_drain: the lane on its way goes through the second GPU alone.
PipeDrain ==
  /\ wpc \in {"pipe_drain", "step_drain"}
  /\ IF mid = -1
     THEN UNCHANGED <<active, slot, stop, produced, pending, busy, cancelled, ghost, told>>
     ELSE Forward(lanes[mid]) /\ DeliverRound(lanes[mid], lanes[mid], {})
  /\ NoLanesLeft
  /\ Drained
  /\ UNCHANGED <<sent, queue, quit, head, chunks, failures>>

\* pipe_fail, in pipe_drain or pipe_step; a request taken meanwhile is still dispatched.
PipeFails ==
  /\ \/ piped /\ wpc \in {"pipe_drain", "step_drain"}
     \/ MayStep
  /\ EveryoneFails(IF wpc = "pipe_drain" THEN "dispatch" ELSE "main")
  /\ MarkBusy({})
  /\ NoLanesLeft

\* la_drain: one half-done window is completed.  A request it stops stays in flight.
DrainOne(r) ==
  /\ wpc = "la_drain" /\ r \in todo
  /\ todo' = todo \ {r}
  /\ Forward({r}) /\ DeliverRound({r}, {}, {})
  /\ UNCHANGED <<sent, queue, quit, wpc, after, head, chunks, pipe, failures>>

\* Its exception: the slot is reset, the request stays in flight; the window counts as half done still
\* unless the exception came after its verification.
DrainFails(r) ==
  /\ wpc = "la_drain" /\ r \in todo
  /\ failures < MaxFailures /\ failures' = failures + 1
  /\ told' = [told EXCEPT ![r] = Append(@, "error")]
  /\ pending' \in {pending, pending \ {r}}
  /\ undrained' = undrained \cup {r}
  /\ todo' = todo \ {r}
  /\ wpc' \in {"la_drain", "exit"}
  /\ UNCHANGED <<reader, after, head, active, slot, stop, produced, chunks, busy, pipe, moved>>

DrainEnd ==
  /\ wpc = "la_drain" /\ todo = {}
  /\ wpc' = after
  /\ UNCHANGED <<reader, after, todo, head, flight, pipe, ghost, told, failures>>

-----------------------------------------------------------------------------
(* The worker: requests *)

\* "reset": the worker takes it with nothing in flight.
Reset ==
  /\ wpc = "dispatch" /\ head \in Resets
  /\ told' = [told EXCEPT ![head] = Append(@, "reset")]
  /\ wpc' = "main" /\ head' = None
  /\ UNCHANGED <<reader, after, todo, flight, pipe, ghost, failures>>

\* an unknown op, or a generate request that fails its checks
Refuse ==
  /\ wpc = "dispatch" /\ head \in Bad \cup Reqs
  /\ told' = [told EXCEPT ![head] = Append(@, "error")]
  /\ wpc' = "main" /\ head' = None
  /\ UNCHANGED <<reader, after, todo, flight, pipe, ghost, failures>>

\* pick_slot: the slots of no request in flight
FreeSlots == Slots \ SlotsOf(active)

\* admit, up to the prompt's read
Admit ==
  /\ wpc = "dispatch" /\ head \in Reqs
  /\ \E s \in FreeSlots : slot' = [slot EXCEPT ![head] = s] /\ busy' = SlotsOf(active) \cup {s}
  /\ chunks' \in 1..MaxChunks
  /\ wpc' = "reading"
  /\ UNCHANGED <<reader, after, todo, head, active, stop, produced, pending, pipe, ghost, told, failures>>

\* A chunk that is not the last; on_prefill_progress calls between_chunks.
ReadChunk ==
  /\ wpc = "reading" /\ chunks > 1
  /\ chunks' = chunks - 1
  /\ wpc' = IF active = {} THEN "reading" ELSE "between"
  /\ Forward({head})
  /\ UNCHANGED <<reader, after, todo, head, active, slot, stop, produced, pending, busy, pipe, told, failures>>

\* the share of the chunk's time is used up, or nothing is in flight any more
BackToPrompt ==
  /\ wpc = "between"
  /\ UNCHANGED <<reader, head, flight, pipe, ghost, told, failures>>
  /\ Drain("reading")

\* mutant: a request that is over with its first token is put in flight too
EnterAlways(over) == active \cup {head}

\* admit's result: whether the request goes on
Enter(over) == IF over THEN active ELSE active \cup {head}

\* The last chunk and the first token: the request is in flight, or over at once.
EndRead ==
  /\ wpc = "reading" /\ chunks = 1
  /\ \E o \in Outcomes :
       LET over == head \in StopAfter({head}, [r \in {head} |-> o])
       IN  /\ told' = [told EXCEPT ![head] = WithTokens(Append(@, "prefill"), head, o)
                                           \o (IF over THEN <<"done">> ELSE <<>>)]
           /\ active' = Enter(over)
           /\ slot' = IF over THEN [slot EXCEPT ![head] = None] ELSE slot
           /\ cancelled' = IF over THEN cancelled \ {head} ELSE cancelled
  /\ produced' = [produced EXCEPT ![head] = 1]
  /\ chunks' = 0
  /\ wpc' = "main" /\ head' = None
  /\ Forward({head})
  /\ UNCHANGED <<sent, queue, quit, after, todo, stop, pending, busy, pipe, failures>>

\* the read fails: the slot starts clean next time
ReadFails ==
  /\ wpc = "reading"
  /\ failures < MaxFailures /\ failures' = failures + 1
  /\ told' = [told EXCEPT ![head] = Append(@, "error")]
  /\ slot' = [slot EXCEPT ![head] = None]
  /\ chunks' = 0 /\ head' = None
  /\ wpc' \in {"main", "exit"}
  /\ UNCHANGED <<reader, after, todo, active, stop, produced, pending, busy, pipe, ghost>>

-----------------------------------------------------------------------------
(* The worker: rounds *)

\* run_round from the main loop, or between two chunks of a prompt
MayRound ==
  /\ active # {} /\ ~piped
  /\ \/ wpc = "main" /\ ~quit /\ ~Takeable /\ ~(TwoGpus /\ Cardinality(active) >= 2)
     \/ wpc = "between"

Lookahead == TwoGpus /\ Cardinality(active) = 1

\* next_lookahead: a confirmed speculation leaves the next window half done.
LookaheadRound ==
  /\ MayRound /\ Lookahead
  /\ Forward(active)
  /\ \E half \in {{}, active} : DeliverRound(active, active, half)
  /\ UNCHANGED <<sent, queue, quit, control, chunks, pipe, failures>>

StartBatch ==
  /\ MayRound /\ ~Lookahead
  /\ UNCHANGED <<reader, head, flight, pipe, ghost, told, failures>>
  /\ Drain("batch")

Home == IF head = None THEN "main" ELSE "between"

\* one batched forward for every request in flight
Batch ==
  /\ wpc = "batch"
  /\ Forward(active)
  /\ DeliverRound(active, active, {})
  /\ wpc' = Home
  /\ UNCHANGED <<sent, queue, quit, after, todo, head, chunks, pipe, failures>>

RoundFails ==
  /\ wpc = "batch" \/ (MayRound /\ Lookahead)
  /\ EveryoneFails(Home)
  /\ UNCHANGED <<busy, pipe>>

\* two lanes, alternating over the requests in slot order
FormLanes == [l \in {0, 1} |-> {r \in active : Cardinality({q \in active : slot[q] < slot[r]}) % 2 = l}]

\* the lane whose next windows are ready
ReadyLane == IF mid = 0 THEN 1 ELSE 0

\* pipe_step: lane x through the first GPU, the lane before it through the second
PipeStep ==
  /\ MayStep
  /\ LET formed == IF piped THEN lanes ELSE FormLanes
     IN  IF mid = -1
         THEN /\ Forward(formed[ReadyLane])
              /\ lanes' = formed
              /\ UNCHANGED <<active, slot, stop, produced, pending, busy, cancelled, told, wpc>>
         ELSE /\ Forward(active)
              /\ DeliverRound(lanes[mid], lanes[mid], {})
              /\ lanes' = [lanes EXCEPT ![mid] = @ \cap active']
              /\ wpc' = IF lanes'[mid] = {} THEN "step_drain" ELSE "main"
  /\ mid' = ReadyLane /\ piped' = TRUE
  /\ UNCHANGED <<sent, queue, quit, after, todo, head, chunks, failures>>

-----------------------------------------------------------------------------
Reader == (\E i \in Ids : ReadRequest(i) \/ ReadCancel(i)) \/ ReadQuit

Worker ==
  \/ TakeHead \/ Leave \/ PipeDrain \/ PipeFails
  \/ \E r \in Reqs : DrainOne(r) \/ DrainFails(r)
  \/ DrainEnd \/ Reset \/ Refuse \/ Admit \/ ReadChunk \/ BackToPrompt \/ EndRead \/ ReadFails
  \/ LookaheadRound \/ StartBatch \/ Batch \/ RoundFails \/ PipeStep

Next == Reader \/ Worker

Spec == Init /\ [][Next]_vars

\* The worker is a thread that only ever waits for the queue; the client owes nothing.
FairSpec == Spec /\ WF_vars(Worker)

-----------------------------------------------------------------------------
(* Properties *)

Answers == {"done", "error", "reset"}
Answered(i) == \E k \in DOMAIN told[i] : told[i][k] \in Answers

\* Two requests in flight never share a conversation slot, the one being read included.
SlotsExclusive == \A r, q \in InFlight : r # q => slot[r] # slot[q]

\* The lanes hold every request in flight once, and one of them is on its way, until the pipeline is
\* drained: no request is decoded twice in a step or forgotten.
LanesHold ==
  piped =>
    /\ lanes[0] \cup lanes[1] = active /\ lanes[0] \cap lanes[1] = {}
    /\ mid # -1 /\ lanes[mid] # {}
    /\ wpc = "main" => lanes[0] # {} /\ lanes[1] # {}

\* A prompt is read, and a batch or a lane runs, only with no window half done on the first GPU and
\* no lane on its way (la_drain; but for a request whose half-done window failed there).
HalfDoneAlone ==
  /\ wpc \in {"dispatch", "reading", "batch"} => pending \subseteq undrained /\ ~piped
  /\ piped => pending \subseteq undrained

\* The engine is used by one round, lane step or prompt read at a time, each request on a slot of its own.
EngineShared == TypeOK /\ SlotsExclusive /\ LanesHold /\ HalfDoneAlone

\* Each request is answered at most once, by one "done" or one "error" (serve/engine.py generate:
\* "prefill, tokens..., done (or error)"), and nothing follows the answer; but for a request whose
\* half-done window failed in la_drain, which stays in flight.
AnsweredOnce ==
  \A i \in Ids \ undrained : \A k \in DOMAIN told[i] : told[i][k] \in Answers => k = Len(told[i])

\* No tokens are sent after the stop token or the budget (deliver: "sends a round's tokens (up to a
\* stop token / the budget)").
NothingAfterStop == \A r \in Reqs : \A k \in DOMAIN told[r] : told[r][k] # "late"

\* The conversations in flight are never moved off the GPU to make room, the one whose prompt is being
\* read included (src/engine/engine.h, set_busy).
InFlightStay == moved = {}

\* Every request is answered, unless it was cancelled while it waited in the queue (the reader drops it
\* without a word) or the process ends.
Dropped(i) == i \in cancelled /\ i \notin ToSet(queue) \cup InFlight \cup {head}
EveryRequestAnswered == \A i \in Ids : i \in sent ~> Answered(i) \/ Dropped(i) \/ wpc = "exit"
=============================================================================
