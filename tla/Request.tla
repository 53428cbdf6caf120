------------------------------ MODULE Request ------------------------------
(***************************************************************************)
(* What the HTTP server does with a request (run() of serve/server.py): it *)
(* finds the conversation the request continues (serve/conversations.py),  *)
(* asks the engine, passes the tokens on, and stops or interrupts the      *)
(* engine's answer: at a stop string, when the answer or the reasoning     *)
(* loops (serve/loop_guard.py), or when its time slice is up and others    *)
(* wait.  An interrupted answer is asked for again, from everything        *)
(* generated so far.  A cancel and the engine's events cross: tokens and   *)
(* even the end of the answer may be on their way when it is sent.         *)
(*                                                                         *)
(* A prompt is the dialogue it belongs to and how many turns of it it has. *)
(* How generate() waits for its turn and survives the engine's restarts is *)
(* EngineClient's; here the engine serves, or fails a request.             *)
(***************************************************************************)
EXTENDS Integers, Sequences, FiniteSets, SequencesExt

CONSTANTS
  Requests,              \* HTTP requests, a thread each
  Dialogue, Turn,        \* per request: the dialogue of its prompt and its turns
  Slots,                 \* slots(): requests the engine serves at once
  MaxTokens,             \* per request: its max_tokens
  MaxConvs,              \* MAX_CONVERSATIONS
  None

ASSUME RequestAssumption ==
  /\ IsFiniteSet(Requests) /\ Turn \in [Requests -> Nat \ {0}] /\ DOMAIN Dialogue = Requests
  /\ Slots \in Nat \ {0} /\ MaxTokens \in [Requests -> Nat \ {0}] /\ MaxConvs \in Nat \ {0}
  /\ None \notin {"stop", "loop", "length", "yield", "cancel"}

VARIABLES
  pc, outcome,           \* run(); the outcome of stream()
  generated, stopped,    \* tokens so far; a stop string was found
  guarded,               \* allow_guard
  counted, waiting,      \* counted in S.waiting; S.waiting
  cid, convs, nextId,    \* the request's conversation (0: none); the register, least recently asked first; next_id
  line, running,         \* Engine._line and _running
  engine, events,        \* per request: the engine's side of what was asked last; its events not yet read
  heard, wrapped         \* history: the prompt's event of what was asked last has come; that was the answer
                         \* behind a wrap-up

run     == <<outcome, generated, stopped, guarded, cid>>
convVars == <<convs, nextId>>
asked    == <<heard, wrapped>>
vars == <<pc, run, counted, waiting, convVars, line, running, engine, events, asked>>

TypeOK ==
  /\ pc \in [Requests -> {"new", "ask", "line", "events", "decide", "last", "ended"}]
  /\ outcome \in [Requests -> {None, "stop", "loop", "length", "yield", "cancel"}]
  /\ generated \in [Requests -> Nat]
  /\ stopped \in [Requests -> BOOLEAN] /\ guarded \in [Requests -> BOOLEAN]
  /\ counted \in [Requests -> BOOLEAN] /\ waiting \in Nat
  /\ heard \in [Requests -> BOOLEAN] /\ wrapped \in [Requests -> BOOLEAN]
  /\ cid \in [Requests -> Nat] /\ Len(convs) <= MaxConvs
  /\ \A i \in DOMAIN convs : convs[i].status \in {"idle", "queued", "reading", "generating"} /\ convs[i].id < nextId
  /\ line \in Seq(Requests) /\ running \in 0..Slots
  /\ \A r \in Requests : engine[r].st \in {"none", "queued", "generating"} /\ engine[r].left \in 0..MaxTokens[r]

Init ==
  /\ pc = [r \in Requests |-> "new"] /\ outcome = [r \in Requests |-> None]
  /\ generated = [r \in Requests |-> 0] /\ cid = generated
  /\ stopped = [r \in Requests |-> FALSE] /\ counted = stopped /\ heard = stopped /\ wrapped = stopped
  /\ guarded = [r \in Requests |-> TRUE]
  /\ waiting = 0 /\ convs = <<>> /\ nextId = 1 /\ line = <<>> /\ running = 0
  /\ engine = [r \in Requests |-> [st |-> "none", left |-> 0, cancelled |-> FALSE]]
  /\ events = [r \in Requests |-> <<>>]

-----------------------------------------------------------------------------
(* Conversations *)

\* _common(c.tokens, prompt) reaches the start of c's last turn: the prompt has all turns before it
Continues(c, r) == c.dlg = Dialogue[r] /\ Turn[r] >= c.turn

\* mutant of begin's test: a conversation that is in use may be continued
CandidatesAny(r) == {i \in DOMAIN convs : Continues(convs[i], r)}

\* a conversation has one request at a time
Candidates(r) == {i \in DOMAIN convs : convs[i].status = "idle" /\ Continues(convs[i], r)}

\* the longest shared prefix, the first of them
BestOf(is) == CHOOSE i \in is : \A j \in is : convs[j].turn < convs[i].turn \/ (convs[j].turn = convs[i].turn /\ i <= j)

\* the least recently asked go while there are more than MaxConvs
Bounded(cs) == SubSeq(cs, Len(cs) - (IF Len(cs) > MaxConvs THEN MaxConvs ELSE Len(cs)) + 1, Len(cs))

\* Conversations.begin
BeginConversation(r) ==
  LET best == Candidates(r)
      id   == IF best = {} THEN nextId ELSE convs[BestOf(best)].id
      rest == IF best = {} THEN convs ELSE RemoveAt(convs, BestOf(best))
  IN  /\ convs' = Bounded(Append(rest, [id |-> id, dlg |-> Dialogue[r], turn |-> Turn[r], status |-> "queued"]))
      /\ cid' = [cid EXCEPT ![r] = id]
      /\ nextId' = IF best = {} THEN nextId + 1 ELSE nextId

\* Conversations.status: a conversation no longer in the register is passed over
Status(r, status) ==
  /\ convs' = [i \in DOMAIN convs |-> IF convs[i].id = cid[r] THEN [convs[i] EXCEPT !.status = status] ELSE convs[i]]
  /\ UNCHANGED nextId

-----------------------------------------------------------------------------
(* run() *)

Goto(r, l) == pc' = [pc EXCEPT ![r] = l]

\* a request is read into a thread of its own
Begin(r) ==
  /\ pc[r] = "new" /\ Goto(r, "ask")
  /\ BeginConversation(r)
  /\ waiting' = waiting + 1 /\ counted' = [counted EXCEPT ![r] = TRUE]
  /\ UNCHANGED <<outcome, generated, stopped, guarded, line, running, engine, events, asked>>

\* stream(): generate() puts it in line
Ask(r) ==
  /\ pc[r] = "ask" /\ Goto(r, "line")
  /\ line' = Append(line, r)
  /\ outcome' = [outcome EXCEPT ![r] = None]
  /\ UNCHANGED <<generated, stopped, guarded, cid, counted, waiting, convVars, running, engine, events, asked>>

\* what is left of max_tokens
Room(r) == MaxTokens[r] - generated[r]

\* its turn: on_start, and the request is sent
Start(r) ==
  /\ pc[r] = "line" /\ running < Slots /\ Head(line) = r
  /\ Goto(r, "events") /\ line' = Tail(line) /\ running' = running + 1
  /\ engine' = [engine EXCEPT ![r] = [st |-> "queued", left |-> Room(r), cancelled |-> FALSE]]
  /\ Status(r, "reading") /\ heard' = [heard EXCEPT ![r] = FALSE]
  /\ UNCHANGED <<run, counted, waiting, events, wrapped>>

NextEvent(r, type) == pc[r] = "events" /\ events[r] # <<>> /\ Head(events[r]).type = type

\* Engine.cancel: passed over for a request that has ended
Cancelled(r) == [engine EXCEPT ![r].cancelled = engine[r].st # "none"]

\* cancelled and left: what the engine still says of it goes nowhere
Abandoned(r) == [engine EXCEPT ![r] = [st |-> "none", left |-> 0, cancelled |-> FALSE]]

\* mutant of the prompt's event: counted is left set
Counts(r) == UNCHANGED <<counted, waiting>>

\* the request is no longer waiting
Uncount(r) ==
  /\ waiting' = IF counted[r] THEN waiting - 1 ELSE waiting
  /\ counted' = [counted EXCEPT ![r] = FALSE]

Prefilled(r) ==
  /\ NextEvent(r, "prefill")
  /\ events' = [events EXCEPT ![r] = Tail(@)]
  /\ Uncount(r) /\ Status(r, "generating") /\ heard' = [heard EXCEPT ![r] = TRUE]
  /\ UNCHANGED <<pc, run, line, running, engine, wrapped>>

\* mutant: a stop string does not replace an outcome that is there already
StopKeeps(o) == IF o = None THEN "stop" ELSE o

\* a stop string ends the request whatever it was cancelled for
StopFor(o) == "stop"

\* What a token may turn out to be, each with the outcome it leaves: nothing of note; the end of a stop string; the
\* answer repeats itself; the reasoning repeats itself, and a sentence ends (or 48 tokens have gone by) since it does;
\* the slice is up while others wait.
Found(r, o) ==
  \/ o = outcome[r] /\ UNCHANGED stopped
  \/ o = StopFor(outcome[r]) /\ stopped' = [stopped EXCEPT ![r] = TRUE]
  \/ /\ outcome[r] = None /\ UNCHANGED stopped
     /\ o = "length" \/ (o = "loop" /\ guarded[r]) \/ (o = "yield" /\ line # <<>>)

\* tokens after a stop string are dropped
Tokens(r) ==
  /\ NextEvent(r, "tokens")
  /\ events' = [events EXCEPT ![r] = Tail(@)]
  /\ IF stopped[r] THEN UNCHANGED <<run, engine>>
     ELSE \E o \in {None, "stop", "length", "loop", "yield", "cancel"} :
            /\ Found(r, o)
            /\ generated' = [generated EXCEPT ![r] = @ + 1]
            /\ outcome' = [outcome EXCEPT ![r] = o]
            /\ engine' = IF o # outcome[r] \/ stopped'[r] THEN Cancelled(r) ELSE engine
            /\ UNCHANGED <<guarded, cid>>
  /\ UNCHANGED <<pc, counted, waiting, convVars, line, running, asked>>

\* mutant of generate()'s end: the turn is kept
KeepTurn == UNCHANGED running

\* generate() has ended, or its reader has left it: its turn is free
GiveTurn == running' = running - 1

\* the answer has ended: generate() gives the turn up
Done(r) ==
  /\ NextEvent(r, "done")
  /\ outcome' = [outcome EXCEPT ![r] = IF @ = None THEN Head(events[r]).reason ELSE @]
  /\ events' = [events EXCEPT ![r] = Tail(@)] /\ GiveTurn
  /\ Goto(r, "decide")
  /\ UNCHANGED <<generated, stopped, guarded, cid, counted, waiting, convVars, line, engine, asked>>

\* the slice was up with tokens left
GoOn(r) == outcome[r] = "yield" /\ generated[r] < MaxTokens[r]

\* queued again behind the others
Yield(r) ==
  /\ pc[r] = "decide" /\ GoOn(r) /\ Goto(r, "ask")
  /\ Status(r, "queued")
  /\ waiting' = waiting + 1 /\ counted' = [counted EXCEPT ![r] = TRUE]
  /\ wrapped' = [wrapped EXCEPT ![r] = FALSE]
  /\ UNCHANGED <<run, line, running, engine, events, heard>>

\* run() returns or throws: its variables are gone
Return(r) ==
  /\ Goto(r, "ended")
  /\ outcome' = [outcome EXCEPT ![r] = None] /\ generated' = [generated EXCEPT ![r] = 0]
  /\ stopped' = [stopped EXCEPT ![r] = FALSE] /\ guarded' = [guarded EXCEPT ![r] = TRUE]
  /\ cid' = [cid EXCEPT ![r] = 0]
  /\ heard' = [heard EXCEPT ![r] = FALSE] /\ wrapped' = [wrapped EXCEPT ![r] = FALSE]

\* the reasoning is closed with a wrap-up, and the answer written in the room left: queued again, and not counted
WrapUp(r) ==
  /\ pc[r] = "decide" /\ outcome[r] = "loop" /\ Room(r) > 0 /\ Goto(r, "ask")
  /\ guarded' = [guarded EXCEPT ![r] = FALSE] /\ wrapped' = [wrapped EXCEPT ![r] = TRUE]
  /\ UNCHANGED <<outcome, generated, stopped, cid, counted, waiting, convVars, line, running, engine, events, heard>>

\* its turn comes, and the engine is not running
StartFails(r) ==
  /\ pc[r] = "line" /\ running < Slots /\ Head(line) = r
  /\ Return(r) /\ line' = Tail(line)
  /\ Uncount(r) /\ Status(r, "idle")
  /\ UNCHANGED <<running, engine, events>>

\* passing the wrap-up on throws: the client has left
WrapUpFails(r) ==
  /\ pc[r] = "decide" /\ outcome[r] = "loop" /\ Return(r)
  /\ Uncount(r) /\ Status(r, "idle")
  /\ UNCHANGED <<line, running, engine, events>>

\* the loop ends; `finally'
Break(r) ==
  /\ pc[r] = "decide" /\ ~GoOn(r) /\ ~(outcome[r] = "loop" /\ Room(r) > 0) /\ Goto(r, "last")
  /\ Uncount(r)
  /\ UNCHANGED <<run, convVars, line, running, engine, events, asked>>

\* what was held back is passed on, and Conversations.end
PassRest(r) ==
  /\ pc[r] = "last" /\ Return(r)
  /\ Status(r, "idle")
  /\ UNCHANGED <<counted, waiting, line, running, engine, events>>

\* the client has left, and passing that on throws
PassRestFails(r) ==
  /\ pc[r] = "last" /\ Return(r)
  /\ UNCHANGED <<counted, waiting, convVars, line, running, engine, events>>

\* `except' and `finally': the engine fails the request, or the client has left and passing a token on throws
Fail(r) ==
  /\ NextEvent(r, "error") \/ NextEvent(r, "tokens")
  /\ Return(r) /\ GiveTurn
  /\ events' = [events EXCEPT ![r] = <<>>] /\ engine' = Abandoned(r)
  /\ Uncount(r) /\ Status(r, "idle")
  /\ UNCHANGED line

-----------------------------------------------------------------------------
(* The engine process *)

Say(r, evs) == events' = [events EXCEPT ![r] = @ \o evs]
Event(type) == [type |-> type, reason |-> None]
DoneFor(reason) == [type |-> "done", reason |-> reason]
EngineSt(r, st, left) ==
  engine' = [engine EXCEPT ![r] = [st |-> st, left |-> left, cancelled |-> @.cancelled /\ st # "none"]]

OfHandler == <<pc, run, counted, waiting, convVars, line, running, asked>>

Read(r) ==
  /\ engine[r].st = "queued"
  /\ EngineSt(r, "generating", engine[r].left) /\ Say(r, <<Event("prefill")>>)
  /\ UNCHANGED OfHandler

\* a round of one token, and deliver(): it goes on, or it was the last it may have, or a cancel is there
Round(r) ==
  /\ engine[r].st = "generating"
  /\ LET left == engine[r].left - 1 IN
       CASE left = 0 -> EngineSt(r, "none", 0) /\ Say(r, <<Event("tokens"), DoneFor("length")>>)
         [] left > 0 /\ engine[r].cancelled -> EngineSt(r, "none", 0) /\ Say(r, <<Event("tokens"), DoneFor("cancel")>>)
         [] OTHER -> EngineSt(r, "generating", left) /\ Say(r, <<Event("tokens")>>)
  /\ UNCHANGED OfHandler

\* the model ends its answer
Stop(r) ==
  /\ engine[r].st = "generating"
  /\ EngineSt(r, "none", 0) /\ Say(r, <<DoneFor("stop")>>)
  /\ UNCHANGED OfHandler

Broken(r) ==
  /\ engine[r].st # "none"
  /\ EngineSt(r, "none", 0) /\ Say(r, <<Event("error")>>)
  /\ UNCHANGED OfHandler

Handler(r) == Begin(r) \/ Ask(r) \/ Start(r) \/ StartFails(r) \/ Prefilled(r) \/ Tokens(r) \/ Done(r) \/ Yield(r) \/ WrapUp(r) \/ WrapUpFails(r) \/ Break(r)
              \/ PassRest(r) \/ PassRestFails(r) \/ Fail(r)
Engine(r)  == Read(r) \/ Round(r) \/ Stop(r) \/ Broken(r)

Next == \E r \in Requests : Handler(r) \/ Engine(r)

\* Every thread goes on, and the engine serves what it took.
Spec == Init /\ [][Next]_vars /\ \A r \in Requests : WF_vars(Handler(r)) /\ WF_vars(Engine(r))

-----------------------------------------------------------------------------
(* Properties *)

InFlight(r) == pc[r] \notin {"new", "ended"}

\* However often an answer is interrupted and gone on with, and whatever was on its way when it was, no request
\* gets more than max_tokens tokens, and none is asked for with no room left.
BudgetKept == \A r \in Requests : generated[r] <= MaxTokens[r] /\ (pc[r] \in {"ask", "line"} => generated[r] < MaxTokens[r])

\* What the request asked for last is yet to be read by the engine, as far as run() has heard.
ToBeRead(r) == pc[r] \in {"ask", "line"} \/ (pc[r] = "events" /\ ~heard[r])

\* S.waiting, which the dashboard shows, is the number of requests that wait to be read: those that have just come
\* and those whose slice was up, until the prompt's event comes, whichever way the others went (answered, sliced,
\* failed or left).  The code leaves one kind out: an answer asked for behind a wrap-up queues again uncounted.
WaitingExact == TypeOK /\ waiting = Cardinality({r \in Requests : ToBeRead(r) /\ ~wrapped[r]})

\* Two requests in flight never belong to one conversation, and what the register calls idle is not in use.
ConversationsApart ==
  \A r \in Requests : InFlight(r) =>
    /\ \A s \in Requests : InFlight(s) /\ cid[s] = cid[r] => s = r
    /\ \A i \in DOMAIN convs : convs[i].id = cid[r] => convs[i].status # "idle"

\* A request that met a stop string is never gone on with, whatever it had been cancelled for before.
StopIsFinal == \A r \in Requests : stopped[r] => pc[r] \notin {"ask", "line"}

\* An answer that was cut goes on only while it may: within its budget, and never past a stop string.
AnswerBounded == BudgetKept /\ StopIsFinal

\* Every request ends: slices cannot make it go round for ever.
EveryRequestEnds == <>(\A r \in Requests : pc[r] = "ended")

\* A conversation that is not idle has a request in flight: a failed or cancelled request leaves it free.
ConversationsFreed ==
  \A i \in DOMAIN convs : convs[i].status # "idle" => \E r \in Requests : InFlight(r) /\ cid[r] = convs[i].id
=============================================================================
