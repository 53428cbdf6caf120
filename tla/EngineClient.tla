----------------------------- MODULE EngineClient -----------------------------
(***************************************************************************)
(* The HTTP server's client of the engine process (serve/engine.py).  Each *)
(* request is a thread in generate(): it waits its turn (as many run as    *)
(* the engine has slots), registers a queue, waits for a ready engine,     *)
(* sends itself, and reads its queue.  Two threads read every process's    *)
(* stdout and stderr; when a process that was ready ends, the stdout       *)
(* reader tells every registered queue and leaves a thread to start the    *)
(* next one.  A request told so before its first message is sent again,    *)
(* once, to another process.                                               *)
(*                                                                         *)
(* A process is numbered by its start.  It is "lost" once it has said on   *)
(* stderr that the GPU context is lost, "closed" once its pipes are, and   *)
(* "gone" once poll() sees its exit.                                       *)
(***************************************************************************)
EXTENDS Integers, Sequences, FiniteSets, SequencesExt

CONSTANTS
  Clients,    \* requests
  Slots,      \* slots(): requests the engine serves at once
  MaxProcs,   \* bound: processes started
  None

ASSUME ClientAssumption ==
  /\ Slots \in Nat \ {0} /\ MaxProcs \in Nat \ {0}
  /\ None \notin 1..MaxProcs

Procs == 1..MaxProcs

VARIABLES
  line, running, asleep,             \* _line, _running, the threads waiting on _turn
  pc, attempt, used, begun, q, told, \* generate(): begun is its `started'
  queues,                            \* the ids registered
  proc,                              \* self.proc
  state, inbox, out, ready, served,  \* per process: ready is its event
  reader, err,                       \* per process: the stdout reader; the line on stderr not yet read
  restarter, target                  \* per ended process: the thread starting the next, and the one it started

turn   == <<line, running, asleep>>
call   == <<pc, attempt, used, begun, q, told>>
engine == <<state, inbox, out>>
threads == <<ready, served, reader, err, restarter, target>>
vars == <<turn, call, queues, proc, engine, threads>>

\* An attempt has an id of its own.
Ids == Clients \X {0, 1}
Id(c) == <<c, attempt[c]>>

Message == [kind : {"tokens", "done", "error", "exited"}, from : Procs \cup {None}]

TypeOK ==
  /\ line \in Seq(Clients) /\ running \in 0..Slots /\ asleep \in SUBSET Clients
  /\ pc \in [Clients -> {"idle", "line", "register", "wait", "send", "get", "finally", "end"}]
  /\ attempt \in [Clients -> {0, 1}] /\ used \in [Clients -> Procs \cup {None}]
  /\ begun \in [Clients -> BOOLEAN]
  /\ q \in [Ids -> Seq(Message)] /\ told \in [Clients -> Seq(Message)]
  /\ queues \in SUBSET Ids
  /\ proc \in Procs
  /\ state \in [Procs -> {"none", "starting", "serving", "lost", "closed", "gone"}]
  /\ inbox \in [Procs -> SUBSET Ids]
  /\ ready \in [Procs -> BOOLEAN] /\ served \in [Procs -> BOOLEAN]
  /\ reader \in [Procs -> {"reading", "ended"}] /\ err \in [Procs -> {"quiet", "lost"}]
  /\ restarter \in [Procs -> {"none", "wait", "starting", "sleep"}]
  /\ target \in [Procs -> Procs \cup {None}]

\* main() accepts requests once the first process is ready.
Init ==
  /\ line = <<>> /\ running = 0 /\ asleep = {}
  /\ pc = [c \in Clients |-> "idle"] /\ attempt = [c \in Clients |-> 0]
  /\ used = [c \in Clients |-> None] /\ begun = [c \in Clients |-> FALSE]
  /\ q = [i \in Ids |-> <<>>] /\ told = [c \in Clients |-> <<>>]
  /\ queues = {}
  /\ proc = 1
  /\ state = [p \in Procs |-> IF p = 1 THEN "serving" ELSE "none"]
  /\ inbox = [p \in Procs |-> {}] /\ out = [p \in Procs |-> <<>>]
  /\ ready = [p \in Procs |-> p = 1] /\ served = [p \in Procs |-> p = 1]
  /\ reader = [p \in Procs |-> "reading"] /\ err = [p \in Procs |-> "quiet"]
  /\ restarter = [p \in Procs |-> "none"] /\ target = [p \in Procs |-> None]

Closed(p) == state[p] \in {"closed", "gone"}
Alive(p) == state[p] \notin {"none", "gone"}

-----------------------------------------------------------------------------
(* Turns *)

MyTurn(c, ln) == running < Slots /\ Head(ln) = c

\* _acquire's loop, under _turn's lock: its turn, or asleep until the next notify_all
Check(c, ln) ==
  IF MyTurn(c, ln)
  THEN /\ line' = Tail(ln) /\ running' = running + 1
       /\ pc' = [pc EXCEPT ![c] = "register"] /\ asleep' = asleep \ {c}
  ELSE /\ line' = ln /\ running' = running
       /\ pc' = [pc EXCEPT ![c] = "line"] /\ asleep' = asleep \cup {c}

Arrive(c) ==
  /\ pc[c] = "idle"
  /\ Check(c, Append(line, c))
  /\ UNCHANGED <<attempt, used, begun, q, told, queues, proc, engine, threads>>

Woken(c) ==
  /\ pc[c] = "line" /\ c \notin asleep
  /\ Check(c, line)
  /\ UNCHANGED <<attempt, used, begun, q, told, queues, proc, engine, threads>>

Release == running' = running - 1 /\ asleep' = {}

-----------------------------------------------------------------------------
(* generate() *)

Goto(c, l) == pc' = [pc EXCEPT ![c] = l]
Tell(c, m) == told' = [told EXCEPT ![c] = Append(@, m)]

\* An EngineError raised in the server itself
Failure == [kind |-> "error", from |-> None]

Register(c) ==
  /\ pc[c] = "register"
  /\ queues' = queues \cup {Id(c)}
  /\ Goto(c, "wait")
  /\ UNCHANGED <<turn, attempt, used, begun, q, told, proc, engine, threads>>

\* _wait_engine's test: a process other than the one that failed, running and ready
EngineUp(c) == proc # used[c] /\ Alive(proc) /\ ready[proc]

Engaged(c) ==
  /\ pc[c] = "wait" /\ EngineUp(c)
  /\ used' = [used EXCEPT ![c] = proc]
  /\ Goto(c, "send")
  /\ UNCHANGED <<turn, attempt, begun, q, told, queues, proc, engine, threads>>

\* 900 s without one
WaitTimeout(c) ==
  /\ pc[c] = "wait" /\ ~EngineUp(c)
  /\ Tell(c, Failure) /\ Goto(c, "finally")
  /\ UNCHANGED <<turn, attempt, used, begun, q, queues, proc, engine, threads>>

Send(c) ==
  /\ pc[c] = "send" /\ ~Closed(proc)
  /\ inbox' = [inbox EXCEPT ![proc] = @ \cup {Id(c)}]
  /\ Goto(c, "get")
  /\ UNCHANGED <<turn, attempt, used, begun, q, told, queues, proc, state, out, threads>>

\* poll() says it exited, or its pipe is broken.  The first attempt's queue stays registered.
SendFails(c) ==
  /\ pc[c] = "send" /\ Closed(proc)
  /\ IF attempt[c] = 0
     THEN attempt' = [attempt EXCEPT ![c] = 1] /\ Goto(c, "register") /\ UNCHANGED told
     ELSE Tell(c, Failure) /\ Goto(c, "finally") /\ UNCHANGED attempt
  /\ UNCHANGED <<turn, used, begun, q, queues, proc, engine, threads>>

\* mutant: a request is sent again although its answer has begun
AgainAnyway(c, m) == m.kind = "exited" /\ attempt[c] = 0

Again(c, m) == m.kind = "exited" /\ attempt[c] = 0 /\ ~begun[c]

\* "done" or "error", which the end of a process is a kind of
EndsCall(m) == m.kind # "tokens"

\* a message; the caller may give the generator up instead of asking for the next
Get(c) ==
  /\ pc[c] = "get" /\ q[Id(c)] # <<>>
  /\ LET m == Head(q[Id(c)])
     IN  IF Again(c, m)
         THEN /\ queues' = queues \ {Id(c)} /\ q' = [q EXCEPT ![Id(c)] = <<>>]
              /\ attempt' = [attempt EXCEPT ![c] = 1] /\ Goto(c, "register")
              /\ UNCHANGED <<begun, told>>
         ELSE /\ begun' = [begun EXCEPT ![c] = TRUE] /\ Tell(c, m)
              /\ \/ ~EndsCall(m) /\ Goto(c, "get")
                 \/ Goto(c, "finally")
              /\ q' = [q EXCEPT ![Id(c)] = Tail(@)]
              /\ UNCHANGED <<queues, attempt>>
  /\ UNCHANGED <<turn, used, proc, engine, threads>>

\* The call's locals go with it; what the process still writes for the id is dropped by its reader.
Finally(c) ==
  /\ pc[c] = "finally"
  /\ Release /\ UNCHANGED line
  /\ queues' = queues \ {Id(c)} /\ q' = [q EXCEPT ![Id(c)] = <<>>]
  /\ inbox' = [p \in Procs |-> inbox[p] \ {Id(c)}]
  /\ Goto(c, "end")
  /\ attempt' = [attempt EXCEPT ![c] = 0] /\ used' = [used EXCEPT ![c] = None]
  /\ begun' = [begun EXCEPT ![c] = FALSE] /\ told' = [told EXCEPT ![c] = <<>>]
  /\ UNCHANGED <<proc, state, out, threads>>

-----------------------------------------------------------------------------
(* The process, as src/server/serve.cpp behaves towards its pipes *)

Proc(p, s) == state' = [state EXCEPT ![p] = s]
Write(p, i, m) == out' = [out EXCEPT ![p] = Append(@, [id |-> i, kind |-> m])]

Ready(p) ==
  /\ state[p] = "starting"
  /\ Proc(p, "serving") /\ Write(p, None, "ready")
  /\ UNCHANGED <<turn, call, queues, proc, inbox, threads>>

\* the process's messages for i on their way to generate()
Pending(p, i) == q[i] # <<>> \/ \E k \in DOMAIN out[p] : out[p][k].id = i

\* tokens, once and to a call that still waits, and in the end the answer
Answer(p, i) ==
  /\ state[p] = "serving" /\ i \in inbox[p]
  /\ \/ i \in queues /\ ~Pending(p, i) /\ ~begun[i[1]] /\ Write(p, i, "tokens") /\ UNCHANGED inbox
     \/ Write(p, i, "done") /\ inbox' = [inbox EXCEPT ![p] = @ \ {i}]
  /\ UNCHANGED <<turn, call, queues, proc, state, threads>>

\* exit_if_gpu_lost prints, then exits
Lose(p) ==
  /\ state[p] = "serving"
  /\ Proc(p, "lost") /\ err' = [err EXCEPT ![p] = "lost"]
  /\ UNCHANGED <<turn, call, queues, proc, inbox, out, ready, served, reader, restarter, target>>

Close(p) ==
  /\ state[p] \in {"starting", "serving", "lost"}
  /\ Proc(p, "closed") /\ inbox' = [inbox EXCEPT ![p] = {}]
  /\ UNCHANGED <<turn, call, queues, proc, out, threads>>

Exit(p) ==
  /\ state[p] = "closed"
  /\ Proc(p, "gone")
  /\ UNCHANGED <<turn, call, queues, proc, inbox, out, threads>>

-----------------------------------------------------------------------------
(* The readers *)

SetReady(p, b) == ready' = [ready EXCEPT ![p] = b]

ReadLine(p) ==
  /\ reader[p] = "reading" /\ out[p] # <<>>
  /\ LET m == Head(out[p])
     IN  IF m.kind = "ready"
         THEN SetReady(p, TRUE) /\ served' = [served EXCEPT ![p] = TRUE] /\ UNCHANGED q
         ELSE /\ q' = IF m.id \in queues THEN [q EXCEPT ![m.id] = Append(@, [kind |-> m.kind, from |-> p])] ELSE q
              /\ UNCHANGED <<ready, served>>
  /\ out' = [out EXCEPT ![p] = Tail(@)]
  /\ UNCHANGED <<turn, pc, attempt, used, begun, told, queues, proc, state, inbox, reader, err, restarter, target>>

\* mutant: the readers of a process that ends tell nobody
TellNobody(p) == UNCHANGED q

\* the end of a process's output goes to every registered queue, whichever process its request is for
TellEveryone(p) ==
  q' = [i \in Ids |-> IF i \in queues THEN Append(q[i], [kind |-> "exited", from |-> p]) ELSE q[i]]

ReadEnd(p) ==
  /\ reader[p] = "reading" /\ out[p] = <<>> /\ Closed(p)
  /\ SetReady(p, TRUE)
  /\ TellEveryone(p)
  /\ restarter' = IF served[p] THEN [restarter EXCEPT ![p] = "wait"] ELSE restarter
  /\ reader' = [reader EXCEPT ![p] = "ended"]
  /\ UNCHANGED <<turn, pc, attempt, used, begun, told, queues, proc, engine, served, err, target>>

ReadErr(p) ==
  /\ \/ err[p] = "lost" /\ SetReady(p, FALSE) /\ err' = [err EXCEPT ![p] = "quiet"]
     \/ err[p] = "quiet" /\ Closed(p) /\ ~ready[p] /\ SetReady(p, TRUE) /\ UNCHANGED err
  /\ UNCHANGED <<turn, call, queues, proc, engine, served, reader, restarter, target>>

-----------------------------------------------------------------------------
(* Restarts *)

Fresh == {p \in Procs : state[p] = "none"}

Restarter(p, s) == restarter' = [restarter EXCEPT ![p] = s]

\* start(): a process with a readiness of its own
StartNext(p) ==
  /\ restarter[p] = "sleep" \/ (restarter[p] = "wait" /\ state[p] = "gone")
  /\ Fresh # {}
  /\ proc' = Min(Fresh) /\ Proc(proc', "starting")
  /\ Restarter(p, "starting") /\ target' = [target EXCEPT ![p] = proc']
  /\ UNCHANGED <<turn, call, queues, inbox, out, ready, served, reader, err>>

Started(p) ==
  /\ restarter[p] = "starting" /\ ready[target[p]] /\ served[target[p]]
  /\ Restarter(p, "none")
  /\ target' = [target EXCEPT ![p] = None]
  /\ UNCHANGED <<turn, call, queues, proc, engine, ready, served, reader, err>>

\* it ended without a ready message, or 900 s are over and it is killed
StartFails(p) ==
  /\ restarter[p] = "starting"
  /\ \/ ready[target[p]] /\ ~served[target[p]] /\ state[target[p]] = "gone" /\ UNCHANGED state
     \/ ~ready[target[p]] /\ Proc(target[p], "closed")
  /\ Restarter(p, "sleep")
  /\ UNCHANGED <<turn, call, queues, proc, inbox, out, ready, served, reader, err, target>>

-----------------------------------------------------------------------------
Client(c) ==
  \/ Arrive(c) \/ Woken(c) \/ Register(c) \/ Engaged(c) \/ WaitTimeout(c)
  \/ Send(c) \/ SendFails(c) \/ Get(c) \/ Finally(c)

Process(p) == Ready(p) \/ (\E i \in Ids : Answer(p, i)) \/ Lose(p) \/ Close(p) \/ Exit(p)
Readers(p) == ReadLine(p) \/ ReadEnd(p) \/ ReadErr(p)
Restarts(p) == StartNext(p) \/ Started(p) \/ StartFails(p)

Next ==
  \/ \E c \in Clients : Client(c)
  \/ \E p \in Procs : Process(p) \/ Readers(p) \/ Restarts(p)

Spec == Init /\ [][Next]_vars

\* Threads are scheduled; an engine that serves answers what it was sent (ServeLoop's EveryRequestAnswered),
\* one that is lost or closed ends.  One condition for all is enough: there is no cycle of such steps.
Work ==
  \/ \E c \in Clients : pc[c] # "idle" /\ Client(c)
  \/ \E p \in Procs : \/ Readers(p) \/ Restarts(p) \/ Ready(p) \/ (\E i \in Ids : Answer(p, i))
                      \/ state[p] # "serving" /\ (Close(p) \/ Exit(p))

FairSpec == Spec /\ WF_vars(Work)

-----------------------------------------------------------------------------
(* Properties *)

Holding == {c \in Clients : pc[c] \in {"register", "wait", "send", "get", "finally"}}

\* "up to slots() generations at once": the count is exactly the requests that hold a turn, so that no failed,
\* retried or abandoned request keeps one, or gives one back twice.
RunningExact == running = Cardinality(Holding) /\ running <= Slots

\* What a caller is given comes from one engine process: an answer that has begun is never continued by the
\* process that replaces the one it came from.
OneEngineAnswers ==
  \A c \in Clients : \A j, k \in DOMAIN told[c] :
    {told[c][j].kind, told[c][k].kind} \subseteq {"tokens", "done"} => told[c][j].from = told[c][k].from

\* The answer ends once: nothing is told after "done", "error" or the end of the process.
AnswerEndsOnce ==
  \A c \in Clients : \A k \in DOMAIN told[c] : told[c][k].kind # "tokens" => k = Len(told[c])

\* A call holds one turn while it lasts and is given one answer, from one process, with one end.
OneTurnOneAnswer == TypeOK /\ RunningExact /\ OneEngineAnswers /\ AnswerEndsOnce

\* Every call ends, whatever the processes do: no thread waits for a message that never comes, or for a turn.
CallEnds == \A c \in Clients : pc[c] = "line" ~> pc[c] = "end"

\* A request turns to another process only when the one it was sent to has ended ("A request the engine took
\* but had not started when it died goes to the engine that replaces it").
RetriesOnlyTheDead == \A c \in Clients : pc[c] = "wait" /\ used[c] # None => Closed(used[c])
=============================================================================
