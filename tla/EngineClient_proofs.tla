-------------------------- MODULE EngineClient_proofs --------------------------
(* Proofs about the client of the engine, for any number of requests, slots and processes.           *)
EXTENDS EngineClient, FiniteSetTheorems, SequenceTheorems, WellFoundedInduction, TLAPS

Line == [id : Ids \cup {None}, kind : {"ready", "tokens", "done"}]

\* What the processes write is what serve.cpp emits.
OutTyped == out \in [Procs -> Seq(Line)]

\* A request that waits for its turn is in line.
InLine == \A c \in Clients : pc[c] = "line" => \E k \in DOMAIN line : line[k] = c

TurnsCounted == IsFiniteSet(Holding) /\ RunningExact

\* Nothing is told before a request is sent, and nothing but tokens before its end.
Before == {"idle", "line", "register", "wait", "send"}
Untold ==
  \A c \in Clients :
    /\ pc[c] \in Before \/ (pc[c] = "get" /\ ~begun[c]) => told[c] = <<>> /\ ~begun[c]
    /\ pc[c] # "finally" => \A k \in DOMAIN told[c] : told[c][k].kind = "tokens"

\* Process p has to do with id i: it was sent there, or something said of it comes from there.
Said(m, p) == m.kind \in {"tokens", "done"} /\ m.from = p
Trace(i, p) ==
  \/ p \in Procs /\ i \in inbox[p]
  \/ p \in Procs /\ \E k \in DOMAIN out[p] : out[p][k].id = i /\ out[p][k].kind # "ready"
  \/ \E k \in DOMAIN q[i] : Said(q[i][k], p)
  \/ i[2] = attempt[i[1]] /\ \E k \in DOMAIN told[i[1]] : Said(told[i[1]][k], p)

Origins == Procs \cup {None}
OneOrigin == \A i \in Ids : \A p, r \in Origins : Trace(i, p) /\ Trace(i, r) => p = r

Unsent(i) ==
  \/ i[2] > attempt[i[1]] /\ pc[i[1]] # "end"
  \/ i[2] = attempt[i[1]] /\ pc[i[1]] \in Before
NotSentYet == \A i \in Ids : Unsent(i) => \A p \in Origins : ~Trace(i, p)

IInv ==
  /\ TypeOK /\ OutTyped /\ InLine /\ TurnsCounted
  /\ Untold /\ AnswerEndsOnce /\ OneOrigin /\ NotSentYet
-----------------------------------------------------------------------------
(* Sequences and the least of the processes not started *)

LEMMA Appended ==
  ASSUME NEW S, NEW s \in Seq(S), NEW e \in S
  PROVE  /\ Append(s, e) \in Seq(S) /\ Len(Append(s, e)) = Len(s) + 1 /\ Append(s, e)[Len(s) + 1] = e
         /\ DOMAIN s = 1..Len(s) /\ Len(s) \in Nat /\ DOMAIN Append(s, e) = 1..Len(s) + 1
         /\ \A k \in DOMAIN s : k \in DOMAIN Append(s, e) /\ Append(s, e)[k] = s[k]
         /\ \A k \in DOMAIN Append(s, e) : k = Len(s) + 1 \/ k \in DOMAIN s
<1>1. /\ Append(s, e) \in Seq(S) /\ Len(Append(s, e)) = Len(s) + 1 /\ Append(s, e)[Len(s) + 1] = e
      /\ \A k \in 1..Len(s) : Append(s, e)[k] = s[k]
  BY AppendProperties
<1>2. DOMAIN s = 1..Len(s) /\ Len(s) \in Nat /\ DOMAIN Append(s, e) = 1..Len(Append(s, e))
  BY <1>1, LenProperties
<1> QED
  BY <1>1, <1>2

LEMMA HeadAndTail ==
  ASSUME NEW S, NEW s \in Seq(S), s # <<>>
  PROVE  /\ 1 \in DOMAIN s /\ Head(s) = s[1] /\ Head(s) \in S /\ Tail(s) \in Seq(S)
         /\ \A k \in DOMAIN Tail(s) : k + 1 \in DOMAIN s /\ Tail(s)[k] = s[k + 1]
         /\ \A k \in DOMAIN s : k # 1 => k - 1 \in DOMAIN Tail(s) /\ Tail(s)[k - 1] = s[k]
<1>1. /\ Head(s) \in S /\ Tail(s) \in Seq(S) /\ Len(Tail(s)) = Len(s) - 1
      /\ \A k \in 1..Len(Tail(s)) : Tail(s)[k] = s[k + 1]
  BY HeadTailProperties
<1>2. DOMAIN s = 1..Len(s) /\ Len(s) \in Nat \ {0} /\ DOMAIN Tail(s) = 1..Len(Tail(s))
  BY <1>1, LenProperties, EmptySeq
<1> QED
  BY <1>1, <1>2

LEMMA LeastProcess ==
  ASSUME NEW T \in SUBSET Procs, T # {}
  PROVE  Min(T) \in T
<1>1. T \subseteq Nat
  BY ClientAssumption DEF Procs
<1>2. PICK x \in T : \A y \in T : <<y, x>> \notin OpToRel(<, Nat)
  BY <1>1, NatLessThanWellFounded, WFMin
<1>3. \A y \in T : x <= y
  <2> TAKE y \in T
  <2>1. <<y, x>> \in Nat \X Nat /\ x \in Nat /\ y \in Nat
    BY <1>1
  <2>2. ~(y < x)
    BY <1>2, <2>1 DEF OpToRel
  <2> QED
    BY <2>1, <2>2
<1> QED
  BY <1>3 DEF Min

-----------------------------------------------------------------------------
(* What most steps leave alone *)

\* The calls, but for what is still in their queues.
CallsStill == UNCHANGED <<line, running, pc, attempt, begun, told>>

LEMMA CallsKept ==
  ASSUME IInv, CallsStill
  PROVE  /\ InLine' /\ TurnsCounted' /\ Untold' /\ AnswerEndsOnce'
         /\ \A i \in Ids : Unsent(i)' => Unsent(i)
BY DEF IInv, CallsStill, InLine, TurnsCounted, RunningExact, Holding, Untold, AnswerEndsOnce, Unsent

LEMMA TracesKept ==
  ASSUME IInv,
         \A i \in Ids : Unsent(i)' => Unsent(i),
         \A i \in Ids : \A p \in Origins : Trace(i, p)' => Trace(i, p)
  PROVE  OneOrigin' /\ NotSentYet'
BY DEF IInv, OneOrigin, NotSentYet

\* A client that holds a turn goes on holding it.
LEMMA TurnKept ==
  ASSUME IInv, NEW c \in Clients, NEW l \in {"wait", "send", "get", "register", "finally"},
         c \in Holding, pc' = [pc EXCEPT ![c] = l], UNCHANGED <<line, running>>
  PROVE  InLine' /\ TurnsCounted'
<1>1. Holding' = Holding
  BY DEF IInv, TypeOK, Holding
<1>2. \A d \in Clients : pc'[d] = "line" => pc[d] = "line"
  BY DEF IInv, TypeOK
<1> QED
  BY <1>1, <1>2 DEF IInv, InLine, TurnsCounted, RunningExact

-----------------------------------------------------------------------------
(* Turns *)

LEMMA CheckKeeps ==
  ASSUME IInv, NEW c \in Clients, pc[c] \in {"idle", "line"}, NEW ln \in Seq(Clients),
         \A d \in Clients : pc[d] = "line" \/ d = c => \E k \in DOMAIN ln : ln[k] = d,
         Check(c, ln), UNCHANGED <<attempt, used, begun, q, told, queues, proc, engine, threads>>
  PROVE  IInv'
<1> USE DEF IInv, engine, threads
<1>1. ln # <<>>
  BY EmptySeq
<1>2. /\ 1 \in DOMAIN ln /\ Head(ln) = ln[1] /\ Tail(ln) \in Seq(Clients)
      /\ \A k \in DOMAIN ln : k # 1 => k - 1 \in DOMAIN Tail(ln) /\ Tail(ln)[k - 1] = ln[k]
  BY <1>1, HeadAndTail
<1>3. pc' \in [Clients -> {"idle", "line", "register", "wait", "send", "get", "finally", "end"}]
      /\ \A d \in Clients : d # c => pc'[d] = pc[d]
  <2>1. pc' = [pc EXCEPT ![c] = "register"] \/ pc' = [pc EXCEPT ![c] = "line"]
    BY DEF Check
  <2>2. pc \in [Clients -> {"idle", "line", "register", "wait", "send", "get", "finally", "end"}]
    BY DEF TypeOK
  <2> HIDE DEF IInv, engine, threads
  <2> QED
    BY <2>1, <2>2
<1>4. CASE MyTurn(c, ln)
  <2>1. /\ line' = Tail(ln) /\ running' = running + 1 /\ asleep' = asleep \ {c} /\ pc'[c] = "register"
        /\ running < Slots /\ ln[1] = c
    BY <1>2, <1>4 DEF Check, MyTurn, TypeOK
  <2>2. TypeOK'
    BY <1>2, <1>3, <2>1, ClientAssumption DEF TypeOK
  <2>3. InLine'
    <3> SUFFICES ASSUME NEW d \in Clients, pc'[d] = "line"
                 PROVE  \E k \in DOMAIN Tail(ln) : Tail(ln)[k] = d
      BY <2>1 DEF InLine
    <3>1. d # c /\ pc[d] = "line"
      BY <1>3, <2>1
    <3>2. PICK k \in DOMAIN ln : ln[k] = d
      BY <3>1
    <3> QED
      BY <1>2, <2>1, <3>1, <3>2
  <2>4. TurnsCounted'
    <3>1. Holding' = Holding \cup {c} /\ c \notin Holding
      BY <1>3, <2>1 DEF Holding
    <3>2. IsFiniteSet(Holding') /\ Cardinality(Holding') = Cardinality(Holding) + 1
      BY <3>1, FS_AddElement DEF TurnsCounted
    <3> QED
      BY <2>1, <3>2, ClientAssumption DEF TurnsCounted, RunningExact, TypeOK
  <2>5. Untold' /\ AnswerEndsOnce'
    BY <1>3, <2>1 DEF Untold, Before, AnswerEndsOnce
  <2>6. \A i \in Ids : Unsent(i)' => Unsent(i)
    BY <1>3, <2>1 DEF Unsent, Before, Ids
  <2>7. \A i \in Ids : \A p \in Origins : Trace(i, p)' => Trace(i, p)
    BY DEF Trace
  <2>8. OutTyped'
    BY DEF OutTyped
  <2> HIDE DEF IInv
  <2>9. OneOrigin' /\ NotSentYet'
    BY <2>6, <2>7, TracesKept
  <2> QED
    BY <2>2, <2>3, <2>4, <2>5, <2>8, <2>9 DEF IInv
<1>5. CASE ~MyTurn(c, ln)
  <2>1. line' = ln /\ running' = running /\ asleep' = asleep \cup {c} /\ pc'[c] = "line"
    BY <1>5 DEF Check, TypeOK
  <2>2. TypeOK'
    BY <1>3, <2>1 DEF TypeOK
  <2>3. InLine'
    BY <1>3, <2>1 DEF InLine
  <2>4. TurnsCounted'
    <3>1. Holding' = Holding
      BY <1>3, <2>1 DEF Holding
    <3> QED
      BY <2>1, <3>1 DEF TurnsCounted, RunningExact
  <2>5. Untold' /\ AnswerEndsOnce'
    BY <1>3, <2>1 DEF Untold, Before, AnswerEndsOnce
  <2>6. \A i \in Ids : Unsent(i)' => Unsent(i)
    BY <1>3, <2>1 DEF Unsent, Before, Ids
  <2>7. \A i \in Ids : \A p \in Origins : Trace(i, p)' => Trace(i, p)
    BY DEF Trace
  <2>8. OutTyped'
    BY DEF OutTyped
  <2> HIDE DEF IInv
  <2>9. OneOrigin' /\ NotSentYet'
    BY <2>6, <2>7, TracesKept
  <2> QED
    BY <2>2, <2>3, <2>4, <2>5, <2>8, <2>9 DEF IInv
<1> QED
  BY <1>4, <1>5

LEMMA ArriveKeeps ==
  ASSUME IInv, NEW c \in Clients, Arrive(c)
  PROVE  IInv'
<1>1. line \in Seq(Clients) /\ InLine
  BY DEF IInv, TypeOK
<1> DEFINE ln == Append(line, c)
<1>2. /\ ln \in Seq(Clients) /\ Len(line) + 1 \in DOMAIN ln /\ ln[Len(line) + 1] = c
      /\ \A k \in DOMAIN line : k \in DOMAIN ln /\ ln[k] = line[k]
  BY <1>1, Appended
<1> HIDE DEF ln
<1>3. \A d \in Clients : pc[d] = "line" \/ d = c => \E k \in DOMAIN ln : ln[k] = d
  BY <1>1, <1>2 DEF InLine
<1>4. pc[c] \in {"idle", "line"} /\ Check(c, ln)
      /\ UNCHANGED <<attempt, used, begun, q, told, queues, proc, engine, threads>>
  BY DEF Arrive, ln
<1> QED
  BY <1>2, <1>3, <1>4, CheckKeeps

LEMMA WokenKeeps ==
  ASSUME IInv, NEW c \in Clients, Woken(c)
  PROVE  IInv'
<1>1. line \in Seq(Clients) /\ \A d \in Clients : pc[d] = "line" \/ d = c => \E k \in DOMAIN line : line[k] = d
  BY DEF IInv, TypeOK, InLine, Woken
<1>2. pc[c] \in {"idle", "line"} /\ Check(c, line)
      /\ UNCHANGED <<attempt, used, begun, q, told, queues, proc, engine, threads>>
  BY DEF Woken
<1> QED
  BY <1>1, <1>2, CheckKeeps

-----------------------------------------------------------------------------
(* generate() *)

LEMMA RegisterKeeps ==
  ASSUME IInv, NEW c \in Clients, Register(c)
  PROVE  IInv'
<1> USE DEF engine, threads, turn
<1>1. pc[c] = "register" /\ pc' = [pc EXCEPT ![c] = "wait"]
      /\ UNCHANGED <<line, running, attempt, begun, q, told, inbox, out>>
  BY DEF Register, Goto
<1>2. Id(c) \in Ids
  BY DEF IInv, TypeOK, Id, Ids
<1>3. TypeOK' /\ OutTyped'
  BY <1>1, <1>2 DEF IInv, TypeOK, OutTyped, Register
<1>4. InLine' /\ TurnsCounted'
  BY <1>1, TurnKept DEF Holding
<1>5. Untold' /\ AnswerEndsOnce'
  BY <1>1 DEF IInv, TypeOK, Untold, Before, AnswerEndsOnce
<1>6. \A i \in Ids : Unsent(i)' => Unsent(i)
  BY <1>1 DEF IInv, TypeOK, Unsent, Before, Ids
<1>7. \A i \in Ids : \A p \in Origins : Trace(i, p)' => Trace(i, p)
  BY <1>1 DEF Trace
<1> QED
  BY <1>3, <1>4, <1>5, <1>6, <1>7, TracesKept DEF IInv

LEMMA EngagedKeeps ==
  ASSUME IInv, NEW c \in Clients, Engaged(c)
  PROVE  IInv'
<1> USE DEF engine, threads, turn
<1>1. pc[c] = "wait" /\ pc' = [pc EXCEPT ![c] = "send"]
      /\ UNCHANGED <<line, running, attempt, begun, q, told, inbox, out>>
  BY DEF Engaged, Goto
<1>2. TypeOK' /\ OutTyped'
  BY <1>1 DEF IInv, TypeOK, OutTyped, Engaged
<1>4. InLine' /\ TurnsCounted'
  BY <1>1, TurnKept DEF Holding
<1>5. Untold' /\ AnswerEndsOnce'
  BY <1>1 DEF IInv, TypeOK, Untold, Before, AnswerEndsOnce
<1>6. \A i \in Ids : Unsent(i)' => Unsent(i)
  BY <1>1 DEF IInv, TypeOK, Unsent, Before, Ids
<1>7. \A i \in Ids : \A p \in Origins : Trace(i, p)' => Trace(i, p)
  BY <1>1 DEF Trace
<1> QED
  BY <1>2, <1>4, <1>5, <1>6, <1>7, TracesKept DEF IInv

\* A failure in the server itself is told at the end of a call that nothing was told in.
LEMMA FailureTold ==
  ASSUME IInv, NEW c \in Clients, pc[c] \in {"wait", "send"}, Tell(c, Failure), Goto(c, "finally"),
         UNCHANGED <<turn, attempt, used, begun, q, queues, proc, engine, threads>>
  PROVE  IInv'
<1> USE DEF engine, threads, turn
<1>1. pc' = [pc EXCEPT ![c] = "finally"] /\ told' = [told EXCEPT ![c] = Append(told[c], Failure)]
      /\ UNCHANGED <<line, running, attempt, begun, q, inbox, out>>
  BY DEF Goto, Tell
<1>2. Failure \in Message /\ Failure.kind = "error"
  BY DEF Failure, Message
<1>3. told[c] \in Seq(Message) /\ told[c] = <<>>
  BY DEF IInv, TypeOK, Untold, Before
<1>4. /\ told'[c] = Append(told[c], Failure) /\ told'[c] \in Seq(Message)
      /\ \A k \in DOMAIN told'[c] : told'[c][k] = Failure /\ k = Len(told'[c])
  <2>1. told'[c] = Append(told[c], Failure)
    BY <1>1 DEF IInv, TypeOK
  <2> QED
    BY <1>2, <1>3, <2>1, Appended, EmptySeq
<1>5. TypeOK' /\ OutTyped'
  BY <1>1, <1>4 DEF IInv, TypeOK, OutTyped
<1>6. InLine' /\ TurnsCounted'
  BY <1>1, TurnKept DEF Holding
<1>7. Untold' /\ AnswerEndsOnce'
  BY <1>1, <1>4 DEF IInv, TypeOK, Untold, Before, AnswerEndsOnce
<1>8. \A i \in Ids : Unsent(i)' => Unsent(i)
  BY <1>1 DEF IInv, TypeOK, Unsent, Before, Ids
<1>9. \A i \in Ids : \A p \in Origins : Trace(i, p)' => Trace(i, p)
  <2>1. \A k \in DOMAIN told'[c] : told'[c][k].kind = "error"
    BY <1>2, <1>4
  <2>2. \A d \in Clients : d # c => told'[d] = told[d]
    BY <1>1 DEF IInv, TypeOK
  <2>3. \A i \in Ids : i[1] \in Clients
    BY DEF Ids
  <2> QED
    BY <1>1, <2>1, <2>2, <2>3 DEF Trace, Said
<1> QED
  BY <1>5, <1>6, <1>7, <1>8, <1>9, TracesKept DEF IInv

LEMMA WaitTimeoutKeeps ==
  ASSUME IInv, NEW c \in Clients, WaitTimeout(c)
  PROVE  IInv'
BY FailureTold DEF WaitTimeout

LEMMA SendFailsKeeps ==
  ASSUME IInv, NEW c \in Clients, SendFails(c)
  PROVE  IInv'
<1>1. CASE attempt[c] # 0
  BY <1>1, FailureTold DEF SendFails
<1>2. CASE attempt[c] = 0
  <2> USE DEF engine, threads, turn
  <2>1. /\ pc[c] = "send" /\ attempt' = [attempt EXCEPT ![c] = 1] /\ pc' = [pc EXCEPT ![c] = "register"]
        /\ UNCHANGED <<line, running, begun, q, told, inbox, out>>
    BY <1>2 DEF SendFails, Goto
  <2>2. TypeOK' /\ OutTyped'
    BY <1>2, <2>1 DEF IInv, TypeOK, OutTyped, SendFails
  <2>3. InLine' /\ TurnsCounted'
    BY <2>1, TurnKept DEF Holding
  <2>4. told[c] = <<>>
    BY <2>1 DEF IInv, Untold, Before
  <2>5. Untold' /\ AnswerEndsOnce'
    BY <2>1, <2>4 DEF IInv, TypeOK, Untold, Before, AnswerEndsOnce
  <2>6. \A i \in Ids : Unsent(i)' => Unsent(i)
    BY <1>2, <2>1 DEF IInv, TypeOK, Unsent, Before, Ids
  <2>7. \A i \in Ids : \A p \in Origins : Trace(i, p)' => Trace(i, p)
    BY <2>1, <2>4 DEF IInv, TypeOK, Trace
  <2> QED
    BY <2>2, <2>3, <2>5, <2>6, <2>7, TracesKept DEF IInv
<1> QED
  BY <1>1, <1>2

\* The one step that sends an id to a process: nothing had to do with it before.
LEMMA SendKeeps ==
  ASSUME IInv, NEW c \in Clients, Send(c)
  PROVE  IInv'
<1> USE DEF threads, turn
<1>1. /\ pc[c] = "send" /\ pc' = [pc EXCEPT ![c] = "get"]
      /\ inbox' = [inbox EXCEPT ![proc] = inbox[proc] \cup {Id(c)}]
      /\ UNCHANGED <<line, running, attempt, begun, q, told, out>>
  BY DEF Send, Goto
<1>2. Id(c) \in Ids /\ proc \in Procs
  BY DEF IInv, TypeOK, Id, Ids
<1>3. TypeOK' /\ OutTyped'
  BY <1>1, <1>2 DEF IInv, TypeOK, OutTyped, Send
<1>4. InLine' /\ TurnsCounted'
  BY <1>1, TurnKept DEF Holding
<1>5. Untold' /\ AnswerEndsOnce'
  BY <1>1 DEF IInv, TypeOK, Untold, Before, AnswerEndsOnce
<1>6. \A i \in Ids : Unsent(i)' => Unsent(i) /\ i # Id(c)
  BY <1>1 DEF IInv, TypeOK, Unsent, Before, Ids, Id
<1>7. \A i \in Ids : \A p \in Origins : Trace(i, p)' => Trace(i, p) \/ (i = Id(c) /\ p = proc)
  BY <1>1, <1>2 DEF IInv, TypeOK, Trace
<1>8. Unsent(Id(c))
  BY <1>1 DEF Unsent, Id, Before
<1>9. \A p \in Origins : ~Trace(Id(c), p)
  BY <1>2, <1>8 DEF IInv, NotSentYet
<1>10. OneOrigin' /\ NotSentYet'
  BY <1>6, <1>7, <1>9 DEF IInv, OneOrigin, NotSentYet
<1> QED
  BY <1>3, <1>4, <1>5, <1>10 DEF IInv

\* A request is sent again.
LEMMA AgainKeeps ==
  ASSUME IInv, NEW c \in Clients, pc[c] = "get", attempt[c] = 0, ~begun[c],
         queues' = queues \ {Id(c)}, q' = [q EXCEPT ![Id(c)] = <<>>],
         attempt' = [attempt EXCEPT ![c] = 1], Goto(c, "register"),
         UNCHANGED <<begun, told, turn, used, proc, engine, threads>>
  PROVE  IInv'
<1> USE DEF engine, threads, turn
<1>1. pc' = [pc EXCEPT ![c] = "register"] /\ UNCHANGED <<line, running, inbox, out>>
  BY DEF Goto
<1>2. told[c] = <<>>
  BY DEF IInv, Untold
<1>3. q' \in [Ids -> Seq(Message)] /\ \A i \in Ids : q'[i] = q[i] \/ q'[i] = <<>>
  <2>1. <<>> \in Seq(Message) /\ q \in [Ids -> Seq(Message)]
    BY EmptySeq DEF IInv, TypeOK
  <2> QED
    BY <2>1
<1>4. TypeOK' /\ OutTyped'
  BY <1>1, <1>3 DEF IInv, TypeOK, OutTyped
<1>5. InLine' /\ TurnsCounted'
  BY <1>1, TurnKept DEF Holding
<1>6. Untold' /\ AnswerEndsOnce'
  BY <1>1, <1>2 DEF IInv, TypeOK, Untold, Before, AnswerEndsOnce
<1>7. \A i \in Ids : Unsent(i)' => Unsent(i)
  BY <1>1 DEF IInv, TypeOK, Unsent, Before, Ids
<1>8. \A i \in Ids : \A p \in Origins : Trace(i, p)' => Trace(i, p)
  BY <1>1, <1>2, <1>3 DEF IInv, TypeOK, Trace
<1> QED
  BY <1>4, <1>5, <1>6, <1>7, <1>8, TracesKept DEF IInv

\* The next message is passed on.
LEMMA PassedOn ==
  ASSUME IInv, NEW c \in Clients, pc[c] = "get", q[Id(c)] # <<>>, NEW l \in {"get", "finally"},
         EndsCall(Head(q[Id(c)])) => l = "finally",
         begun' = [begun EXCEPT ![c] = TRUE], Tell(c, Head(q[Id(c)])), Goto(c, l),
         q' = [q EXCEPT ![Id(c)] = Tail(@)],
         UNCHANGED <<queues, attempt, turn, used, proc, engine, threads>>
  PROVE  IInv'
<1> USE DEF engine, threads, turn
<1> DEFINE m == Head(q[Id(c)])
<1>1. /\ pc' = [pc EXCEPT ![c] = l] /\ told' = [told EXCEPT ![c] = Append(told[c], m)]
      /\ q' = [q EXCEPT ![Id(c)] = Tail(q[Id(c)])]
      /\ UNCHANGED <<line, running, inbox, out>>
  BY DEF Goto, Tell
<1>2. Id(c) \in Ids /\ q[Id(c)] \in Seq(Message) /\ told[c] \in Seq(Message)
  BY DEF IInv, TypeOK, Id, Ids
<1>3. /\ 1 \in DOMAIN q[Id(c)] /\ m = q[Id(c)][1] /\ m \in Message /\ Tail(q[Id(c)]) \in Seq(Message)
      /\ \A k \in DOMAIN Tail(q[Id(c)]) : k + 1 \in DOMAIN q[Id(c)] /\ Tail(q[Id(c)])[k] = q[Id(c)][k + 1]
  BY <1>2, HeadAndTail
<1> HIDE DEF m
<1> DEFINE now == Append(told[c], m)
<1>4. /\ now \in Seq(Message) /\ Len(now) = Len(told[c]) + 1 /\ now[Len(told[c]) + 1] = m
      /\ \A k \in DOMAIN now : k = Len(told[c]) + 1 \/ (k \in DOMAIN told[c] /\ now[k] = told[c][k])
  BY <1>2, <1>3, Appended
<1>5. \A k \in DOMAIN told[c] : told[c][k].kind = "tokens"
  BY DEF IInv, Untold
<1>6. told'[c] = now /\ \A d \in Clients : d # c => told'[d] = told[d]
  BY <1>1 DEF IInv, TypeOK
<1>7. told' \in [Clients -> Seq(Message)]
  BY <1>1, <1>4 DEF IInv, TypeOK
<1>8. q' \in [Ids -> Seq(Message)]
  BY <1>1, <1>3 DEF IInv, TypeOK
<1> HIDE DEF now
<1>9. TypeOK' /\ OutTyped'
  BY <1>1, <1>7, <1>8 DEF IInv, TypeOK, OutTyped
<1>10. InLine' /\ TurnsCounted'
  BY <1>1, TurnKept DEF Holding
<1>11. (m.kind # "tokens" => l = "finally") /\ l \notin Before
  BY DEF EndsCall, m, Before
<1>12. \A k \in DOMAIN now : now[k].kind # "tokens" => k = Len(now) /\ l = "finally"
  BY <1>4, <1>5, <1>11
<1>13. Untold'
  <2> SUFFICES ASSUME NEW d \in Clients
               PROVE  /\ pc'[d] \in Before \/ (pc'[d] = "get" /\ ~begun'[d]) => told'[d] = <<>> /\ ~begun'[d]
                      /\ pc'[d] # "finally" => \A k \in DOMAIN told'[d] : told'[d][k].kind = "tokens"
    BY DEF Untold, Before
  <2>1. CASE d = c
    BY <1>1, <1>6, <1>11, <1>12, <2>1 DEF IInv, TypeOK
  <2>2. CASE d # c
    BY <1>1, <1>6, <2>2 DEF IInv, TypeOK, Untold
  <2> QED
    BY <2>1, <2>2
<1>14. AnswerEndsOnce'
  BY <1>6, <1>12 DEF IInv, AnswerEndsOnce
<1>15. \A i \in Ids : Unsent(i)' => Unsent(i)
  BY <1>1 DEF IInv, TypeOK, Unsent, Before, Ids
<1>16. ASSUME NEW i \in Ids, NEW p \in Origins, Trace(i, p)'
       PROVE  Trace(i, p)
  <2>1. (\E k \in DOMAIN q'[i] : Said(q'[i][k], p)) => \E k \in DOMAIN q[i] : Said(q[i][k], p)
    BY <1>1, <1>2, <1>3 DEF IInv, TypeOK
  <2>2. (\E k \in DOMAIN told'[i[1]] : Said(told'[i[1]][k], p)) =>
          \/ \E k \in DOMAIN told[i[1]] : Said(told[i[1]][k], p)
          \/ i[1] = c /\ Said(m, p)
    <3>1. i[1] \in Clients
      BY DEF Ids
    <3> QED
      BY <1>4, <1>6, <3>1
  <2>3. i[1] = c /\ i[2] = attempt[c] => i = Id(c)
    BY DEF Ids, Id
  <2>4. Said(m, p) => \E k \in DOMAIN q[Id(c)] : Said(q[Id(c)][k], p)
    BY <1>3
  <2> QED
    BY <1>1, <1>16, <2>1, <2>2, <2>3, <2>4 DEF Trace
<1> QED
  BY <1>9, <1>10, <1>13, <1>14, <1>15, <1>16, TracesKept DEF IInv

LEMMA GetKeeps ==
  ASSUME IInv, NEW c \in Clients, Get(c)
  PROVE  IInv'
<1> DEFINE m == Head(q[Id(c)])
<1>1. CASE Again(c, m)
  BY <1>1, AgainKeeps DEF Get, Again
<1>2. CASE ~Again(c, m)
  <2>1. PICK l \in {"get", "finally"} : Goto(c, l) /\ (EndsCall(m) => l = "finally")
    BY <1>2 DEF Get
  <2>2. /\ pc[c] = "get" /\ q[Id(c)] # <<>>
        /\ begun' = [begun EXCEPT ![c] = TRUE] /\ Tell(c, m)
        /\ q' = [q EXCEPT ![Id(c)] = Tail(@)]
        /\ UNCHANGED <<queues, attempt, turn, used, proc, engine, threads>>
    BY <1>2 DEF Get
  <2> QED
    BY <2>1, <2>2, PassedOn
<1> QED
  BY <1>1, <1>2

LEMMA FinallyKeeps ==
  ASSUME IInv, NEW c \in Clients, Finally(c)
  PROVE  IInv'
<1> USE DEF threads
<1>1. /\ pc[c] = "finally" /\ pc' = [pc EXCEPT ![c] = "end"] /\ running' = running - 1
      /\ q' = [q EXCEPT ![Id(c)] = <<>>] /\ inbox' = [p \in Procs |-> inbox[p] \ {Id(c)}]
      /\ attempt' = [attempt EXCEPT ![c] = 0] /\ begun' = [begun EXCEPT ![c] = FALSE]
      /\ told' = [told EXCEPT ![c] = <<>>]
      /\ UNCHANGED <<line, out>>
  BY DEF Finally, Goto, Release
<1>2. TurnsCounted' /\ running >= 1
  <2>1. Holding' = Holding \ {c} /\ c \in Holding
    BY <1>1 DEF IInv, TypeOK, Holding
  <2>2. IsFiniteSet(Holding') /\ Cardinality(Holding') = Cardinality(Holding) - 1
    BY <2>1, FS_RemoveElement DEF IInv, TurnsCounted
  <2>3. Cardinality(Holding') \in Nat
    BY <2>2, FS_CardinalityType
  <2> QED
    BY <1>1, <2>2, <2>3, ClientAssumption DEF IInv, TypeOK, TurnsCounted, RunningExact
<1>3. told' \in [Clients -> Seq(Message)] /\ q' \in [Ids -> Seq(Message)]
  <2>1. <<>> \in Seq(Message) /\ q \in [Ids -> Seq(Message)] /\ told \in [Clients -> Seq(Message)]
    BY EmptySeq DEF IInv, TypeOK
  <2> QED
    BY <1>1, <2>1
<1>4. TypeOK' /\ OutTyped'
  BY <1>1, <1>2, <1>3, ClientAssumption DEF IInv, TypeOK, OutTyped, Finally, Release
<1>5. InLine'
  BY <1>1 DEF IInv, TypeOK, InLine
<1>6. Untold' /\ AnswerEndsOnce'
  <2>1. told'[c] = <<>> /\ pc'[c] = "end" /\ DOMAIN told'[c] = {}
    BY <1>1 DEF IInv, TypeOK
  <2>2. \A d \in Clients : d # c => told'[d] = told[d] /\ pc'[d] = pc[d] /\ begun'[d] = begun[d]
    BY <1>1 DEF IInv, TypeOK
  <2> QED
    BY <2>1, <2>2 DEF IInv, Untold, Before, AnswerEndsOnce
<1>7. \A i \in Ids : Unsent(i)' => Unsent(i)
  BY <1>1 DEF IInv, TypeOK, Unsent, Before, Ids
<1>8. \A i \in Ids : \A p \in Origins : Trace(i, p)' => Trace(i, p)
  <2>1. \A d \in Clients : told'[d] = <<>> \/ (told'[d] = told[d] /\ attempt'[d] = attempt[d])
    BY <1>1 DEF IInv, TypeOK
  <2>2. \A i \in Ids : q'[i] = <<>> \/ q'[i] = q[i]
    BY <1>1 DEF IInv, TypeOK
  <2>3. \A i \in Ids : i[1] \in Clients
    BY DEF Ids
  <2> QED
    BY <1>1, <2>1, <2>2, <2>3 DEF Trace
<1> QED
  BY <1>2, <1>4, <1>5, <1>6, <1>7, <1>8, TracesKept DEF IInv

-----------------------------------------------------------------------------
(* The processes *)

LEMMA ReadyKeeps ==
  ASSUME IInv, NEW p \in Procs, Ready(p)
  PROVE  IInv'
<1> USE DEF turn, call, threads
<1>1. /\ CallsStill /\ UNCHANGED <<q, inbox>>
      /\ out' = [out EXCEPT ![p] = Append(out[p], [id |-> None, kind |-> "ready"])]
  BY DEF Ready, Write, CallsStill
<1> DEFINE l == [id |-> None, kind |-> "ready"]
<1>2. l \in Line /\ out[p] \in Seq(Line)
  BY DEF IInv, OutTyped, Line
<1>3. /\ Append(out[p], l) \in Seq(Line)
      /\ \A k \in DOMAIN Append(out[p], l) : Append(out[p], l)[k] = l
                                             \/ (k \in DOMAIN out[p] /\ Append(out[p], l)[k] = out[p][k])
  BY <1>2, Appended
<1>4. OutTyped'
  BY <1>1, <1>3 DEF IInv, OutTyped
<1>5. TypeOK'
  BY <1>1 DEF IInv, TypeOK, Ready, Proc, CallsStill
<1>6. \A i \in Ids : \A r \in Origins : Trace(i, r)' => Trace(i, r)
  <2>1. \A r \in Procs : r # p => out'[r] = out[r]
    BY <1>1 DEF IInv, OutTyped
  <2>2. out'[p] = Append(out[p], l)
    BY <1>1 DEF IInv, OutTyped
  <2> QED
    BY <1>1, <1>3, <2>1, <2>2 DEF Trace, CallsStill
<1> QED
  BY <1>1, <1>4, <1>5, <1>6, CallsKept, TracesKept DEF IInv

LEMMA AnswerKeeps ==
  ASSUME IInv, NEW p \in Procs, NEW i \in Ids, Answer(p, i)
  PROVE  IInv'
<1> USE DEF turn, call, threads
<1>1. PICK s \in {"tokens", "done"} : Write(p, i, s)
  BY DEF Answer
<1>2. /\ CallsStill /\ UNCHANGED q /\ i \in inbox[p]
      /\ inbox' = inbox \/ inbox' = [inbox EXCEPT ![p] = inbox[p] \ {i}]
  BY DEF Answer, CallsStill
<1> DEFINE l == [id |-> i, kind |-> s]
<1>3. l \in Line /\ out[p] \in Seq(Line) /\ l.id = i
  BY DEF IInv, OutTyped, Line
<1>4. out' = [out EXCEPT ![p] = Append(out[p], l)]
  BY <1>1 DEF Write
<1> HIDE DEF l
<1>5. /\ Append(out[p], l) \in Seq(Line)
      /\ \A k \in DOMAIN Append(out[p], l) : Append(out[p], l)[k] = l
                                             \/ (k \in DOMAIN out[p] /\ Append(out[p], l)[k] = out[p][k])
  BY <1>3, Appended
<1>6. OutTyped'
  BY <1>4, <1>5 DEF IInv, OutTyped
<1>7. TypeOK'
  BY <1>2 DEF IInv, TypeOK, Answer, CallsStill
<1>8. \A j \in Ids : \A r \in Origins : Trace(j, r)' => Trace(j, r)
  <2>1. \A r \in Procs : r # p => out'[r] = out[r]
    BY <1>4 DEF IInv, OutTyped
  <2>2. out'[p] = Append(out[p], l)
    BY <1>4 DEF IInv, OutTyped
  <2>3. \A r \in Procs : inbox'[r] \subseteq inbox[r]
    <3>1. inbox \in [Procs -> SUBSET Ids]
      BY DEF IInv, TypeOK
    <3> QED
      BY <1>2, <3>1
  <2> SUFFICES ASSUME NEW j \in Ids, NEW r \in Origins, Trace(j, r)'
               PROVE  Trace(j, r)
    OBVIOUS
  <2>4. CASE r \in Procs /\ j \in inbox'[r]
    BY <2>3, <2>4 DEF Trace
  <2>5. CASE r \in Procs /\ r # p /\ \E k \in DOMAIN out'[r] : out'[r][k].id = j /\ out'[r][k].kind # "ready"
    BY <2>1, <2>5 DEF Trace
  <2>6. CASE r = p /\ \E k \in DOMAIN out'[p] : out'[p][k].id = j /\ out'[p][k].kind # "ready"
    <3>1. PICK k \in DOMAIN Append(out[p], l) :
            Append(out[p], l)[k].id = j /\ Append(out[p], l)[k].kind # "ready"
      BY <2>2, <2>6
    <3>2. CASE Append(out[p], l)[k] = l
      BY <1>2, <1>3, <2>6, <3>1, <3>2 DEF Trace
    <3>3. CASE k \in DOMAIN out[p] /\ Append(out[p], l)[k] = out[p][k]
      BY <2>6, <3>1, <3>3 DEF Trace
    <3> QED
      BY <1>5, <3>2, <3>3
  <2>7. CASE (\E k \in DOMAIN q'[j] : Said(q'[j][k], r))
             \/ (j[2] = attempt'[j[1]] /\ \E k \in DOMAIN told'[j[1]] : Said(told'[j[1]][k], r))
    BY <1>2, <2>7 DEF Trace, CallsStill
  <2> QED
    BY <2>4, <2>5, <2>6, <2>7 DEF Trace
<1> QED
  BY <1>2, <1>6, <1>7, <1>8, CallsKept, TracesKept DEF IInv

\* The other steps of processes, readers and restarts.
LEMMA ElsewhereKeeps ==
  ASSUME IInv, CallsStill, UNCHANGED <<q, out>>, TypeOK', \A p \in Procs : inbox'[p] \subseteq inbox[p]
  PROVE  IInv'
<1>1. \A i \in Ids : \A p \in Origins : Trace(i, p)' => Trace(i, p)
  BY DEF Trace, CallsStill
<1>2. OutTyped'
  BY DEF IInv, OutTyped
<1> QED
  BY <1>1, <1>2, CallsKept, TracesKept DEF IInv

LEMMA ProcessKeeps ==
  ASSUME IInv, NEW p \in Procs, Lose(p) \/ Close(p) \/ Exit(p)
  PROVE  IInv'
<1> USE DEF turn, call, threads
<1>1. CallsStill /\ UNCHANGED <<q, out>>
  BY DEF Lose, Close, Exit, CallsStill
<1>2. \A r \in Procs : inbox'[r] \subseteq inbox[r]
  BY DEF Lose, Close, Exit, IInv, TypeOK
<1>3. TypeOK'
  <2>1. CASE Lose(p)
    BY <1>1, <2>1 DEF Lose, Proc, IInv, TypeOK, CallsStill
  <2>2. CASE Close(p)
    BY <1>1, <2>2 DEF Close, Proc, IInv, TypeOK, CallsStill
  <2>3. CASE Exit(p)
    BY <1>1, <2>3 DEF Exit, Proc, IInv, TypeOK, CallsStill
  <2> QED
    BY <2>1, <2>2, <2>3
<1> QED
  BY <1>1, <1>2, <1>3, ElsewhereKeeps

-----------------------------------------------------------------------------
(* Readers and restarts *)

LEMMA ReadLineKeeps ==
  ASSUME IInv, NEW p \in Procs, ReadLine(p)
  PROVE  IInv'
<1> USE DEF turn
<1> DEFINE m == Head(out[p])
<1>1. /\ out[p] # <<>> /\ out' = [out EXCEPT ![p] = Tail(out[p])] /\ CallsStill /\ UNCHANGED inbox
      /\ \/ UNCHANGED q
         \/ /\ m.kind # "ready" /\ m.id \in queues
            /\ q' = [q EXCEPT ![m.id] = Append(q[m.id], [kind |-> m.kind, from |-> p])]
  BY DEF ReadLine, CallsStill
<1>2. out[p] \in Seq(Line)
  BY DEF IInv, OutTyped
<1>3. /\ 1 \in DOMAIN out[p] /\ m = out[p][1] /\ m \in Line /\ Tail(out[p]) \in Seq(Line)
      /\ \A k \in DOMAIN Tail(out[p]) : k + 1 \in DOMAIN out[p] /\ Tail(out[p])[k] = out[p][k + 1]
  BY <1>1, <1>2, HeadAndTail
<1> HIDE DEF m
<1> DEFINE said == [kind |-> m.kind, from |-> p]
<1>4. m.kind # "ready" => said \in Message
  BY <1>3 DEF Line, Message
<1>5. \/ UNCHANGED q
      \/ /\ m.kind # "ready" /\ m.id \in Ids /\ Append(q[m.id], said) \in Seq(Message)
         /\ q'[m.id] = Append(q[m.id], said) /\ \A i \in Ids : i # m.id => q'[i] = q[i]
         /\ \A k \in DOMAIN Append(q[m.id], said) : Append(q[m.id], said)[k] = said
               \/ (k \in DOMAIN q[m.id] /\ Append(q[m.id], said)[k] = q[m.id][k])
  <2>1. CASE m.kind # "ready" /\ m.id \in queues
    <3>1. m.id \in Ids /\ q[m.id] \in Seq(Message) /\ said \in Message
      BY <1>4, <2>1 DEF IInv, TypeOK
    <3> HIDE DEF said
    <3>2. /\ Append(q[m.id], said) \in Seq(Message)
          /\ \A k \in DOMAIN Append(q[m.id], said) : Append(q[m.id], said)[k] = said
               \/ (k \in DOMAIN q[m.id] /\ Append(q[m.id], said)[k] = q[m.id][k])
      BY <3>1, Appended
    <3>3. q' = q \/ q' = [q EXCEPT ![m.id] = Append(q[m.id], said)]
      BY <1>1 DEF said
    <3> QED
      BY <2>1, <3>1, <3>2, <3>3 DEF IInv, TypeOK
  <2>2. CASE ~(m.kind # "ready" /\ m.id \in queues)
    BY <1>1, <2>2
  <2> QED
    BY <2>1, <2>2
<1>6. q' \in [Ids -> Seq(Message)]
  <2>1. q' = q \/ q' = [q EXCEPT ![m.id] = Append(q[m.id], said)]
    BY <1>1
  <2> HIDE DEF said
  <2> QED
    BY <1>5, <2>1 DEF IInv, TypeOK
<1>7. TypeOK'
  <2>1. ready \in [Procs -> BOOLEAN] /\ served \in [Procs -> BOOLEAN]
    BY DEF IInv, TypeOK
  <2>2. ready' \in [Procs -> BOOLEAN] /\ served' \in [Procs -> BOOLEAN]
    BY <2>1 DEF ReadLine, SetReady
  <2>3. UNCHANGED <<turn, pc, attempt, used, begun, told, queues, proc, state, inbox, reader, err, restarter, target>>
    BY DEF ReadLine
  <2> QED
    BY <1>6, <2>2, <2>3 DEF IInv, TypeOK
<1>8. OutTyped'
  BY <1>1, <1>3 DEF IInv, OutTyped
<1>9. ASSUME NEW i \in Ids, NEW r \in Origins, Trace(i, r)'
      PROVE  Trace(i, r)
  <2>1. out'[p] = Tail(out[p]) /\ \A s \in Procs : s # p => out'[s] = out[s]
    BY <1>1 DEF IInv, OutTyped
  <2>2. (\E k \in DOMAIN q'[i] : Said(q'[i][k], r)) =>
          \/ \E k \in DOMAIN q[i] : Said(q[i][k], r)
          \/ i = m.id /\ Said(said, r) /\ m.kind # "ready"
    <3> HIDE DEF said
    <3> QED
      BY <1>5
  <2>3. Said(said, r) => r = p
    BY DEF Said
  <2>4. inbox' = inbox /\ attempt' = attempt /\ told' = told
    BY <1>1 DEF CallsStill
  <2>5. r \in Procs /\ (\E k \in DOMAIN out'[r] : out'[r][k].id = i /\ out'[r][k].kind # "ready")
          => \E k \in DOMAIN out[r] : out[r][k].id = i /\ out[r][k].kind # "ready"
    <3>1. CASE r # p
      BY <2>1, <3>1
    <3>2. CASE r = p
      <4>1. SUFFICES ASSUME NEW k \in DOMAIN Tail(out[p]), Tail(out[p])[k].id = i, Tail(out[p])[k].kind # "ready"
                     PROVE  \E j \in DOMAIN out[p] : out[p][j].id = i /\ out[p][j].kind # "ready"
        BY <2>1, <3>2
      <4>2. k + 1 \in DOMAIN out[p] /\ out[p][k + 1].id = i /\ out[p][k + 1].kind # "ready"
        BY <1>3, <4>1
      <4> QED
        BY <4>2
    <3> QED
      BY <3>1, <3>2
  <2>6. i = m.id /\ Said(said, r) /\ m.kind # "ready" => Trace(i, r)
    BY <1>3, <2>3 DEF Trace
  <2> HIDE DEF said
  <2> QED
    BY <1>9, <2>2, <2>4, <2>5, <2>6 DEF Trace
<1> QED
  BY <1>1, <1>7, <1>8, <1>9, CallsKept, TracesKept DEF IInv

LEMMA ReadEndKeeps ==
  ASSUME IInv, NEW p \in Procs, ReadEnd(p)
  PROVE  IInv'
<1> USE DEF turn, engine
<1> DEFINE m == [kind |-> "exited", from |-> p]
<1>1. /\ CallsStill /\ UNCHANGED <<out, inbox>>
      /\ q' = [i \in Ids |-> IF i \in queues THEN Append(q[i], m) ELSE q[i]]
  BY DEF ReadEnd, TellEveryone, CallsStill
<1>2. m \in Message /\ \A r \in Origins : ~Said(m, r)
  BY DEF Message, Said
<1> HIDE DEF m
<1>3. ASSUME NEW i \in Ids
      PROVE  /\ q'[i] \in Seq(Message)
             /\ \A k \in DOMAIN q'[i] : q'[i][k] = m \/ (k \in DOMAIN q[i] /\ q'[i][k] = q[i][k])
  <2>1. q[i] \in Seq(Message)
    BY DEF IInv, TypeOK
  <2>2. /\ Append(q[i], m) \in Seq(Message)
        /\ \A k \in DOMAIN Append(q[i], m) : Append(q[i], m)[k] = m
              \/ (k \in DOMAIN q[i] /\ Append(q[i], m)[k] = q[i][k])
    BY <1>2, <2>1, Appended
  <2>3. q'[i] = Append(q[i], m) \/ q'[i] = q[i]
    BY <1>1
  <2> QED
    BY <2>1, <2>2, <2>3
<1>4. q' \in [Ids -> Seq(Message)]
  BY <1>1, <1>3
<1>5. TypeOK'
  BY <1>1, <1>4 DEF ReadEnd, SetReady, IInv, TypeOK, CallsStill
<1>6. OutTyped'
  BY <1>1 DEF IInv, OutTyped
<1>7. \A i \in Ids : \A r \in Origins : Trace(i, r)' => Trace(i, r)
  BY <1>1, <1>2, <1>3 DEF Trace, CallsStill
<1> QED
  BY <1>1, <1>5, <1>6, <1>7, CallsKept, TracesKept DEF IInv

LEMMA ReadErrKeeps ==
  ASSUME IInv, NEW p \in Procs, ReadErr(p)
  PROVE  IInv'
<1> USE DEF turn, call, engine
<1>1. CallsStill /\ UNCHANGED <<q, out, inbox>>
  BY DEF ReadErr, CallsStill
<1>2. TypeOK'
  BY <1>1 DEF ReadErr, SetReady, IInv, TypeOK, CallsStill
<1> QED
  BY <1>1, <1>2, ElsewhereKeeps

LEMMA RestartsKeep ==
  ASSUME IInv, NEW p \in Procs, Restarts(p)
  PROVE  IInv'
<1> USE DEF turn, call, engine
<1>1. CallsStill /\ UNCHANGED <<q, out, inbox>>
  BY DEF Restarts, StartNext, Started, StartFails, CallsStill
<1>2. CASE StartNext(p)
  <2>1. proc' \in Procs
    <3>1. Fresh \in SUBSET Procs /\ Fresh # {} /\ proc' = Min(Fresh)
      BY <1>2 DEF StartNext, Fresh
    <3> QED
      BY <3>1, LeastProcess
  <2>2. TypeOK'
    BY <1>1, <1>2, <2>1 DEF StartNext, Proc, Restarter, IInv, TypeOK, CallsStill
  <2> QED
    BY <1>1, <2>2, ElsewhereKeeps
<1>3. CASE Started(p) \/ StartFails(p)
  <2>1. TypeOK'
    <3>1. CASE Started(p)
      BY <1>1, <3>1 DEF Started, Restarter, IInv, TypeOK, CallsStill
    <3>2. CASE StartFails(p)
      BY <1>1, <3>2 DEF StartFails, Proc, Restarter, IInv, TypeOK, CallsStill
    <3> QED
      BY <1>3, <3>1, <3>2
  <2> QED
    BY <1>1, <2>1, ElsewhereKeeps
<1> QED
  BY <1>2, <1>3 DEF Restarts

-----------------------------------------------------------------------------
(* The client's invariants *)

LEMMA InitHolds == Init => IInv
<1> SUFFICES ASSUME Init PROVE IInv
  OBVIOUS
<1> USE DEF Init
<1>1. TypeOK /\ OutTyped
  <2>1. 1 \in Procs /\ 0 \in 0..Slots
    BY ClientAssumption DEF Procs
  <2>2. line \in Seq(Clients) /\ q \in [Ids -> Seq(Message)] /\ told \in [Clients -> Seq(Message)]
        /\ out \in [Procs -> Seq(Line)]
    OBVIOUS
  <2>3. /\ inbox \in [Procs -> SUBSET Ids] /\ restarter \in [Procs -> {"none", "wait", "starting", "sleep"}]
        /\ state \in [Procs -> {"none", "starting", "serving", "lost", "closed", "gone"}]
        /\ ready \in [Procs -> BOOLEAN] /\ served \in [Procs -> BOOLEAN]
    OBVIOUS
  <2> QED
    BY <2>1, <2>2, <2>3 DEF TypeOK, OutTyped
<1>2. InLine /\ Untold /\ AnswerEndsOnce
  BY DEF InLine, Untold, AnswerEndsOnce, Before
<1>3. TurnsCounted
  <2>1. Holding = {}
    BY DEF Holding
  <2> QED
    BY <2>1, FS_EmptySet, ClientAssumption DEF TurnsCounted, RunningExact
<1>4. OneOrigin /\ NotSentYet
  <2>1. \A i \in Ids, p \in Origins : ~Trace(i, p)
    BY DEF Trace, Ids
  <2> QED
    BY <2>1 DEF OneOrigin, NotSentYet
<1> QED
  BY <1>1, <1>2, <1>3, <1>4 DEF IInv

LEMMA StepHolds == IInv /\ [Next]_vars => IInv'
<1> SUFFICES ASSUME IInv, [Next]_vars PROVE IInv'
  OBVIOUS
<1>1. CASE UNCHANGED vars
  <2>1. CallsStill /\ UNCHANGED <<q, out, inbox>>
    BY <1>1 DEF CallsStill, vars, turn, call, engine
  <2>2. TypeOK'
    BY <1>1 DEF IInv, TypeOK, vars, turn, call, engine, threads
  <2> QED
    BY <2>1, <2>2, ElsewhereKeeps
<1>2. CASE \E c \in Clients : Client(c)
  BY <1>2, ArriveKeeps, WokenKeeps, RegisterKeeps, EngagedKeeps, WaitTimeoutKeeps, SendKeeps, SendFailsKeeps,
     GetKeeps, FinallyKeeps DEF Client
<1>3. CASE \E p \in Procs : Process(p)
  BY <1>3, ReadyKeeps, AnswerKeeps, ProcessKeeps DEF Process
<1>4. CASE \E p \in Procs : Readers(p)
  BY <1>4, ReadLineKeeps, ReadEndKeeps, ReadErrKeeps DEF Readers
<1>5. CASE \E p \in Procs : Restarts(p)
  BY <1>5, RestartsKeep
<1> QED
  BY <1>1, <1>2, <1>3, <1>4, <1>5 DEF Next

\* IInv holds of the client and the engines it starts, however they end.
THEOREM Inductive == Spec => []IInv
BY InitHolds, StepHolds, PTL DEF Spec

\* A call holds one turn while it lasts and is given one answer, from one process, with one end (generate,
\* _acquire, the readers and the restarts of serve/engine.py).
THEOREM OneTurnOneAnswerHolds == Spec => []OneTurnOneAnswer
<1>1. IInv => OneEngineAnswers
  <2> SUFFICES ASSUME IInv, NEW c \in Clients, NEW j \in DOMAIN told[c], NEW k \in DOMAIN told[c],
                      {told[c][j].kind, told[c][k].kind} \subseteq {"tokens", "done"}
               PROVE  told[c][j].from = told[c][k].from
    BY DEF OneEngineAnswers
  <2> DEFINE p == told[c][j].from
             r == told[c][k].from
  <2>1. Id(c) \in Ids /\ Id(c)[1] = c /\ Id(c)[2] = attempt[c]
    BY DEF IInv, TypeOK, Id, Ids
  <2>2. told[c][j] \in Message /\ told[c][k] \in Message
    BY LenProperties DEF IInv, TypeOK
  <2>3. p \in Origins /\ r \in Origins
    BY <2>2 DEF Message, Origins
  <2>4. Trace(Id(c), p) /\ Trace(Id(c), r)
    BY <2>1 DEF Trace, Said
  <2> QED
    BY <2>1, <2>3, <2>4 DEF IInv, OneOrigin
<1>2. IInv => OneTurnOneAnswer
  BY <1>1 DEF IInv, TurnsCounted, OneTurnOneAnswer
<1> QED
  BY <1>2, Inductive, PTL
=============================================================================
