-------------------------- MODULE TwoStages_proofs --------------------------
(***************************************************************************)
(* Proofs about the two stages of engine.cpp (TwoStages): no recurrent     *)
(* state consumes a wrong row, and the logits that are sampled are the     *)
(* ones meant, for any requests, prompts, windows and layers.  And about   *)
(* what a layer of theirs reads of its context (SparseAttention), the      *)
(* selection of the largest by which it chooses (TopK), and the experts a  *)
(* row adds up (RoutedExperts).                                            *)
(***************************************************************************)
EXTENDS MC_TwoStages, FiniteSetTheorems, FunctionTheorems, NaturalsInduction, WellFoundedInduction, TLAPS

-----------------------------------------------------------------------------
(* The inductive invariant *)

Forwarding == pc \in {"prepare", "launch", "service", "end", "finish"}

\* The batch is packed; of a window at least a token is right, and all when it is committed as it runs.
WellFormed(ws) == Packed(ws) /\ \A s \in On(ws) : ws[s].right \in 1..ws[s].T /\ (ws[s].commit => ws[s].right = ws[s].T)

\* The rows a commit replays.
RowsKept(rows, s, r0, pos0, n) == \A j \in 1..n : r0 + j \in DOMAIN rows /\ rows[r0 + j] = <<s, pos0 + j, TRUE>>

\* Once the commits are through, the state of slot s on stage g is n.
Reaches(g, s, n) ==
  \/ (\A c \in commits[g] : c.slot # s) /\ state[g][s] = n
  \/ \E c \in commits[g] : /\ c.slot = s /\ \A d \in commits[g] : d.slot = s => d = c
                           /\ state[g][s] \in Nat /\ state[g][s] + c.n = n
                           /\ RowsKept(inter[g][c.lane], s, c.r0, state[g][s], c.n)

\* How far stage g is with its batch of the forward.
At(g) == IF pc = "prepare" THEN "new"
         ELSE IF pc = "launch" \/ (gpu[g] # None /\ gpu[g].at = "begin") THEN "booked"
         ELSE IF pc = "finish" THEN "ended" ELSE "ran"

\* The batch that went through the first stage and not yet through the second, as stage g sees it, and its lane.
Half(g)     == IF Forwarding THEN (IF call.piped THEN call.wins[3 - g] ELSE NoWindows)
               ELSE IF mid = None THEN NoWindows ELSE mid.wins
HalfLane(g) == IF Forwarding THEN call.lane[3 - g] ELSE mid.lane

\* A window of slot s on stage g: booked or not, run or not.
NotRun(g, s, w)    == pend[g][s] = 0 /\ Reaches(g, s, w.pos0)
InBooks(g, s, w, l) == hist[g][s] = w.pos0 + w.T /\ lastRow[g][s] = w.r0 /\ lastLane[g][s] = l
HasRun(g, s, w, l) == /\ \A c \in commits[g] : c.slot # s
                      /\ state[g][s] = IF w.commit THEN w.pos0 + w.T ELSE w.pos0
                      /\ ~w.commit => RowsKept(inter[g][l], s, w.r0, w.pos0, w.right)

New(g, s, w)       == NotRun(g, s, w) /\ hist[g][s] = w.pos0
Waits(g, s, w, l)  == NotRun(g, s, w) /\ InBooks(g, s, w, l)
Ran(g, s, w, l)    == pend[g][s] = 0 /\ InBooks(g, s, w, l) /\ HasRun(g, s, w, l)
Ended(g, s, w, l)  == pend[g][s] = (IF w.commit THEN 0 ELSE w.T) /\ InBooks(g, s, w, l) /\ HasRun(g, s, w, l)

Free(g, s) == pend[g][s] = 0 /\ Reaches(g, s, hist[g][s])

\* A slot's books and state on a stage, by the window it has in the forward or half way.
Account(g, s) ==
  /\ Forwarding /\ In(g, s) =>
       /\ At(g) = "new"    => New(g, s, Win(g, s))
       /\ At(g) = "booked" => Waits(g, s, Win(g, s), call.lane[g])
       /\ At(g) = "ran"    => Ran(g, s, Win(g, s), call.lane[g])
       /\ At(g) = "ended"  => Ended(g, s, Win(g, s), call.lane[g])
  /\ s \in On(Half(g)) => IF g = 1 THEN Ended(g, s, Half(g)[s], HalfLane(g)) ELSE New(g, s, Half(g)[s])
  /\ ~(Forwarding /\ In(g, s)) /\ s \notin On(Half(g)) => Free(g, s)

Accounts == \A g \in Stages, s \in Slots : Account(g, s)

\* A window of slot s is under way, or a prompt is read into it; apart from such slots both stages' books agree.
UnderWay(s) == (Forwarding /\ (In(1, s) \/ In(2, s))) \/ s \in On(Half(1)) \/ (s = Reading /\ rd # None)

Level == \A s \in Slots : ~UnderWay(s) => hist[1][s] = hist[2][s]

\* The forward and the half-way batch: in lanes, of different slots, or one batch through both stages.
CallOK ==
  /\ Forwarding => /\ call \in Calls /\ \A g \in Stages : WellFormed(call.wins[g])
                   /\ ~call.piped => call.wins[1] = call.wins[2] /\ call.lane[1] = call.lane[2] /\ mid = None
                   /\ call.piped => /\ rd = None /\ call.lane[1] # call.lane[2]
                                    /\ \A g \in Stages : On(call.wins[g]) \subseteq LaneSlots(call.lane[g])
                                    /\ IF mid = None THEN On(call.wins[1]) = {} ELSE mid.lane = call.lane[1] /\ mid.wins = call.wins[1]
  /\ mid # None => rd = None /\ WellFormed(mid.wins) /\ On(mid.wins) \subseteq LaneSlots(mid.lane)

\* A graph under way is the one of the stage's batch of the forward.
GraphOK(g) ==
  gpu[g] # None =>
    /\ pc \in {"service", "end"} /\ Busy(g)
    /\ gpu[g].lane = call.lane[g] /\ gpu[g].after = (g = 2 /\ ~call.piped)
    /\ gpu[g].at # "begin" => gpu[g].rows = AllRows(call.wins[g])

\* What a stage's graph will read, and what it has left behind.
BatchOK(g) ==
  Forwarding /\ Busy(g) =>
    /\ pc # "prepare" => par[g] = call.wins[g] /\ lastT[g] = NRows(call.wins[g])
    /\ At(g) = "booked" => joined[g]
    /\ pc \in {"service", "end", "finish"} /\ gpu[g] = None =>
         IF g = 1 THEN xfer[call.lane[1]] = AllRows(call.wins[1]) ELSE logits = AllRows(call.wins[2])

\* The rows of a batch that went through the first stage wait in its lane's buffer.
TransitOK ==
  /\ Forwarding /\ call.piped /\ Busy(2) => xfer[call.lane[2]] = AllRows(call.wins[2])
  /\ ~Forwarding /\ mid # None /\ On(mid.wins) # {} => xfer[mid.lane] = AllRows(mid.wins)

DevicesOK == (\A g \in Stages : GraphOK(g) /\ BatchOK(g)) /\ TransitOK

\* The prompt that is read: its rest as windows, or a chunk handed from the first stage to the worker.
TailWindow    == rd # None /\ Forwarding /\ In(2, Reading)
Handing == rd # None /\ (pc \in {"wait", "post"} \/ ((pc = "between" \/ (Forwarding /\ ~TailWindow)) /\ rd.next = "post"))

LastRow == lastT[2] \in DOMAIN logits /\ logits[lastT[2]] = <<Reading, rd.total, TRUE>>

ReadPc ==
  /\ rd = None => pc = "idle" \/ Forwarding
  /\ rd # None => pc # "idle" /\ mid = None /\ rd.i <= rd.total
  /\ pc \in {"read", "wait", "post", "tail"} \/ TailWindow => cur = Reading
  /\ rd # None /\ (pc \in {"between", "tail"} \/ Forwarding) => Left > 0

\* The worker's chunk is the one handed on last, and its rows wait in the other buffer.
JobOK ==
  /\ job # None => /\ rd # None /\ rd.posted /\ pc \in {"read", "wait", "settle"} /\ ~err
                   /\ job.slot = Reading /\ job.buf # rd.buf /\ job.n > 0 /\ hist[2][Reading] = job.pos0
                   /\ job.pos0 + job.n = rd.i /\ pfXfer[job.buf] = AllRows(ChunkOf(Reading, job.n, job.pos0))
  /\ err => rd # None /\ rd.posted /\ pc \in {"read", "wait", "settle"}

\* The first stage has read what was handed on, and the chunk in hand; the second what was handed on, once the worker is idle.
ReadBooks ==
  rd # None /\ pc # "settle" /\ ~TailWindow =>
    /\ hist[1][Reading] = rd.i + IF Handing THEN ChunkLen ELSE 0
    /\ job = None /\ ~err => hist[2][Reading] = rd.i

HandOK == Handing => Left >= PrefillMin /\ pfXfer[rd.buf] = AllRows(ChunkOf(Reading, ChunkLen, rd.i))

TailOK ==
  /\ rd # None /\ (pc = "tail" \/ TailWindow \/ ((pc = "between" \/ Forwarding) /\ rd.next = "tail")) => ~rd.posted
  /\ TailWindow => LET w == Win(2, Reading) IN
       w.r0 = 0 /\ w.T <= Left /\ w.pos0 = rd.i /\ w.commit /\ w.right = w.T /\ \A s \in Slots : s # Reading => ~In(2, s)

FirstOK ==
  /\ pc = "read" /\ Left = 0 /\ job = None /\ ~err => LastRow
  /\ pc = "first token" => Left = 0 /\ LastRow /\ lastT[1] = lastT[2]

ReadOK == ReadPc /\ JobOK /\ ReadBooks /\ HandOK /\ TailOK /\ FirstOK

IInv == TypeOK /\ CallOK /\ DevicesOK /\ Accounts /\ Level /\ ReadOK

-----------------------------------------------------------------------------
(* Batches and rows *)

\* The rows of the windows lie one after the other, however many they are: a prompt's chunk, too.
Laid(ws) == /\ \E n \in Nat : Span(ws) = 1..n
            /\ \A s, t \in Slots : s # t => WinRows(ws[s]) \cap WinRows(ws[t]) = {}

LEMMA PackedLaid == ASSUME NEW ws, Packed(ws) PROVE Laid(ws)
<1>1. MaxWindow \in Nat
  BY TwoStagesAssumption
<1>2. PICK n \in 0..MaxWindow : Span(ws) = 1..n
  BY DEF Packed
<1>3. n \in Nat
  BY <1>1
<1> QED
  BY <1>2, <1>3 DEF Packed, Laid

LEMMA WindowIs ==
  ASSUME NEW r0 \in Nat, NEW T \in Nat, NEW pos0 \in Nat, NEW right \in Nat, NEW commit \in BOOLEAN
  PROVE  /\ Window(r0, T, pos0, right, commit) \in Wins /\ Window(r0, T, pos0, right, commit).r0 = r0
         /\ Window(r0, T, pos0, right, commit).T = T /\ Window(r0, T, pos0, right, commit).pos0 = pos0
         /\ Window(r0, T, pos0, right, commit).right = right /\ Window(r0, T, pos0, right, commit).commit = commit
BY DEF Window, Wins

LEMMA NoWindowIs == Window(0, 0, 0, 0, FALSE) \in Wins /\ Window(0, 0, 0, 0, FALSE).T = 0
BY DEF Window, Wins

LEMMA ConstantsAre ==
  /\ Reading \in Slots /\ Slots \subseteq Nat /\ 1 \in Stages /\ 2 \in Stages /\ 1 # 2 /\ \A g \in Stages : g = 1 \/ g = 2
  /\ Chunk \in Nat /\ PrefillMin \in Nat /\ PrefillMin > 0 /\ PrefillMin <= Chunk /\ MaxWindow \in Nat /\ MaxWindow > 0
  /\ Layers \in Nat /\ Layers > 0 /\ MaxFailures \in Nat /\ Junk \notin Nat
  /\ None \notin Calls /\ None \notin Halves /\ None \notin Reads /\ None \notin Jobs /\ None \notin Graphs
  /\ \A n \in Prompts : n \in Nat /\ n > 0
BY TwoStagesAssumption DEF Slots, Stages

LEMMA SlotAtIs ==
  ASSUME NEW ws, Laid(ws), NEW s \in Slots, NEW i \in WinRows(ws[s])
  PROVE  SlotAt(ws, i) = s /\ i \in Span(ws)
<1>1. \A t \in Slots : i \in WinRows(ws[t]) => t = s
  BY DEF Laid
<1>2. SlotAt(ws, i) \in Slots /\ i \in WinRows(ws[SlotAt(ws, i)])
  BY DEF SlotAt
<1>3. i \in Span(ws)
  BY DEF Span
<1> QED
  BY <1>1, <1>2, <1>3

LEMMA SlotAtIn ==
  ASSUME NEW ws, NEW i \in Span(ws)
  PROVE  SlotAt(ws, i) \in Slots /\ i \in WinRows(ws[SlotAt(ws, i)])
<1>1. \E s \in Slots : i \in WinRows(ws[s])
  BY DEF Span
<1> QED
  BY <1>1 DEF SlotAt

LEMMA AllRowsAt ==
  ASSUME NEW ws, Laid(ws), NEW s \in Slots, NEW i \in WinRows(ws[s])
  PROVE  i \in DOMAIN AllRows(ws) /\ AllRows(ws)[i] = RowAt(s, ws[s], i)
BY SlotAtIs DEF AllRows

LEMMA RowIs == ASSUME NEW s \in Slots, NEW n \in Nat PROVE <<s, n, TRUE>> \in Row /\ <<s, n, FALSE>> \in Row
BY DEF Row

LEMMA AllRowsType ==
  ASSUME NEW ws \in Batches, Laid(ws)
  PROVE  AllRows(ws) \in Rows
<1>1. PICK n \in Nat : Span(ws) = 1..n
  BY DEF Laid
<1>2. ASSUME NEW i \in 1..n PROVE AllRows(ws)[i] \in Row
  <2>1. SlotAt(ws, i) \in Slots /\ i \in WinRows(ws[SlotAt(ws, i)])
    BY <1>1, <1>2, SlotAtIn
  <2>2. PICK t \in Slots : t = SlotAt(ws, i) /\ i \in WinRows(ws[t])
    BY <2>1
  <2>3. ws[t] \in Wins
    BY DEF Batches
  <2>4. AllRows(ws)[i] = RowAt(t, ws[t], i)
    BY <1>1, <1>2, <2>2 DEF AllRows
  <2>5. ws[t].pos0 + i - ws[t].r0 \in Nat
    BY <2>2, <2>3 DEF WinRows, Wins
  <2>6. CASE i - ws[t].r0 <= ws[t].right
    <3>0. (i - ws[t].r0 <= ws[t].right) = TRUE
      BY <2>6
    <3>1. AllRows(ws)[i] = <<t, ws[t].pos0 + i - ws[t].r0, TRUE>>
      BY <2>4, <3>0 DEF RowAt
    <3> QED
      BY <2>5, <3>1, RowIs
  <2>7. CASE ~(i - ws[t].r0 <= ws[t].right)
    <3>0. (i - ws[t].r0 <= ws[t].right) = FALSE
      BY <2>7
    <3>1. AllRows(ws)[i] = <<t, ws[t].pos0 + i - ws[t].r0, FALSE>>
      BY <2>4, <3>0 DEF RowAt
    <3> QED
      BY <2>5, <3>1, RowIs
  <2> QED
    BY <2>6, <2>7
<1>3. AllRows(ws) = [i \in 1..n |-> AllRows(ws)[i]]
  BY <1>1 DEF AllRows
<1>4. AllRows(ws) \in [1..n -> Row]
  BY <1>2, <1>3
<1> QED
  BY <1>4 DEF Rows

\* The rows of windows that follow on the states come out as they came in.
LEMMA ThroughRight ==
  ASSUME NEW ws \in Batches, Laid(ws), NEW st, \A s \in On(ws) : st[s] = ws[s].pos0
  PROVE  Through(ws, AllRows(ws), st) = AllRows(ws)
<1>1. ASSUME NEW i \in Span(ws) PROVE Through(ws, AllRows(ws), st)[i] = AllRows(ws)[i]
  <2>1. PICK t \in Slots : t = SlotAt(ws, i) /\ i \in WinRows(ws[t])
    BY <1>1, SlotAtIn
  <2>2. ws[t] \in Wins
    BY DEF Batches
  <2>3. t \in On(ws)
    BY <2>1, <2>2 DEF On, WinRows, Wins
  <2>4. i \in DOMAIN AllRows(ws) /\ AllRows(ws)[i] = <<t, ws[t].pos0 + i - ws[t].r0, i - ws[t].r0 <= ws[t].right>>
    BY <1>1, <2>1 DEF AllRows, RowAt
  <2>5. \E ok \in BOOLEAN : AllRows(ws)[i] = <<t, ws[t].pos0 + i - ws[t].r0, ok>>
    <3>1. CASE i - ws[t].r0 <= ws[t].right
      <4>0. (i - ws[t].r0 <= ws[t].right) = TRUE
        BY <3>1
      <4>1. AllRows(ws)[i] = <<t, ws[t].pos0 + i - ws[t].r0, TRUE>>
        BY <2>4, <4>0
      <4> QED
        BY <4>1
    <3>2. CASE ~(i - ws[t].r0 <= ws[t].right)
      <4>0. (i - ws[t].r0 <= ws[t].right) = FALSE
        BY <3>2
      <4>1. AllRows(ws)[i] = <<t, ws[t].pos0 + i - ws[t].r0, FALSE>>
        BY <2>4, <4>0
      <4> QED
        BY <4>1
    <3> QED
      BY <3>1, <3>2
  <2>6. Through(ws, AllRows(ws), st)[i] =
          IF i \in DOMAIN AllRows(ws) /\ st[t] = ws[t].pos0
             /\ \E ok \in BOOLEAN : AllRows(ws)[i] = <<t, ws[t].pos0 + i - ws[t].r0, ok>>
          THEN AllRows(ws)[i] ELSE Junk
    BY <1>1, <2>1 DEF Through
  <2> QED
    BY <2>3, <2>4, <2>5, <2>6
<1> QED
  BY <1>1 DEF Through, AllRows

\* The rows of a window's right tokens.
LEMMA RowsKeptOf ==
  ASSUME NEW ws \in Batches, Laid(ws), NEW s \in Slots, NEW n \in Nat, n <= ws[s].T, n <= ws[s].right
  PROVE  RowsKept(AllRows(ws), s, ws[s].r0, ws[s].pos0, n)
<1> SUFFICES ASSUME NEW j \in 1..n
             PROVE  ws[s].r0 + j \in DOMAIN AllRows(ws) /\ AllRows(ws)[ws[s].r0 + j] = <<s, ws[s].pos0 + j, TRUE>>
  BY DEF RowsKept
<1>1. ws[s].r0 \in Nat /\ ws[s].T \in Nat /\ ws[s].pos0 \in Nat /\ ws[s].right \in Nat
  BY DEF Batches, Wins
<1> DEFINE i == ws[s].r0 + j
<1>2. i \in WinRows(ws[s])
  BY <1>1 DEF WinRows
<1>3. i \in DOMAIN AllRows(ws) /\ AllRows(ws)[i] = RowAt(s, ws[s], i)
  BY <1>2, AllRowsAt
<1>4. ws[s].pos0 + i - ws[s].r0 = ws[s].pos0 + j /\ (i - ws[s].r0 <= ws[s].right) = TRUE
  BY <1>1
<1> QED
  BY <1>3, <1>4 DEF RowAt

LEMMA ConsumedRight ==
  ASSUME NEW s, NEW st \in Nat, NEW rows, NEW r0, NEW n \in Nat, RowsKept(rows, s, r0, st, n)
  PROVE  Consumed(s, st, rows, r0, n) = st + n
BY ConstantsAre DEF Consumed, RowsKept

\* A batch of windows that follow on the states leaves them as its commits say.
LEMMA AfterCommittedRight ==
  ASSUME NEW ws \in Batches, WellFormed(ws), NEW st, \A s \in On(ws) : st[s] = ws[s].pos0, NEW s \in Slots
  PROVE  AfterCommitted(ws, AllRows(ws), st)[s] = IF s \in On(ws) /\ ws[s].commit THEN ws[s].pos0 + ws[s].T ELSE st[s]
<1>1. CASE s \in On(ws) /\ ws[s].commit
  <2>1. ws[s].right = ws[s].T /\ ws[s].T \in Nat /\ ws[s].pos0 \in Nat /\ st[s] = ws[s].pos0 /\ Laid(ws)
    BY <1>1, PackedLaid DEF WellFormed, Batches, Wins
  <2>2. RowsKept(AllRows(ws), s, ws[s].r0, ws[s].pos0, ws[s].T)
    BY <2>1, RowsKeptOf
  <2>3. Consumed(s, st[s], AllRows(ws), ws[s].r0, ws[s].T) = ws[s].pos0 + ws[s].T
    BY <2>1, <2>2, ConsumedRight
  <2> QED
    BY <1>1, <2>3 DEF AfterCommitted
<1>2. CASE ~(s \in On(ws) /\ ws[s].commit)
  BY <1>2 DEF AfterCommitted
<1> QED
  BY <1>1, <1>2

LEMMA NRowsIs ==
  ASSUME NEW ws, NEW n \in 0..MaxWindow, Span(ws) = 1..n
  PROVE  NRows(ws) = n
<1>1. MaxWindow \in Nat
  BY ConstantsAre
<1>2. \A m \in 0..MaxWindow : Span(ws) = 1..m => m = n
  <2> SUFFICES ASSUME NEW m \in 0..MaxWindow, 1..m = 1..n PROVE m = n
    OBVIOUS
  <2>1. m <= n
    <3>1. CASE m = 0
      BY <3>1, <1>1
    <3>2. CASE m # 0
      <4>1. m \in 1..m
        BY <3>2, <1>1
      <4> QED
        BY <4>1, <1>1
    <3> QED
      BY <3>1, <3>2
  <2>2. n <= m
    <3>1. CASE n = 0
      BY <3>1, <1>1
    <3>2. CASE n # 0
      <4>1. n \in 1..n
        BY <3>2, <1>1
      <4> QED
        BY <4>1, <1>1
    <3> QED
      BY <3>1, <3>2
  <2> QED
    BY <2>1, <2>2, <1>1
<1> QED
  BY <1>2 DEF NRows

\* A chunk, or a window alone, is a batch.
LEMMA AloneIs ==
  ASSUME NEW s \in Slots, NEW n \in Nat, NEW pos0 \in Nat
  PROVE  /\ ChunkOf(s, n, pos0) \in Batches
         /\ ChunkOf(s, n, pos0)[s] = Window(0, n, pos0, n, TRUE)
         /\ \A t \in Slots : t # s => ChunkOf(s, n, pos0)[t] = Window(0, 0, 0, 0, FALSE)
         /\ Span(ChunkOf(s, n, pos0)) = 1..n /\ Laid(ChunkOf(s, n, pos0))
         /\ On(ChunkOf(s, n, pos0)) = IF n > 0 THEN {s} ELSE {}
<1> DEFINE ws == ChunkOf(s, n, pos0)
<1>1. ws \in Batches
  BY DEF ChunkOf, Alone, NoWindows, Window, Batches, Wins
<1>2. ws[s] = Window(0, n, pos0, n, TRUE) /\ \A t \in Slots : t # s => ws[t] = Window(0, 0, 0, 0, FALSE)
  BY DEF ChunkOf, Alone, NoWindows
<1> HIDE DEF ws
<1>3. WinRows(ws[s]) = 1..n /\ \A t \in Slots : t # s => WinRows(ws[t]) = {}
  BY <1>2 DEF WinRows, Window
<1>4. Span(ws) = 1..n
  BY <1>3 DEF Span
<1>5. Laid(ws)
  BY <1>3, <1>4 DEF Laid
<1>6. ws[s].T = n /\ \A t \in Slots : t # s => ws[t].T = 0
  BY <1>2 DEF Window
<1>7. On(ws) = IF n > 0 THEN {s} ELSE {}
  BY <1>6 DEF On
<1> QED
  BY <1>1, <1>2, <1>4, <1>5, <1>7 DEF ws

LEMMA NoWindowsAre == NoWindows \in Batches /\ WellFormed(NoWindows) /\ On(NoWindows) = {}
<1>1. NoWindows \in Batches
  BY DEF NoWindows, Window, Batches, Wins
<1>2. \A t \in Slots : NoWindows[t].T = 0 /\ NoWindows[t].r0 = 0
  BY DEF NoWindows, Window
<1>3. On(NoWindows) = {}
  BY <1>2 DEF On
<1>4. \A t \in Slots : WinRows(NoWindows[t]) = {}
  BY <1>2 DEF WinRows
<1>5. Span(NoWindows) = 1..0
  BY <1>4 DEF Span
<1>6. Packed(NoWindows)
  BY <1>4, <1>5, ConstantsAre DEF Packed
<1> QED
  BY <1>1, <1>3, <1>6 DEF WellFormed

\* What requests bring together is a well-formed batch of their slots, at their positions.
LEMMA SharesAre ==
  ASSUME NEW ss, ss \subseteq Slots, NEW ws \in Shares(ss), hist[1] \in [Slots -> Nat]
  PROVE  ws \in Batches /\ WellFormed(ws) /\ On(ws) = ss /\ \A s \in ss : ws[s].pos0 = hist[1][s]
<1>1. PICK r0 \in [ss -> 0..MaxWindow - 1], how \in [ss -> Hows] : ws = Booked(r0, how) /\ Packed(ws)
  BY DEF Shares
<1>2. ASSUME NEW s \in ss
      PROVE  ws[s] = Window(r0[s], how[s][1], hist[1][s], how[s][2], how[s][1] = 1)
             /\ how[s][1] \in 1..MaxWindow /\ how[s][2] \in 1..MaxWindow /\ how[s][2] <= how[s][1]
  <2>1. how[s] \in Hows
    BY <1>1, <1>2
  <2>2. how[s] \in (1..MaxWindow) \X (1..MaxWindow) /\ how[s][2] <= how[s][1]
    BY <2>1, TwoStagesAssumption
  <2> QED
    BY <2>2, <1>1, <1>2 DEF Booked
<1>3. ASSUME NEW s \in Slots, s \notin ss PROVE ws[s] = Window(0, 0, 0, 0, FALSE)
  BY <1>1, <1>3 DEF Booked, NoWindows
<1>4. ASSUME NEW s \in ss
      PROVE  ws[s] \in Wins /\ ws[s].T > 0 /\ ws[s].right \in 1..ws[s].T /\ (ws[s].commit => ws[s].right = ws[s].T)
             /\ ws[s].pos0 = hist[1][s]
  <2>1. r0[s] \in Nat /\ hist[1][s] \in Nat
    BY <1>1, <1>4, ConstantsAre
  <2>2. PICK one \in BOOLEAN : one = (how[s][1] = 1)
    OBVIOUS
  <2>3. how[s][1] \in Nat /\ how[s][2] \in Nat
    BY <1>2, <1>4, ConstantsAre
  <2>4. ws[s] = Window(r0[s], how[s][1], hist[1][s], how[s][2], one)
    BY <1>2, <1>4, <2>2
  <2>5. /\ ws[s] \in Wins /\ ws[s].T = how[s][1] /\ ws[s].pos0 = hist[1][s] /\ ws[s].right = how[s][2]
        /\ ws[s].commit = one
    BY <2>1, <2>3, <2>4 DEF Window, Wins
  <2>6. one => how[s][1] = 1
    BY <2>2
  <2>7. how[s][1] > 0 /\ how[s][2] > 0 /\ how[s][2] <= how[s][1] /\ (how[s][1] = 1 => how[s][2] = how[s][1])
    BY <1>2, <1>4, ConstantsAre
  <2>8. ws[s].right \in 1..ws[s].T
    BY <2>3, <2>5, <2>7
  <2>9. ws[s].commit => ws[s].right = ws[s].T
    BY <2>5, <2>6, <2>7
  <2> QED
    BY <2>3, <2>5, <2>7, <2>8, <2>9
<1>5. ASSUME NEW s \in Slots, s \notin ss PROVE ws[s] \in Wins /\ ws[s].T = 0
  <2>1. ws[s] = Window(0, 0, 0, 0, FALSE)
    BY <1>3, <1>5
  <2> QED
    BY <2>1, NoWindowIs
<1>6. ws \in Batches
  <2>1. ws = [s \in Slots |-> ws[s]]
    BY <1>1 DEF Booked
  <2> QED
    BY <2>1, <1>4, <1>5 DEF Batches
<1>7. On(ws) = ss
  BY <1>4, <1>5 DEF On
<1> QED
  BY <1>1, <1>4, <1>6, <1>7 DEF WellFormed

-----------------------------------------------------------------------------
(* Types *)

HostTypes ==
  /\ pc \in {"idle", "between", "prepare", "launch", "service", "end", "finish", "read", "wait", "post", "tail", "first token", "settle"}
  /\ call \in Calls \cup {None} /\ mid \in Halves \cup {None} /\ job \in Jobs \cup {None}
  /\ cur \in Slots
Counts    == calls \in Nat /\ failures \in 0..MaxFailures
ReadTypes == rd \in Reads \cup {None} /\ err \in BOOLEAN
SlotTypes ==
  /\ hist \in [Stages -> [Slots -> Nat]] /\ pend \in [Stages -> [Slots -> Nat]] /\ state \in [Stages -> [Slots -> Nat \cup {Junk}]]
  /\ lastRow \in [Stages -> [Slots -> Nat]] /\ lastLane \in [Stages -> [Slots -> Lanes]]
StageTypes == /\ lastT \in [Stages -> Nat] /\ seq \in [Stages -> Nat] /\ par \in [Stages -> Batches]
              /\ joined \in [Stages -> BOOLEAN] /\ commits \in [Stages -> SUBSET Kept] /\ svc \in [Stages -> 0..Layers + 1]
RowTypes == /\ gpu \in [Stages -> Graphs \cup {None}]
            /\ inter \in [Stages -> [Lanes -> Rows]] /\ xfer \in [Lanes -> Rows] /\ pfXfer \in [Lanes -> Rows] /\ logits \in Rows

LEMMA TypeParts == TypeOK <=> HostTypes /\ Counts /\ ReadTypes /\ SlotTypes /\ StageTypes /\ RowTypes
BY DEF TypeOK, HostTypes, Counts, ReadTypes, SlotTypes, StageTypes, RowTypes

LEMMA TypePartsNext == TypeOK' <=> HostTypes' /\ Counts' /\ ReadTypes' /\ SlotTypes' /\ StageTypes' /\ RowTypes'
BY DEF TypeOK, HostTypes, Counts, ReadTypes, SlotTypes, StageTypes, RowTypes

LEMMA TypesInit == Init => TypeOK
<1> SUFFICES ASSUME Init PROVE TypeOK
  OBVIOUS
<1>1. hist \in [Stages -> [Slots -> Nat]] /\ state \in [Stages -> [Slots -> Nat]] /\ pend \in [Stages -> [Slots -> Nat]]
  BY DEF Init
<1>2. lastRow \in [Stages -> [Slots -> Nat]] /\ lastLane \in [Stages -> [Slots -> Lanes]]
  BY DEF Init, Lanes
<1>3. SlotTypes
  BY <1>1, <1>2 DEF SlotTypes
<1>4. StageTypes
  BY NoWindowsAre, ConstantsAre DEF Init, StageTypes
<1>5. <<>> \in Rows
  BY DEF Rows
<1>6. RowTypes
  BY <1>5 DEF Init, RowTypes
<1>7. HostTypes
  BY ConstantsAre DEF Init, HostTypes
<1>9. Counts
  BY ConstantsAre DEF Init, Counts
<1>8. ReadTypes
  BY DEF Init, ReadTypes
<1> QED
  BY <1>3, <1>4, <1>6, <1>7, <1>8, <1>9, TypeParts

LEMMA Updated ==
  ASSUME NEW A, NEW V, NEW f \in [A -> V], NEW a \in A, NEW v \in V
  PROVE  [f EXCEPT ![a] = v] \in [A -> V]
OBVIOUS

LEMMA UpdatedIn ==
  ASSUME NEW A, NEW B, NEW V, NEW f \in [A -> [B -> V]], NEW a \in A, NEW b \in B, NEW v \in V
  PROVE  [f EXCEPT ![a] = [f[a] EXCEPT ![b] = v]] \in [A -> [B -> V]]
OBVIOUS

LEMMA SameSlots == ASSUME SlotTypes, UNCHANGED <<hist, pend, state, lastRow, lastLane>> PROVE SlotTypes'
BY DEF SlotTypes

LEMMA SameStages == ASSUME StageTypes, UNCHANGED <<lastT, seq, par, joined, commits, svc>> PROVE StageTypes'
BY DEF StageTypes

LEMMA SameRows == ASSUME RowTypes, UNCHANGED <<gpu, inter, xfer, pfXfer, logits>> PROVE RowTypes'
BY DEF RowTypes

LEMMA SameReads == ASSUME ReadTypes, UNCHANGED <<rd, err>> PROVE ReadTypes'
BY DEF ReadTypes

LEMMA SameHost == ASSUME HostTypes, UNCHANGED <<pc, call, mid, job, cur>> PROVE HostTypes'
BY DEF HostTypes

LEMMA SameCounts == ASSUME Counts, UNCHANGED <<calls, failures>> PROVE Counts'
BY DEF Counts

LEMMA FailsCounts == ASSUME Counts, Fails, UNCHANGED calls PROVE Counts'
<1>1. calls' = calls /\ failures < MaxFailures /\ failures' = failures + 1 /\ MaxFailures \in Nat
  BY ConstantsAre DEF Fails
<1> QED
  BY <1>1 DEF Counts

LEMMA ChunkStages ==
  ASSUME StageTypes, NEW g \in Stages, NEW s, NEW n, ChunkBooks(g, s, n), UNCHANGED <<commits, svc>>
  PROVE  StageTypes'
<1>1. seq' = [seq EXCEPT ![g] = seq[g] + 1] /\ lastT' = [lastT EXCEPT ![g] = 1] /\ joined' = [joined EXCEPT ![g] = TRUE] /\ par' = par
  BY DEF ChunkBooks
<1>2. seq[g] + 1 \in Nat
  BY DEF StageTypes
<1>3. seq' \in [Stages -> Nat] /\ lastT' \in [Stages -> Nat]
  BY <1>1, <1>2, Updated DEF StageTypes
<1>4. joined' \in [Stages -> BOOLEAN]
  BY <1>1, Updated DEF StageTypes
<1> QED
  BY <1>1, <1>3, <1>4 DEF StageTypes

\* A forward begins.
LEMMA TypesBegin ==
  ASSUME TypeOK, NEW wins \in [Stages -> Batches], NEW lane \in [Stages -> Lanes], NEW piped \in BOOLEAN,
         Begin(wins, lane, piped), mid' \in Halves \cup {None}
  PROVE  TypeOK'
<1>1. call' \in Calls
  BY DEF Begin, Calls
<1>2. HostTypes'
  <2>1. HostTypes
    BY TypeParts
  <2>2. pc' = "prepare" /\ cur' = cur /\ job' = job
    BY DEF Begin
  <2>3. call' \in Calls \cup {None} /\ job' \in Jobs \cup {None} /\ cur' \in Slots
    BY <1>1, <2>1, <2>2 DEF HostTypes
  <2> QED
    BY <2>2, <2>3 DEF HostTypes
<1>4. Counts'
  <2>1. calls' = calls + 1 /\ failures' = failures
    BY DEF Begin
  <2>2. Counts
    BY TypeParts
  <2> QED
    BY <2>1, <2>2 DEF Counts
<1>3. ReadTypes' /\ SlotTypes' /\ StageTypes' /\ RowTypes'
  BY TypeParts, SameReads, SameSlots, SameStages, SameRows DEF Begin, books, dev
<1> QED
  BY <1>2, <1>3, <1>4, TypePartsNext

-----------------------------------------------------------------------------
(* What the steps do, in a state of the invariant *)

LEMMA CallIs ==
  ASSUME IInv, Forwarding
  PROVE  /\ call \in Calls /\ call # None /\ call.piped \in BOOLEAN
         /\ \A g \in Stages : call.wins[g] \in Batches /\ WellFormed(call.wins[g]) /\ call.lane[g] \in Lanes
         /\ \A g \in Stages, s \in Slots : Win(g, s) \in Wins
<1>1. call \in Calls /\ \A g \in Stages : WellFormed(call.wins[g])
  BY DEF IInv, CallOK
<1>2. call.wins \in [Stages -> Batches] /\ call.lane \in [Stages -> Lanes] /\ call.piped \in BOOLEAN
  BY <1>1 DEF Calls
<1>3. \A g \in Stages : call.wins[g] \in Batches /\ call.lane[g] \in Lanes
  BY <1>2
<1>4. \A g \in Stages, s \in Slots : Win(g, s) \in Wins
  BY <1>3 DEF Win, Batches
<1> QED
  BY <1>1, <1>2, <1>3, <1>4, ConstantsAre

LEMMA WinIs ==
  ASSUME NEW w \in Wins
  PROVE  w.r0 \in Nat /\ w.T \in Nat /\ w.pos0 \in Nat /\ w.right \in Nat /\ w.commit \in BOOLEAN
BY DEF Wins

LEMMA GpuIs ==
  ASSUME IInv, NEW g \in Stages, gpu[g] # None
  PROVE  Forwarding /\ pc # "prepare" /\ pc # "launch" /\ pc # "finish" /\ gpu[g] \in Graphs /\ Busy(g)
         /\ gpu[g].lane = call.lane[g] /\ gpu[g].lane \in Lanes
<1>1. pc \in {"service", "end"} /\ Busy(g) /\ gpu[g].lane = call.lane[g]
  BY DEF IInv, DevicesOK, GraphOK, BatchOK, TransitOK
<1>2. gpu[g] \in Graphs
  BY TypeParts DEF IInv, RowTypes
<1> QED
  BY <1>1, <1>2 DEF Forwarding, Graphs

\* A graph that begins reads the rows and states of its batch, and its rows are the batch's.
LEMMA BeginRight ==
  ASSUME IInv, NEW g \in Stages, GpuBegin(g)
  PROVE  /\ At(g) = "booked" /\ Forwarding /\ Busy(g) /\ commits[g] = {} /\ gpu[g] \in Graphs /\ gpu[g].at = "begin"
         /\ \A s \in On(call.wins[g]) : state[g][s] = Win(g, s).pos0
         /\ gpu' = [gpu EXCEPT ![g] = [gpu[g] EXCEPT !.at = "plan", !.rows = AllRows(call.wins[g])]]
         /\ inter' = [inter EXCEPT ![g] = [inter[g] EXCEPT ![call.lane[g]] = AllRows(call.wins[g])]]
         /\ state' = [state EXCEPT ![g] = AfterCommitted(call.wins[g], AllRows(call.wins[g]), state[g])]
<1> DEFINE in  == IF g = 1 THEN AllRows(par[g]) ELSE xfer[gpu[g].lane]
           out == Through(par[g], in, state[g])
<1>1. gpu[g] # None /\ gpu[g].at = "begin"
  BY DEF GpuBegin
<1>2. Forwarding /\ pc # "prepare" /\ pc # "launch" /\ pc # "finish" /\ gpu[g] \in Graphs /\ Busy(g) /\ gpu[g].lane = call.lane[g]
  BY <1>1, GpuIs
<1>3. At(g) = "booked"
  BY <1>1, <1>2 DEF At
<1>4. joined[g] /\ par[g] = call.wins[g]
  BY <1>2, <1>3 DEF IInv, DevicesOK, GraphOK, BatchOK, TransitOK
<1>5. commits[g] = {}
  BY <1>4 DEF GpuBegin
<1>6. call.wins[g] \in Batches /\ WellFormed(call.wins[g]) /\ Laid(call.wins[g])
  BY <1>2, CallIs, PackedLaid DEF WellFormed
<1>7. ASSUME NEW s \in On(call.wins[g]) PROVE state[g][s] = Win(g, s).pos0
  <2>1. s \in Slots /\ In(g, s)
    BY <1>7 DEF On, In
  <2>2. Waits(g, s, Win(g, s), call.lane[g])
    BY <1>2, <1>3, <2>1 DEF IInv, Accounts, Account
  <2> QED
    BY <2>2, <1>5 DEF Waits, NotRun, Reaches
<1>8. in = AllRows(call.wins[g])
  <2>1. CASE g = 1
    BY <2>1, <1>4
  <2>2. CASE g = 2
    <3>1. CASE call.piped
      BY <2>2, <3>1, <1>2, ConstantsAre DEF IInv, DevicesOK, GraphOK, BatchOK, TransitOK
    <3>2. CASE ~call.piped
      <4>1. gpu[2].after
        BY <1>1, <2>2, <3>2, ConstantsAre DEF IInv, DevicesOK, GraphOK, BatchOK, TransitOK
      <4>2. gpu[1] = None
        BY <4>1, <2>2 DEF GpuBegin
      <4>3. call.wins[1] = call.wins[2] /\ call.lane[1] = call.lane[2]
        BY <3>2, <1>2 DEF IInv, CallOK
      <4>4. Busy(1)
        BY <4>3, <1>2, <2>2 DEF Busy
      <4>5. pc \in {"service", "end"}
        BY <1>1 DEF IInv, DevicesOK, GraphOK, BatchOK, TransitOK
      <4>6. xfer[call.lane[1]] = AllRows(call.wins[1])
        BY <4>2, <4>4, <4>5, <1>2, ConstantsAre DEF IInv, DevicesOK, GraphOK, BatchOK, TransitOK
      <4> QED
        BY <4>3, <4>6, <2>2, <1>2, ConstantsAre
    <3> QED
      BY <3>1, <3>2
  <2> QED
    BY <2>1, <2>2, ConstantsAre
<1>9. out = AllRows(call.wins[g])
  <2>1. \A s \in On(call.wins[g]) : state[g][s] = call.wins[g][s].pos0
    BY <1>7 DEF Win
  <2> QED
    BY <2>1, <1>4, <1>6, <1>8, ThroughRight
<1>10. /\ gpu'   = [gpu EXCEPT ![g].at = "plan", ![g].rows = out]
       /\ inter' = [inter EXCEPT ![g][gpu[g].lane] = out]
       /\ state' = [state EXCEPT ![g] = AfterCommitted(par[g], out, @)]
  BY DEF GpuBegin
<1> HIDE DEF in, out
<1>11. gpu' = [gpu EXCEPT ![g] = [gpu[g] EXCEPT !.at = "plan", !.rows = AllRows(call.wins[g])]]
  BY <1>9, <1>10, TypeParts DEF IInv, RowTypes
<1>12. inter' = [inter EXCEPT ![g] = [inter[g] EXCEPT ![call.lane[g]] = AllRows(call.wins[g])]]
  BY <1>2, <1>9, <1>10
<1>13. state' = [state EXCEPT ![g] = AfterCommitted(call.wins[g], AllRows(call.wins[g]), state[g])]
  BY <1>4, <1>9, <1>10
<1> QED
  BY <1>1, <1>2, <1>3, <1>5, <1>7, <1>11, <1>12, <1>13

\* Where a commit is to come, the account of its slot says so.
LEMMA CommitAwaited ==
  ASSUME IInv, NEW g \in Stages, NEW s \in Slots, \E c \in commits[g] : c.slot = s
  PROVE  \E n : Reaches(g, s, n)
<1>1. CASE Forwarding /\ In(g, s)
  <2>1. At(g) \in {"new", "booked", "ran", "ended"}
    BY DEF At
  <2>2. New(g, s, Win(g, s)) \/ Waits(g, s, Win(g, s), call.lane[g]) \/ HasRun(g, s, Win(g, s), call.lane[g])
    BY <1>1, <2>1 DEF IInv, Accounts, Account, Ran, Ended
  <2> QED
    BY <2>2 DEF New, Waits, NotRun, HasRun
<1>2. CASE s \in On(Half(g))
  <2>1. Ended(g, s, Half(g)[s], HalfLane(g)) \/ New(g, s, Half(g)[s])
    BY <1>2 DEF IInv, Accounts, Account
  <2> QED
    BY <2>1 DEF New, NotRun, Ended, HasRun
<1>3. CASE ~(Forwarding /\ In(g, s)) /\ s \notin On(Half(g))
  BY <1>3 DEF IInv, Accounts, Account, Free
<1> QED
  BY <1>1, <1>2, <1>3

\* A commit brings the state of its slot on by the tokens kept.
LEMMA CommitRight ==
  ASSUME IInv, NEW g \in Stages, Commit(g)
  PROVE  \E c \in commits[g] :
           /\ c \in Kept /\ state[g][c.slot] \in Nat /\ \A d \in commits[g] : d.slot = c.slot => d = c
           /\ RowsKept(inter[g][c.lane], c.slot, c.r0, state[g][c.slot], c.n)
           /\ state' = [state EXCEPT ![g] = [state[g] EXCEPT ![c.slot] = state[g][c.slot] + c.n]]
           /\ commits' = [commits EXCEPT ![g] = commits[g] \ {c}]
<1>1. PICK c \in commits[g] :
        /\ state' = [state EXCEPT ![g][c.slot] = Consumed(c.slot, state[g][c.slot], inter[g][c.lane], c.r0, c.n)]
        /\ commits' = [commits EXCEPT ![g] = commits[g] \ {c}]
  <2>1. PICK c \in commits[g] :
          /\ state' = [state EXCEPT ![g][c.slot] = Consumed(c.slot, @, inter[g][c.lane], c.r0, c.n)]
          /\ commits' = [commits EXCEPT ![g] = @ \ {c}]
    BY DEF Commit
  <2> QED
    BY <2>1
<1>2. c \in Kept
  BY TypeParts DEF IInv, StageTypes
<1>3. c.slot \in Slots /\ c.n \in Nat
  BY <1>2 DEF Kept
<1>4. PICK n : Reaches(g, c.slot, n)
  BY <1>3, CommitAwaited
<1>5. /\ state[g][c.slot] \in Nat /\ \A d \in commits[g] : d.slot = c.slot => d = c
      /\ RowsKept(inter[g][c.lane], c.slot, c.r0, state[g][c.slot], c.n)
  BY <1>4 DEF Reaches
<1>6. Consumed(c.slot, state[g][c.slot], inter[g][c.lane], c.r0, c.n) = state[g][c.slot] + c.n
  BY <1>3, <1>5, ConsumedRight
<1> QED
  BY <1>1, <1>2, <1>5, <1>6

\* When a forward has ended, both stages have ended the second one's windows.
LEMMA EndedBoth ==
  ASSUME IInv, pc = "finish", NEW s \in On(call.wins[2]), NEW g \in Stages
  PROVE  Ended(g, s, Win(2, s), call.lane[2])
<1>1. Forwarding /\ s \in Slots /\ In(2, s)
  BY DEF Forwarding, On, In
<1>2. \A h \in Stages : At(h) = "ended"
  <2>1. \A h \in Stages : gpu[h] = None
    BY DEF IInv, DevicesOK, GraphOK, BatchOK, TransitOK
  <2> QED
    BY <2>1 DEF At
<1>3. CASE g = 2
  BY <1>1, <1>2, <1>3 DEF IInv, Accounts, Account
<1>4. CASE g = 1 /\ ~call.piped
  <2>1. call.wins[1] = call.wins[2] /\ call.lane[1] = call.lane[2]
    BY <1>1, <1>4 DEF IInv, CallOK
  <2>2. In(1, s) /\ Win(1, s) = Win(2, s)
    BY <1>1, <2>1 DEF In, Win
  <2>3. Ended(1, s, Win(1, s), call.lane[1])
    BY <1>1, <1>2, <1>4, <2>2 DEF IInv, Accounts, Account
  <2> QED
    BY <2>1, <2>2, <2>3, <1>4
<1>5. CASE g = 1 /\ call.piped
  <2>1. Half(1) = call.wins[2] /\ HalfLane(1) = call.lane[2]
    BY <1>1, <1>5 DEF Half, HalfLane
  <2>2. s \in On(Half(1))
    BY <2>1
  <2>3. Ended(1, s, Half(1)[s], HalfLane(1))
    BY <1>1, <1>5, <2>2 DEF IInv, Accounts, Account
  <2> QED
    BY <2>1, <2>3, <1>5 DEF Win
<1> QED
  BY <1>3, <1>4, <1>5, ConstantsAre

\* The slot a prompt is read into has no window but its tail's.
LEMMA ReadingFree ==
  ASSUME IInv, rd # None, ~TailWindow, NEW g \in Stages
  PROVE  Free(g, Reading) /\ ~(Forwarding /\ In(g, Reading)) /\ Reading \notin On(Half(g))
<1>1. mid = None
  BY DEF IInv, ReadOK, ReadPc, JobOK, ReadBooks, TailOK
<1>2. Forwarding => ~call.piped /\ call.wins[1] = call.wins[2]
  BY DEF IInv, CallOK
<1>3. Forwarding => ~In(2, Reading)
  BY DEF TailWindow
<1>4. ~(Forwarding /\ In(g, Reading))
  BY <1>2, <1>3, ConstantsAre DEF In
<1>5. Half(g) = NoWindows
  BY <1>1, <1>2 DEF Half
<1>6. Reading \notin On(Half(g))
  BY <1>5, NoWindowsAre
<1> QED
  BY <1>4, <1>6, ConstantsAre DEF IInv, Accounts, Account

LEMMA ReadsAre ==
  ASSUME IInv, rd # None
  PROVE  /\ rd \in Reads /\ rd.total \in Nat /\ rd.total > 0 /\ rd.i \in Nat /\ rd.i <= rd.total /\ Left \in Nat /\ rd.buf \in {0, 1}
         /\ rd.buf \in Lanes /\ rd.posted \in BOOLEAN /\ rd.next \in {"read", "post", "tail"}
         /\ ChunkLen \in Nat /\ ChunkLen <= Left /\ (Left > 0 => ChunkLen > 0)
<1>1. rd \in Reads
  BY TypeParts DEF IInv, ReadTypes
<1>2. rd.total \in Prompts /\ rd.i \in Nat /\ rd.buf \in {0, 1} /\ rd.posted \in BOOLEAN /\ rd.next \in {"read", "post", "tail"}
  BY <1>1 DEF Reads
<1>3. rd.i <= rd.total
  BY DEF IInv, ReadOK, ReadPc, JobOK, ReadBooks, TailOK
<1>4. rd.total \in Nat /\ rd.total > 0
  BY <1>2, ConstantsAre
<1>5. Left \in Nat
  BY <1>2, <1>3, <1>4 DEF Left
<1>6. ChunkLen \in Nat /\ ChunkLen <= Left /\ (Left > 0 => ChunkLen > 0)
  <2>1. Chunk \in Nat /\ Chunk > 0
    BY ConstantsAre
  <2> QED
    BY <1>5, <2>1 DEF ChunkLen
<1> QED
  BY <1>1, <1>2, <1>3, <1>4, <1>5, <1>6 DEF Lanes

\* the last row of a chunk
LEMMA ChunkRows ==
  ASSUME NEW n \in Nat, NEW pos0 \in Nat, n > 0
  PROVE  /\ AllRows(ChunkOf(Reading, n, pos0)) \in Rows
         /\ AllRows(ChunkOf(Reading, n, pos0))[n] = <<Reading, pos0 + n, TRUE>>
         /\ RowsKept(AllRows(ChunkOf(Reading, n, pos0)), Reading, 0, pos0, n)
<1> DEFINE ws == ChunkOf(Reading, n, pos0)
<1>1. ws \in Batches /\ ws[Reading] = Window(0, n, pos0, n, TRUE) /\ Laid(ws)
  BY AloneIs, ConstantsAre
<1> HIDE DEF ws
<1>2. ws[Reading].r0 = 0 /\ ws[Reading].T = n /\ ws[Reading].pos0 = pos0 /\ ws[Reading].right = n
  BY <1>1 DEF Window
<1>3. AllRows(ws) \in Rows
  BY <1>1, AllRowsType
<1>4. RowsKept(AllRows(ws), Reading, 0, pos0, n)
  <2>1. Reading \in Slots /\ n <= ws[Reading].T /\ n <= ws[Reading].right
    BY <1>2, ConstantsAre
  <2>2. RowsKept(AllRows(ws), Reading, ws[Reading].r0, ws[Reading].pos0, n)
    BY <1>1, <2>1, RowsKeptOf
  <2> QED
    BY <1>2, <2>2
<1>5. AllRows(ws)[n] = <<Reading, pos0 + n, TRUE>>
  <2>1. n \in 1..n /\ 0 + n = n
    OBVIOUS
  <2>2. AllRows(ws)[0 + n] = <<Reading, pos0 + n, TRUE>>
    BY <1>4, <2>1 DEF RowsKept
  <2> QED
    BY <2>1, <2>2
<1> QED
  BY <1>3, <1>4, <1>5 DEF ws

\* A chunk that follows on the state of the slot comes out as it came in, and the state follows.
LEMMA ChunkThrough ==
  ASSUME NEW n \in Nat, NEW pos0 \in Nat, n > 0, NEW g \in Stages, state[g][Reading] = pos0
  PROVE  /\ ThroughChunk(g, Reading, n, pos0, AllRows(ChunkOf(Reading, n, pos0))) = AllRows(ChunkOf(Reading, n, pos0))
         /\ Consumed(Reading, pos0, AllRows(ChunkOf(Reading, n, pos0)), 0, n) = pos0 + n
<1> DEFINE ws == ChunkOf(Reading, n, pos0)
<1>1. ws \in Batches /\ ws[Reading] = Window(0, n, pos0, n, TRUE) /\ Laid(ws) /\ On(ws) = {Reading}
  <2>1. Reading \in Slots
    BY ConstantsAre
  <2>2. ws \in Batches /\ ws[Reading] = Window(0, n, pos0, n, TRUE) /\ Laid(ws)
    BY <2>1, AloneIs
  <2>3. On(ws) = IF n > 0 THEN {Reading} ELSE {}
    BY <2>1, AloneIs
  <2> QED
    BY <2>2, <2>3
<1>2. ws[Reading].pos0 = pos0
  BY <1>1 DEF Window
<1>3. Through(ws, AllRows(ws), state[g]) = AllRows(ws)
  <2> HIDE DEF ws
  <2>1. \A s \in On(ws) : state[g][s] = ws[s].pos0
    BY <1>1, <1>2
  <2> QED
    BY <1>1, <2>1, ThroughRight
<1>4. Consumed(Reading, pos0, AllRows(ws), 0, n) = pos0 + n
  <2>1. RowsKept(AllRows(ws), Reading, 0, pos0, n)
    BY ChunkRows
  <2> HIDE DEF ws
  <2> QED
    BY <2>1, ConsumedRight
<1> QED
  BY <1>3, <1>4 DEF ThroughChunk

LEMMA ReadChunkRight ==
  ASSUME IInv, ReadChunk
  PROVE  /\ rd # None /\ pc = "read" /\ cur = Reading /\ ~TailWindow /\ hist[1][Reading] = rd.i /\ ChunkLen > 0 /\ commits[1] = {}
         /\ Left >= PrefillMin /\ ~Forwarding
         /\ hist'   = [hist EXCEPT ![1] = [hist[1] EXCEPT ![Reading] = rd.i + ChunkLen]]
         /\ state'  = [state EXCEPT ![1] = [state[1] EXCEPT ![Reading] = rd.i + ChunkLen]]
         /\ pfXfer' = [pfXfer EXCEPT ![rd.buf] = AllRows(ChunkOf(Reading, ChunkLen, rd.i))]
<1>1. pc = "read" /\ Left >= PrefillMin /\ commits[1] = {} /\ ~Forwarding /\ ~TailWindow
  BY DEF ReadChunk, Forwarding, TailWindow
<1>2. rd # None /\ cur = Reading
  BY <1>1 DEF IInv, ReadOK, ReadPc, JobOK, ReadBooks, TailOK
<1>3. hist[1][Reading] = rd.i
  <2>1. ~Handing
    BY <1>1 DEF Handing
  <2>2. hist[1][Reading] = rd.i + 0
    BY <1>1, <1>2, <2>1 DEF IInv, ReadOK, ReadPc, JobOK, ReadBooks, TailOK
  <2> QED
    BY <2>2, <1>2, ReadsAre
<1>4. ChunkLen \in Nat /\ ChunkLen > 0 /\ rd.i \in Nat
  BY <1>1, <1>2, ReadsAre, ConstantsAre
<1>5. Free(1, Reading)
  BY <1>1, <1>2, ReadingFree, ConstantsAre
<1>6. state[1][Reading] = rd.i
  BY <1>1, <1>3, <1>5 DEF Free, Reaches
<1> DEFINE n   == ChunkLen
           in  == AllRows(ChunkOf(cur, n, hist[1][cur]))
           out == ThroughChunk(1, cur, n, hist[1][cur], in)
<1>7. /\ hist' = [hist EXCEPT ![1][cur] = @ + n]
      /\ pfXfer' = [pfXfer EXCEPT ![rd.buf] = out]
      /\ state' = [state EXCEPT ![1][cur] = Consumed(cur, @, out, 0, n)]
  BY DEF ReadChunk, ChunkBooks
<1>8. out = AllRows(ChunkOf(Reading, n, rd.i)) /\ Consumed(Reading, rd.i, AllRows(ChunkOf(Reading, n, rd.i)), 0, n) = rd.i + n
  BY <1>2, <1>3, <1>4, <1>6, ChunkThrough, ConstantsAre
<1> HIDE DEF n, in, out
<1>9. /\ hist'   = [hist EXCEPT ![1] = [hist[1] EXCEPT ![Reading] = rd.i + n]]
      /\ state'  = [state EXCEPT ![1] = [state[1] EXCEPT ![Reading] = rd.i + n]]
      /\ pfXfer' = [pfXfer EXCEPT ![rd.buf] = AllRows(ChunkOf(Reading, n, rd.i))]
  BY <1>2, <1>3, <1>6, <1>7, <1>8
<1> QED
  BY <1>1, <1>2, <1>3, <1>4, <1>9 DEF n

LEMMA JobIs ==
  ASSUME IInv, job # None
  PROVE  /\ job \in Jobs /\ rd # None /\ rd.posted /\ pc \in {"read", "wait", "settle"} /\ ~Forwarding /\ ~TailWindow /\ ~err
         /\ job.slot = Reading /\ job.buf \in Lanes /\ job.buf # rd.buf /\ job.n \in Nat /\ job.n > 0 /\ job.pos0 \in Nat
         /\ hist[2][Reading] = job.pos0 /\ job.pos0 + job.n = rd.i
         /\ pfXfer[job.buf] = AllRows(ChunkOf(Reading, job.n, job.pos0))
<1>1. job \in Jobs
  BY TypeParts DEF IInv, HostTypes
<1>2. job.buf \in Lanes /\ job.n \in Nat /\ job.pos0 \in Nat
  BY <1>1 DEF Jobs, Lanes
<1>3. /\ rd # None /\ rd.posted /\ pc \in {"read", "wait", "settle"} /\ ~err
      /\ job.slot = Reading /\ job.buf # rd.buf /\ job.n > 0 /\ hist[2][Reading] = job.pos0
      /\ job.pos0 + job.n = rd.i /\ pfXfer[job.buf] = AllRows(ChunkOf(Reading, job.n, job.pos0))
  BY DEF IInv, ReadOK, ReadPc, JobOK, ReadBooks, TailOK
<1>4. ~Forwarding /\ ~TailWindow
  BY <1>3 DEF Forwarding, TailWindow
<1> QED
  BY <1>1, <1>2, <1>3, <1>4

LEMMA WorkRight ==
  ASSUME IInv, Work
  PROVE  /\ job # None /\ commits[2] = {}
         /\ hist'   = [hist EXCEPT ![2] = [hist[2] EXCEPT ![Reading] = rd.i]]
         /\ state'  = [state EXCEPT ![2] = [state[2] EXCEPT ![Reading] = rd.i]]
         /\ logits' = << <<Reading, rd.i, TRUE>> >>
<1>1. job # None /\ commits[2] = {}
  BY DEF Work
<1>2. /\ job \in Jobs /\ rd # None /\ ~Forwarding /\ ~TailWindow
      /\ job.slot = Reading /\ job.buf \in Lanes /\ job.buf # rd.buf /\ job.n \in Nat /\ job.n > 0 /\ job.pos0 \in Nat
      /\ hist[2][Reading] = job.pos0 /\ job.pos0 + job.n = rd.i
      /\ pfXfer[job.buf] = AllRows(ChunkOf(Reading, job.n, job.pos0))
  BY <1>1, JobIs
<1>3. Free(2, Reading)
  BY <1>2, ReadingFree, ConstantsAre
<1>4. state[2][Reading] = job.pos0
  BY <1>1, <1>2, <1>3 DEF Free, Reaches
<1> DEFINE n   == job.n
           out == ThroughChunk(2, job.slot, n, hist[2][job.slot], pfXfer[job.buf])
<1>5. /\ hist' = [hist EXCEPT ![2][job.slot] = @ + n]
      /\ state' = [state EXCEPT ![2][job.slot] = Consumed(job.slot, @, out, 0, n)]
      /\ logits' = <<out[n]>>
  BY DEF Work, ChunkBooks
<1>6. out = AllRows(ChunkOf(Reading, n, job.pos0)) /\ Consumed(Reading, job.pos0, AllRows(ChunkOf(Reading, n, job.pos0)), 0, n) = job.pos0 + n
  BY <1>2, <1>4, ChunkThrough, ConstantsAre
<1>7. AllRows(ChunkOf(Reading, n, job.pos0))[n] = <<Reading, job.pos0 + n, TRUE>>
  BY <1>2, ChunkRows
<1> HIDE DEF out
<1> QED
  BY <1>1, <1>2, <1>4, <1>5, <1>6, <1>7

LEMMA NRowsType == ASSUME NEW ws, WellFormed(ws) PROVE NRows(ws) \in Nat /\ Span(ws) = 1..NRows(ws)
<1>1. PICK n \in 0..MaxWindow : Span(ws) = 1..n
  BY DEF WellFormed, Packed
<1>2. NRows(ws) = n /\ n \in Nat
  BY <1>1, NRowsIs, ConstantsAre
<1> QED
  BY <1>1, <1>2

LEMMA ActiveIs == Active \subseteq Slots /\ \A l : LaneSlots(l) \subseteq Active
BY DEF Active, Slots, LaneSlots

\* A round's batch.
LEMMA BatchIs ==
  ASSUME IInv, Batch
  PROVE  \E ws \in Batches : /\ WellFormed(ws) /\ On(ws) = Active /\ \A s \in Active : ws[s].pos0 = hist[1][s]
                             /\ Begin([g \in Stages |-> ws], [g \in Stages |-> 0], FALSE)
<1>1. PICK ws \in Shares(Active) : Begin([g \in Stages |-> ws], [g \in Stages |-> 0], FALSE)
  BY DEF Batch
<1>2. hist[1] \in [Slots -> Nat]
  BY TypeParts, ConstantsAre DEF IInv, SlotTypes
<1>3. ws \in Batches /\ WellFormed(ws) /\ On(ws) = Active /\ \A s \in Active : ws[s].pos0 = hist[1][s]
  BY <1>2, ActiveIs, SharesAre
<1> QED
  BY <1>1, <1>3

\* A lane's batch on the first stage, and the other's on the second.
LEMMA PipeStepIs ==
  ASSUME IInv, PipeStep
  PROVE  \E ws \in Batches, half \in Batches, x \in Lanes :
           /\ WellFormed(ws) /\ On(ws) = LaneSlots(x) /\ \A s \in On(ws) : ws[s].pos0 = hist[1][s]
           /\ WellFormed(half) /\ IF mid = None THEN half = NoWindows ELSE half = mid.wins /\ mid.lane = 1 - x
           /\ Begin(PerStage(ws, half), PerStage(x, 1 - x), TRUE) /\ mid' = [lane |-> x, wins |-> ws]
<1> DEFINE x    == IF mid # None /\ mid.lane = 0 THEN 1 ELSE 0
           half == IF mid = None THEN NoWindows ELSE mid.wins
<1>1. PICK ws \in Shares(LaneSlots(x)) : Begin(PerStage(ws, half), PerStage(x, 1 - x), TRUE) /\ mid' = [lane |-> x, wins |-> ws]
  BY DEF PipeStep
<1>2. hist[1] \in [Slots -> Nat] /\ mid \in Halves \cup {None}
  BY TypeParts, ConstantsAre DEF IInv, SlotTypes, HostTypes
<1>3. LaneSlots(x) \subseteq Slots
  BY ActiveIs
<1>4. ws \in Batches /\ WellFormed(ws) /\ On(ws) = LaneSlots(x) /\ \A s \in LaneSlots(x) : ws[s].pos0 = hist[1][s]
  BY <1>2, <1>3, SharesAre
<1>5. x \in Lanes /\ (mid # None => mid.lane = 1 - x)
  BY <1>2 DEF Halves, Lanes
<1>6. half \in Batches /\ WellFormed(half)
  BY <1>2, NoWindowsAre DEF IInv, CallOK, Halves
<1> QED
  BY <1>1, <1>4, <1>5, <1>6

LEMMA ChunkWellFormed ==
  ASSUME NEW s \in Slots, NEW n \in 0..MaxWindow, NEW pos0 \in Nat
  PROVE  ChunkOf(s, n, pos0) \in Batches /\ WellFormed(ChunkOf(s, n, pos0))
<1> DEFINE ws == ChunkOf(s, n, pos0)
<1>1. n \in Nat /\ MaxWindow \in Nat
  BY ConstantsAre
<1>2. ws \in Batches /\ ws[s] = Window(0, n, pos0, n, TRUE) /\ Laid(ws) /\ Span(ws) = 1..n /\ On(ws) = IF n > 0 THEN {s} ELSE {}
  BY <1>1, AloneIs
<1> HIDE DEF ws
<1>3. ws[s].T = n /\ ws[s].right = n
  BY <1>2 DEF Window
<1>4. ASSUME NEW t \in On(ws) PROVE ws[t].right \in 1..ws[t].T /\ ws[t].right = ws[t].T
  <2>1. t = s /\ n > 0
    BY <1>1, <1>2, <1>4
  <2> QED
    BY <1>1, <1>3, <2>1
<1> QED
  BY <1>2, <1>4 DEF ws, WellFormed, Packed, Laid

LEMMA TypesStep == ASSUME IInv, Next PROVE TypeOK'
<1>t. HostTypes /\ Counts /\ ReadTypes /\ SlotTypes /\ StageTypes /\ RowTypes
  BY TypeParts DEF IInv
<1> SUFFICES HostTypes' /\ Counts' /\ ReadTypes' /\ SlotTypes' /\ StageTypes' /\ RowTypes'
  BY TypePartsNext
<1>1. CASE Batch
  <2>1. PICK ws \in Batches : Begin([g \in Stages |-> ws], [g \in Stages |-> 0], FALSE)
    BY <1>1, BatchIs
  <2>2. [g \in Stages |-> ws] \in [Stages -> Batches] /\ [g \in Stages |-> 0] \in [Stages -> Lanes]
    BY DEF Lanes
  <2>3. mid' \in Halves \cup {None}
    BY <1>t, <1>1 DEF HostTypes, Batch
  <2>4. TypeOK'
    BY <2>1, <2>2, <2>3, TypesBegin DEF IInv
  <2> QED
    BY <2>4, TypePartsNext
<1>2. CASE PipeStep
  <2>1. PICK ws \in Batches, half \in Batches, x \in Lanes :
          Begin(PerStage(ws, half), PerStage(x, 1 - x), TRUE) /\ mid' = [lane |-> x, wins |-> ws]
    BY <1>2, PipeStepIs
  <2>2. PerStage(ws, half) \in [Stages -> Batches] /\ PerStage(x, 1 - x) \in [Stages -> Lanes]
    BY DEF PerStage, Lanes
  <2>3. mid' \in Halves \cup {None}
    BY <2>1 DEF Halves
  <2>4. TypeOK'
    BY <2>1, <2>2, <2>3, TypesBegin DEF IInv
  <2> QED
    BY <2>4, TypePartsNext
<1>3. CASE PipeDrain
  <2>1. mid \in Halves /\ mid' = None /\ Begin(PerStage(NoWindows, mid.wins), PerStage(1 - mid.lane, mid.lane), TRUE)
    BY <1>t, <1>3 DEF PipeDrain, HostTypes
  <2>2. mid.wins \in Batches /\ mid.lane \in Lanes
    BY <2>1 DEF Halves
  <2>3. PerStage(NoWindows, mid.wins) \in [Stages -> Batches] /\ PerStage(1 - mid.lane, mid.lane) \in [Stages -> Lanes]
    BY <2>2, NoWindowsAre DEF PerStage, Lanes
  <2>4. TypeOK'
    BY <2>1, <2>3, TypesBegin DEF IInv
  <2> QED
    BY <2>4, TypePartsNext
<1>4. CASE Read
  <2>1. HostTypes'
    BY <1>t, <1>4, ConstantsAre DEF HostTypes, Read
  <2>2. ReadTypes'
    BY <1>t, <1>4, ConstantsAre DEF ReadTypes, Read, Reads
  <2>3. StageTypes'
    BY <1>t, <1>4 DEF StageTypes, Read, books
  <2> QED
    BY <1>t, <1>4, <2>1, <2>2, <2>3, SameCounts, SameSlots, SameRows DEF Read, books, dev
<1>5. CASE Prepare
  <2>0. Forwarding
    BY <1>5 DEF Prepare, Forwarding
  <2>1. HostTypes'
    BY <1>t, <1>5 DEF HostTypes, Prepare
  <2>2. \A g \in Stages : call.wins[g] \in Batches /\ call.lane[g] \in Lanes /\ NRows(call.wins[g]) \in Nat
    BY <2>0, CallIs, NRowsType
  <2>3. ASSUME NEW g \in Stages, NEW s \in Slots PROVE Win(g, s).T \in Nat /\ Win(g, s).r0 \in Nat
    BY <2>0, CallIs, WinIs
  <2>4. SlotTypes'
    <3>1. hist' \in [Stages -> [Slots -> Nat]]
      BY <1>t, <1>5, <2>3 DEF SlotTypes, Prepare
    <3>2. lastRow' \in [Stages -> [Slots -> Nat]] /\ lastLane' \in [Stages -> [Slots -> Lanes]]
      BY <1>t, <1>5, <2>2, <2>3 DEF SlotTypes, Prepare
    <3> QED
      BY <1>t, <1>5, <3>1, <3>2 DEF SlotTypes, Prepare, dev
  <2>5. StageTypes'
    <3>1. lastT' \in [Stages -> Nat] /\ seq' \in [Stages -> Nat] /\ par' \in [Stages -> Batches]
      BY <1>t, <1>5, <2>2 DEF StageTypes, Prepare
    <3>2. joined' \in [Stages -> BOOLEAN]
      BY <1>t, <1>5 DEF StageTypes, Prepare, Join
    <3> QED
      BY <1>t, <1>5, <3>1, <3>2 DEF StageTypes, Prepare
  <2> QED
    BY <1>t, <1>5, <2>1, <2>4, <2>5, SameReads, SameCounts, SameRows DEF Prepare, dev
<1>6. CASE Launch
  <2>0. Forwarding
    BY <1>6 DEF Launch, Forwarding
  <2>1. HostTypes'
    BY <1>t, <1>6 DEF HostTypes, Launch
  <2>2. \A g \in Stages : call.lane[g] \in Lanes /\ call.piped \in BOOLEAN /\ seq[g] \in Nat
    BY <1>t, <2>0, CallIs DEF StageTypes
  <2>3. ASSUME NEW g \in Stages PROVE gpu'[g] \in Graphs \cup {None}
    <3>1. <<>> \in Rows
      BY DEF Rows
    <3>2. CASE ~Busy(g)
      BY <1>6, <3>2 DEF Launch
    <3>3. CASE Busy(g)
      <4>1. gpu'[g] = [at |-> "begin", layer |-> 1, rows |-> <<>>, lane |-> call.lane[g], after |-> g = 2 /\ ~call.piped, seq |-> seq[g]]
        BY <1>6, <3>3 DEF Launch
      <4>2. (g = 2 /\ ~call.piped) \in BOOLEAN
        OBVIOUS
      <4> QED
        BY <2>2, <3>1, <4>1, <4>2 DEF Graphs
    <3> QED
      BY <3>2, <3>3
  <2>4. gpu' \in [Stages -> Graphs \cup {None}]
    BY <1>6, <2>3 DEF Launch
  <2>5. RowTypes'
    BY <1>t, <1>6, <2>4 DEF RowTypes, Launch
  <2>6. svc' \in [Stages -> 0..Layers + 1]
    BY <1>6, ConstantsAre DEF Launch, ServiceFrom
  <2>7. StageTypes'
    BY <1>t, <1>6, <2>6 DEF StageTypes, Launch, books
  <2> QED
    BY <1>t, <1>6, <2>1, <2>5, <2>7, SameReads, SameCounts, SameSlots DEF Launch, books
<1>7. CASE ServiceEnd
  <2>1. HostTypes'
    BY <1>t, <1>7 DEF HostTypes, ServiceEnd
  <2>2. StageTypes'
    BY <1>t, <1>7, ConstantsAre DEF StageTypes, ServiceEnd, books
  <2> QED
    BY <1>t, <1>7, <2>1, <2>2, SameReads, SameCounts, SameSlots, SameRows DEF ServiceEnd, books, dev
<1>8. CASE End
  <2>0. Forwarding
    BY <1>8 DEF End, Forwarding
  <2>1. HostTypes'
    BY <1>t, <1>8 DEF HostTypes, End
  <2>2. ASSUME NEW g \in Stages, NEW s \in Slots PROVE Win(g, s).T \in Nat
    BY <2>0, CallIs, WinIs
  <2>3. pend' \in [Stages -> [Slots -> Nat]]
    BY <1>t, <1>8, <2>2 DEF SlotTypes, End
  <2>4. SlotTypes'
    BY <1>t, <1>8, <2>3 DEF SlotTypes, End, dev
  <2> QED
    BY <1>t, <1>8, <2>1, <2>4, SameReads, SameCounts, SameStages, SameRows DEF End, dev
<1>9. CASE Finish
  <2>0. Forwarding
    BY <1>9 DEF Finish, Forwarding
  <2>1. HostTypes'
    <3>1. pc' \in {"idle", "between", "read"} /\ cur' \in Slots
      BY <1>t, <1>9 DEF Finish, HostTypes, On
    <3>2. call' = None /\ mid' = mid /\ job' = job
      BY <1>9 DEF Finish
    <3> QED
      BY <1>t, <3>1, <3>2 DEF HostTypes
  <2>2. ReadTypes'
    <3>1. CASE rd # None /\ In(2, Reading)
      <4>1. rd \in Reads /\ rd.i \in Nat
        BY <3>1, ReadsAre
      <4>2. Win(2, Reading).T \in Nat
        BY <2>0, CallIs, WinIs, ConstantsAre
      <4>3. rd' = [rd EXCEPT !.i = rd.i + Win(2, Reading).T, !.next = "read"]
        BY <1>9, <3>1 DEF Finish
      <4>4. rd' \in Reads
        <5> DEFINE i == rd.i + Win(2, Reading).T
        <5>1. i \in Nat /\ rd' = [rd EXCEPT !.i = i, !.next = "read"]
          BY <4>1, <4>2, <4>3
        <5> HIDE DEF i
        <5> QED
          BY <4>1, <5>1 DEF Reads
      <4>5. err' = err
        BY <1>9 DEF Finish
      <4> QED
        BY <1>t, <4>4, <4>5 DEF ReadTypes
    <3>2. CASE ~(rd # None /\ In(2, Reading))
      BY <1>t, <1>9, <3>2, SameReads DEF Finish
    <3> QED
      BY <3>1, <3>2
  <2>3. ASSUME NEW g \in Stages, NEW s \in Verified
        PROVE  hist[g][s] - (Win(2, s).T - Win(2, s).right) \in Nat
    <3>1. s \in On(call.wins[2]) /\ s \in Slots
      BY <2>3 DEF Verified, On
    <3>2. hist[g][s] = Win(2, s).pos0 + Win(2, s).T
      BY <1>9, <3>1, EndedBoth DEF Finish, Ended, InBooks
    <3>3. Win(2, s).pos0 \in Nat /\ Win(2, s).T \in Nat /\ Win(2, s).right \in Nat
      BY <2>0, <3>1, CallIs, WinIs, ConstantsAre
    <3> QED
      BY <3>2, <3>3
  <2>4. SlotTypes'
    <3>1. hist' \in [Stages -> [Slots -> Nat]]
      BY <1>t, <1>9, <2>3 DEF SlotTypes, Finish
    <3>2. pend' \in [Stages -> [Slots -> Nat]]
      BY <1>t, <1>9 DEF SlotTypes, Finish
    <3> QED
      BY <1>t, <1>9, <3>1, <3>2 DEF SlotTypes, Finish, dev
  <2>5. StageTypes'
    <3>1. ASSUME NEW g \in Stages, NEW s \in Verified PROVE CommitOf(g, s) \in Kept
      <4>1. s \in Slots
        BY <3>1 DEF Verified, On
      <4>2. lastLane[g][s] \in Lanes /\ lastRow[g][s] \in Nat /\ Win(2, s).right \in Nat
        BY <1>t, <2>0, <4>1, CallIs, WinIs, ConstantsAre DEF SlotTypes
      <4> QED
        BY <4>1, <4>2 DEF CommitOf, Kept
    <3>2. commits' \in [Stages -> SUBSET Kept]
      BY <1>t, <1>9, <3>1 DEF StageTypes, Finish
    <3>3. joined' \in [Stages -> BOOLEAN]
      BY <1>t, <1>9 DEF StageTypes, Finish
    <3> QED
      BY <1>t, <1>9, <3>2, <3>3 DEF StageTypes, Finish
  <2> QED
    BY <1>t, <1>9, <2>1, <2>2, <2>4, <2>5, SameCounts, SameRows DEF Finish, dev
<1>10. CASE ReadChunk
  <2>1. HostTypes'
    BY <1>t, <1>10 DEF HostTypes, ReadChunk
  <2>2. /\ rd # None /\ ChunkLen > 0 
        /\ hist'   = [hist EXCEPT ![1] = [hist[1] EXCEPT ![Reading] = rd.i + ChunkLen]]
        /\ state'  = [state EXCEPT ![1] = [state[1] EXCEPT ![Reading] = rd.i + ChunkLen]]
        /\ pfXfer' = [pfXfer EXCEPT ![rd.buf] = AllRows(ChunkOf(Reading, ChunkLen, rd.i))]
    BY <1>10, ReadChunkRight
  <2>3. rd.i \in Nat /\ ChunkLen \in Nat /\ rd.i + ChunkLen \in Nat
    BY <2>2, ReadsAre
  <2>4. AllRows(ChunkOf(Reading, ChunkLen, rd.i)) \in Rows
    BY <2>2, <2>3, ChunkRows
  <2>5. SlotTypes'
    <3>1. hist' \in [Stages -> [Slots -> Nat]] /\ state' \in [Stages -> [Slots -> Nat \cup {Junk}]]
      BY <1>t, <2>2, <2>3, UpdatedIn, ConstantsAre DEF SlotTypes
    <3>2. UNCHANGED <<pend, lastRow, lastLane>>
      BY <1>10 DEF ReadChunk, ChunkBooks
    <3> QED
      BY <1>t, <3>1, <3>2 DEF SlotTypes
  <2>6. StageTypes'
    BY <1>t, <1>10, ChunkStages, ConstantsAre DEF ReadChunk
  <2>7. RowTypes'
    <3>1. pfXfer' \in [Lanes -> Rows]
      BY <1>t, <2>2, <2>4 DEF RowTypes
    <3>2. UNCHANGED <<gpu, inter, xfer, logits>>
      BY <1>10 DEF ReadChunk
    <3> QED
      BY <1>t, <3>1, <3>2 DEF RowTypes
  <2> QED
    BY <1>t, <1>10, <2>1, <2>5, <2>6, <2>7, SameReads, SameCounts DEF ReadChunk
<1>11. CASE ReadChunkFails
  <2>1. HostTypes'
    BY <1>t, <1>11 DEF HostTypes, ReadChunkFails
  <2> QED
    BY <1>t, <1>11, <2>1, SameReads, FailsCounts, SameSlots, SameStages, SameRows DEF ReadChunkFails, books, dev
<1>12. CASE Wait
  <2>1. HostTypes'
    BY <1>t, <1>12 DEF HostTypes, Wait, Waited, Callback
  <2>2. rd # None
    BY <1>12 DEF IInv, ReadOK, ReadPc, JobOK, ReadBooks, TailOK, Wait, Forwarding
  <2>3. rd' \in Reads
    BY <1>t, <1>12, <2>2 DEF ReadTypes, Wait, Waited, Callback, Reads
  <2>4. err' = FALSE
    BY <1>12 DEF Wait, Waited
  <2> QED
    BY <1>t, <1>12, <2>1, <2>3, <2>4, SameCounts, SameSlots, SameStages, SameRows DEF Wait, books, dev, ReadTypes
<1>13. CASE BetweenEnd
  <2>1. rd \in Reads
    BY <1>t, <1>13 DEF IInv, ReadOK, ReadPc, JobOK, ReadBooks, TailOK, BetweenEnd, Forwarding, ReadTypes
  <2>2. HostTypes'
    BY <1>t, <1>13, <2>1, ConstantsAre DEF HostTypes, BetweenEnd, BackTo, Reads
  <2> QED
    BY <1>t, <1>13, <2>2, SameReads, SameCounts, SameSlots, SameStages, SameRows DEF BetweenEnd, books, dev
<1>14. CASE Post
  <2>1. rd # None /\ cur \in Slots /\ hist[1][cur] \in Nat
    BY <1>t, <1>14, ConstantsAre DEF Post, IInv, ReadOK, ReadPc, JobOK, ReadBooks, TailOK, Forwarding, HostTypes, SlotTypes
  <2>2. rd \in Reads /\ rd.i \in Nat /\ rd.buf \in {0, 1} /\ ChunkLen \in Nat
    BY <2>1, ReadsAre
  <2>3. hist[1][cur] - ChunkLen \in Nat
    <3>1. cur = Reading /\ hist[1][Reading] = rd.i + ChunkLen
      BY <1>14, <2>1 DEF Post, IInv, ReadOK, ReadPc, JobOK, ReadBooks, TailOK, Handing, TailWindow, Forwarding
    <3> QED
      BY <2>2, <3>1
  <2>4. job' \in Jobs
    BY <1>14, <2>1, <2>2, <2>3 DEF Post, Jobs
  <2>5. HostTypes'
    BY <1>t, <1>14, <2>4 DEF HostTypes, Post
  <2>6. rd' \in Reads
    <3> DEFINE i == rd.i + ChunkLen
               b == OtherBuffer(rd.buf)
    <3>1. i \in Nat /\ b \in {0, 1}
      BY <2>2 DEF OtherBuffer
    <3>2. rd' = [rd EXCEPT !.posted = TRUE, !.buf = b, !.i = i]
      BY <1>14 DEF Post
    <3> HIDE DEF i, b
    <3> QED
      BY <2>2, <3>1, <3>2 DEF Reads
  <2>7. ReadTypes'
    BY <1>t, <1>14, <2>6 DEF ReadTypes, Post
  <2> QED
    BY <1>t, <1>14, <2>5, <2>7, SameCounts, SameSlots, SameStages, SameRows DEF Post, books, dev
<1>15. CASE Drain
  <2>1. HostTypes'
    BY <1>t, <1>15 DEF HostTypes, Drain, Waited
  <2>2. rd \in Reads
    BY <1>t, <1>15 DEF IInv, ReadOK, ReadPc, JobOK, ReadBooks, TailOK, Drain, Forwarding, ReadTypes
  <2>3. rd' \in Reads
    BY <1>15, <2>2 DEF Drain, Waited, Reads
  <2>4. err' \in BOOLEAN
    BY <1>t, <1>15 DEF Drain, Waited, ReadTypes
  <2> QED
    BY <1>t, <1>15, <2>1, <2>3, <2>4, SameCounts, SameSlots, SameStages, SameRows DEF Drain, books, dev, ReadTypes
<1>16. CASE ReadTail
  <2>1. call' \in Calls
    <3>1. rd # None /\ cur \in Slots /\ hist[1][cur] \in Nat
      BY <1>t, <1>16, ConstantsAre DEF ReadTail, IInv, ReadOK, ReadPc, JobOK, ReadBooks, TailOK, Forwarding, HostTypes, SlotTypes
    <3>2. Left \in Nat /\ MaxWindow \in Nat
      BY <3>1, ReadsAre, ConstantsAre
    <3> DEFINE T == IF Left < MaxWindow THEN Left ELSE MaxWindow
    <3>3. T \in Nat
      BY <3>2
    <3>4. call' = [wins |-> [g \in Stages |-> ChunkOf(cur, T, hist[1][cur])], lane |-> [g \in Stages |-> 0], piped |-> FALSE]
      BY <1>16 DEF ReadTail
    <3> HIDE DEF T
    <3>5. ChunkOf(cur, T, hist[1][cur]) \in Batches
      BY <3>1, <3>3, AloneIs
    <3> QED
      BY <3>4, <3>5 DEF Calls, Lanes
  <2>2. HostTypes'
    BY <1>t, <1>16, <2>1 DEF HostTypes, ReadTail
  <2> QED
    BY <1>t, <1>16, <2>2, SameReads, SameCounts, SameSlots, SameStages, SameRows DEF ReadTail, books, dev
<1>17. CASE ReadDone
  <2>1. HostTypes'
    BY <1>t, <1>17 DEF HostTypes, ReadDone, Waited
  <2>2. ReadTypes'
    BY <1>t, <1>17 DEF ReadTypes, ReadDone, Waited
  <2>3. lastT' \in [Stages -> Nat]
    BY <1>t, <1>17, ConstantsAre DEF StageTypes, ReadDone, LastTOf
  <2>4. StageTypes'
    BY <1>t, <1>17, <2>3 DEF StageTypes, ReadDone
  <2> QED
    BY <1>t, <1>17, <2>1, <2>2, <2>4, SameCounts, SameSlots, SameRows DEF ReadDone, dev
<1>18. CASE FirstToken
  <2>1. HostTypes'
    BY <1>t, <1>18 DEF HostTypes, FirstToken
  <2>2. ReadTypes'
    BY <1>t, <1>18 DEF ReadTypes, FirstToken
  <2> QED
    BY <1>t, <1>18, <2>1, <2>2, SameCounts, SameSlots, SameStages, SameRows DEF FirstToken, books, dev
<1>19. CASE Settle
  <2>1. HostTypes'
    BY <1>t, <1>19, ConstantsAre DEF HostTypes, Settle
  <2>2. ReadTypes'
    BY <1>t, <1>19 DEF ReadTypes, Settle
  <2>3. SlotTypes'
    BY <1>t, <1>19 DEF SlotTypes, Settle
  <2>4. StageTypes'
    BY <1>t, <1>19 DEF StageTypes, Settle
  <2> QED
    BY <1>t, <1>19, <2>1, <2>2, <2>3, <2>4, SameCounts, SameRows DEF Settle
<1>20. CASE Work
  <2>1. HostTypes'
    BY <1>t, <1>20 DEF HostTypes, Work
  <2>2. /\ job # None
        /\ hist'   = [hist EXCEPT ![2] = [hist[2] EXCEPT ![Reading] = rd.i]]
        /\ state'  = [state EXCEPT ![2] = [state[2] EXCEPT ![Reading] = rd.i]]
        /\ logits' = << <<Reading, rd.i, TRUE>> >>
    BY <1>20, WorkRight
  <2>3. rd.i \in Nat
    BY <2>2, JobIs, ReadsAre
  <2>4. logits' \in Rows
    <3>1. <<Reading, rd.i, TRUE>> \in Row
      BY <2>3, RowIs, ConstantsAre
    <3> QED
      BY <2>2, <3>1 DEF Rows
  <2>5. SlotTypes'
    <3>1. hist' \in [Stages -> [Slots -> Nat]] /\ state' \in [Stages -> [Slots -> Nat \cup {Junk}]]
      BY <1>t, <2>2, <2>3, UpdatedIn, ConstantsAre DEF SlotTypes
    <3>2. UNCHANGED <<pend, lastRow, lastLane>>
      BY <1>20 DEF Work, ChunkBooks
    <3> QED
      BY <1>t, <3>1, <3>2 DEF SlotTypes
  <2>6. StageTypes'
    BY <1>t, <1>20, ChunkStages, ConstantsAre DEF Work
  <2>7. RowTypes'
    BY <1>t, <1>20, <2>4 DEF RowTypes, Work
  <2> QED
    BY <1>t, <1>20, <2>1, <2>5, <2>6, <2>7, SameReads, SameCounts DEF Work
<1>21. CASE WorkFails
  <2>1. HostTypes'
    BY <1>t, <1>21 DEF HostTypes, WorkFails
  <2>2. ReadTypes'
    BY <1>t, <1>21 DEF ReadTypes, WorkFails
  <2> QED
    BY <1>t, <1>21, <2>1, <2>2, FailsCounts, SameSlots, SameStages, SameRows DEF WorkFails, books, dev
<1>22. ASSUME NEW g \in Stages, Service(g) PROVE HostTypes' /\ Counts' /\ ReadTypes' /\ SlotTypes' /\ StageTypes' /\ RowTypes'
  <2>1. svc' \in [Stages -> 0..Layers + 1]
    <3>1. svc \in [Stages -> 0..Layers + 1] /\ svc[g] \in 1..Layers /\ 3 - g \in Stages /\ Layers \in Nat
      BY <1>t, <1>22, ConstantsAre DEF Service, StageTypes, Stages
    <3>2. svc' = [svc EXCEPT ![g] = @ + 1, ![3 - g] = IF svc[g] = Layers /\ Busy(3 - g) /\ @ = 0 THEN 1 ELSE @]
      BY <1>22 DEF Service
    <3> QED
      BY <3>1, <3>2, ConstantsAre
  <2>2. StageTypes'
    BY <1>t, <1>22, <2>1 DEF StageTypes, Service, books
  <2> QED
    BY <1>t, <1>22, <2>2, SameHost, SameCounts, SameReads, SameSlots, SameRows DEF Service, host, books, dev
<1>23. ASSUME NEW g \in Stages, GpuBegin(g) PROVE HostTypes' /\ Counts' /\ ReadTypes' /\ SlotTypes' /\ StageTypes' /\ RowTypes'
  <2>1. /\ Forwarding /\ gpu[g] \in Graphs
        /\ \A s \in On(call.wins[g]) : state[g][s] = Win(g, s).pos0
        /\ gpu' = [gpu EXCEPT ![g] = [gpu[g] EXCEPT !.at = "plan", !.rows = AllRows(call.wins[g])]]
        /\ inter' = [inter EXCEPT ![g] = [inter[g] EXCEPT ![call.lane[g]] = AllRows(call.wins[g])]]
        /\ state' = [state EXCEPT ![g] = AfterCommitted(call.wins[g], AllRows(call.wins[g]), state[g])]
    BY <1>23, BeginRight
  <2>2. call.wins[g] \in Batches /\ WellFormed(call.wins[g]) /\ AllRows(call.wins[g]) \in Rows /\ call.lane[g] \in Lanes
    BY <2>1, CallIs, AllRowsType, PackedLaid DEF WellFormed
  <2>3. AfterCommitted(call.wins[g], AllRows(call.wins[g]), state[g]) \in [Slots -> Nat \cup {Junk}]
    <3>1. ASSUME NEW s \in Slots
          PROVE  AfterCommitted(call.wins[g], AllRows(call.wins[g]), state[g])[s] \in Nat \cup {Junk}
      <4>1. call.wins[g][s].pos0 \in Nat /\ call.wins[g][s].T \in Nat
        BY <2>2, WinIs DEF Batches
      <4>2. \A t \in On(call.wins[g]) : state[g][t] = call.wins[g][t].pos0
        BY <2>1 DEF Win
      <4>3. state[g][s] \in Nat \cup {Junk}
        BY <1>t DEF SlotTypes
      <4> QED
        BY <2>2, <4>1, <4>2, <4>3, AfterCommittedRight
    <3> QED
      BY <3>1 DEF AfterCommitted
  <2>4. SlotTypes'
    BY <1>t, <1>23, <2>1, <2>3 DEF SlotTypes, GpuBegin, books
  <2>5. [gpu[g] EXCEPT !.at = "plan", !.rows = AllRows(call.wins[g])] \in Graphs
    BY <2>1, <2>2 DEF Graphs
  <2>6. RowTypes'
    <3>1. gpu' \in [Stages -> Graphs \cup {None}]
      BY <1>t, <2>1, <2>5, Updated DEF RowTypes
    <3>2. inter' \in [Stages -> [Lanes -> Rows]]
      BY <1>t, <2>1, <2>2, UpdatedIn DEF RowTypes
    <3> QED
      BY <1>t, <1>23, <3>1, <3>2 DEF RowTypes, GpuBegin
  <2> QED
    BY <1>t, <1>23, <2>4, <2>6, SameHost, SameCounts, SameReads, SameStages DEF GpuBegin, host, books
<1>24. ASSUME NEW g \in Stages, GpuPlan(g) PROVE HostTypes' /\ Counts' /\ ReadTypes' /\ SlotTypes' /\ StageTypes' /\ RowTypes'
  <2>1. gpu[g] \in Graphs /\ gpu' = [gpu EXCEPT ![g] = [gpu[g] EXCEPT !.at = "wait"]]
    BY <1>t, <1>24 DEF GpuPlan, RowTypes
  <2>2. RowTypes'
    BY <1>t, <1>24, <2>1 DEF RowTypes, GpuPlan, Graphs
  <2> QED
    BY <1>t, <1>24, <2>2, SameHost, SameCounts, SameReads, SameSlots, SameStages DEF GpuPlan, host, books
<1>25. ASSUME NEW g \in Stages, GpuWait(g) PROVE HostTypes' /\ Counts' /\ ReadTypes' /\ SlotTypes' /\ StageTypes' /\ RowTypes'
  <2>1. gpu[g] \in Graphs
    BY <1>t, <1>25 DEF GpuWait, RowTypes
  <2>2. gpu' = [gpu EXCEPT ![g] = [gpu[g] EXCEPT !.at = IF gpu[g].layer = Layers THEN "out" ELSE "plan",
                                                 !.layer = IF gpu[g].layer = Layers THEN gpu[g].layer ELSE gpu[g].layer + 1]]
    BY <1>t, <1>25 DEF GpuWait, RowTypes
  <2>3. gpu' \in [Stages -> Graphs \cup {None}]
    <3>1. [gpu[g] EXCEPT !.at = IF gpu[g].layer = Layers THEN "out" ELSE "plan",
                         !.layer = IF gpu[g].layer = Layers THEN gpu[g].layer ELSE gpu[g].layer + 1] \in Graphs
      <4> DEFINE at    == IF gpu[g].layer = Layers THEN "out" ELSE "plan"
                 layer == IF gpu[g].layer = Layers THEN gpu[g].layer ELSE gpu[g].layer + 1
      <4>1. gpu[g].layer \in Nat
        BY <2>1 DEF Graphs
      <4>2. at \in {"plan", "out"} /\ layer \in Nat
        BY <4>1
      <4> HIDE DEF at, layer
      <4>3. [gpu[g] EXCEPT !.at = at, !.layer = layer] \in Graphs
        BY <2>1, <4>2 DEF Graphs
      <4> QED
        BY <4>3 DEF at, layer
    <3> QED
      BY <1>t, <2>2, <3>1, Updated DEF RowTypes
  <2>4. RowTypes'
    BY <1>t, <1>25, <2>3 DEF RowTypes, GpuWait
  <2> QED
    BY <1>t, <1>25, <2>4, SameHost, SameCounts, SameReads, SameSlots, SameStages DEF GpuWait, host, books
<1>26. ASSUME NEW g \in Stages, GpuOut(g) PROVE HostTypes' /\ Counts' /\ ReadTypes' /\ SlotTypes' /\ StageTypes' /\ RowTypes'
  <2>1. gpu[g] \in Graphs /\ gpu[g].rows \in Rows /\ gpu[g].lane \in Lanes
    BY <1>t, <1>26 DEF GpuOut, RowTypes, Graphs
  <2>2. RowTypes'
    BY <1>t, <1>26, <2>1 DEF RowTypes, GpuOut
  <2> QED
    BY <1>t, <1>26, <2>2, SameHost, SameCounts, SameReads, SameSlots, SameStages DEF GpuOut, host, books
<1>27. ASSUME NEW g \in Stages, Commit(g) PROVE HostTypes' /\ Counts' /\ ReadTypes' /\ SlotTypes' /\ StageTypes' /\ RowTypes'
  <2>1. PICK c \in commits[g] :
           /\ c \in Kept /\ state[g][c.slot] \in Nat
           /\ state' = [state EXCEPT ![g] = [state[g] EXCEPT ![c.slot] = state[g][c.slot] + c.n]]
           /\ commits' = [commits EXCEPT ![g] = commits[g] \ {c}]
    BY <1>27, CommitRight
  <2>2. c.slot \in Slots /\ c.n \in Nat
    BY <2>1 DEF Kept
  <2>3. SlotTypes'
    <3>1. state[g][c.slot] + c.n \in Nat \cup {Junk}
      BY <2>1, <2>2
    <3>2. state' \in [Stages -> [Slots -> Nat \cup {Junk}]]
      BY <1>t, <2>1, <2>2, <3>1, UpdatedIn DEF SlotTypes
    <3> QED
      BY <1>t, <1>27, <3>2 DEF SlotTypes, Commit, books
  <2>4. StageTypes'
    BY <1>t, <1>27, <2>1 DEF StageTypes, Commit, books
  <2> QED
    BY <1>t, <1>27, <2>3, <2>4, SameHost, SameCounts, SameReads, SameRows DEF Commit, host, books
<1> QED
  BY <1>1, <1>2, <1>3, <1>4, <1>5, <1>6, <1>7, <1>8, <1>9, <1>10, <1>11, <1>12, <1>13, <1>14, <1>15, <1>16, <1>17, <1>18, <1>19,
     <1>20, <1>21, <1>22, <1>23, <1>24, <1>25, <1>26, <1>27 DEF Next, Forward, Prefill, Gpu

-----------------------------------------------------------------------------
(* The forward and the lanes *)

\* The requests, and so the lanes, stay while no prompt is read and the prompt's slot stays as empty as it was.
LEMMA LanesSame ==
  ASSUME rd = None <=> rd' = None, hist[1][Reading] > 0 <=> hist'[1][Reading] > 0
  PROVE  Active' = Active /\ \A l : LaneSlots(l)' = LaneSlots(l)
<1>1. Active' = Active
  BY DEF Active
<1> QED
  BY <1>1 DEF LaneSlots

LEMMA CallSame ==
  ASSUME CallOK, call' = call, mid' = mid, Forwarding' <=> Forwarding, rd' = None <=> rd = None,
         (Forwarding /\ call.piped) \/ mid # None => (hist[1][Reading] > 0 <=> hist'[1][Reading] > 0)
  PROVE  CallOK'
<1>1. (Forwarding /\ call.piped) \/ mid # None => \A l : LaneSlots(l)' = LaneSlots(l)
  BY LanesSame
<1>2. ASSUME Forwarding'
      PROVE  (/\ call \in Calls /\ \A g \in Stages : WellFormed(call.wins[g])
              /\ ~call.piped => call.wins[1] = call.wins[2] /\ call.lane[1] = call.lane[2] /\ mid = None
              /\ call.piped => /\ rd = None /\ call.lane[1] # call.lane[2]
                               /\ \A g \in Stages : On(call.wins[g]) \subseteq LaneSlots(call.lane[g])
                               /\ IF mid = None THEN On(call.wins[1]) = {} ELSE mid.lane = call.lane[1] /\ mid.wins = call.wins[1])'
  <2>1. Forwarding
    BY <1>2
  <2>2. /\ call \in Calls /\ \A g \in Stages : WellFormed(call.wins[g])
        /\ ~call.piped => call.wins[1] = call.wins[2] /\ call.lane[1] = call.lane[2] /\ mid = None
        /\ call.piped => /\ rd = None /\ call.lane[1] # call.lane[2]
                         /\ \A g \in Stages : On(call.wins[g]) \subseteq LaneSlots(call.lane[g])
                         /\ IF mid = None THEN On(call.wins[1]) = {} ELSE mid.lane = call.lane[1] /\ mid.wins = call.wins[1]
    BY <2>1 DEF CallOK
  <2>3. call.piped => \A g \in Stages : LaneSlots(call.lane[g])' = LaneSlots(call.lane[g])
    BY <1>1, <2>1
  <2> QED
    BY <2>2, <2>3
<1>3. ASSUME mid' # None PROVE (rd = None /\ WellFormed(mid.wins) /\ On(mid.wins) \subseteq LaneSlots(mid.lane))'
  <2>1. rd = None /\ WellFormed(mid.wins) /\ On(mid.wins) \subseteq LaneSlots(mid.lane)
    BY <1>3 DEF CallOK
  <2>2. LaneSlots(mid.lane)' = LaneSlots(mid.lane)
    BY <1>1, <1>3
  <2> QED
    BY <2>1, <2>2
<1> QED
  BY <1>2, <1>3 DEF CallOK

LEMMA CallNone == ASSUME mid' = None, ~Forwarding' PROVE CallOK'
BY DEF CallOK

LEMMA CallStep == ASSUME IInv, Next, TypeOK' PROVE CallOK'
<1>c. CallOK
  BY DEF IInv
<1>1. CASE Batch
  <2>1. PICK ws \in Batches : WellFormed(ws) /\ Begin([g \in Stages |-> ws], [g \in Stages |-> 0], FALSE)
    BY <1>1, BatchIs
  <2>2. mid' = None /\ pc' = "prepare" /\ call' = [wins |-> [g \in Stages |-> ws], lane |-> [g \in Stages |-> 0], piped |-> FALSE]
    BY <1>1, <2>1 DEF Batch, Begin
  <2>3. call' \in Calls
    BY <2>2 DEF Calls, Lanes
  <2>4. (\A g \in Stages : call'.wins[g] = ws) /\ call'.piped = FALSE /\ call'.lane[1] = call'.lane[2]
    BY <2>2, ConstantsAre
  <2> QED
    BY <2>1, <2>2, <2>3, <2>4, ConstantsAre DEF CallOK
<1>2. CASE PipeStep
  <2>1. PICK ws \in Batches, half \in Batches, x \in Lanes :
           /\ WellFormed(ws) /\ On(ws) = LaneSlots(x)
           /\ WellFormed(half) /\ IF mid = None THEN half = NoWindows ELSE half = mid.wins /\ mid.lane = 1 - x
           /\ Begin(PerStage(ws, half), PerStage(x, 1 - x), TRUE) /\ mid' = [lane |-> x, wins |-> ws]
    BY <1>2, PipeStepIs
  <2>2. /\ call' = [wins |-> PerStage(ws, half), lane |-> PerStage(x, 1 - x), piped |-> TRUE]
        /\ pc' = "prepare" /\ rd' = rd /\ hist' = hist /\ pc = "idle"
    BY <1>2, <2>1 DEF PipeStep, Begin, books
  <2>3. rd = None
    BY <2>2 DEF IInv, ReadOK, ReadPc, JobOK, ReadBooks, TailOK
  <2>4. call' \in Calls
    BY <2>2 DEF Calls, PerStage, Lanes
  <2>5. /\ call'.wins[1] = ws /\ call'.wins[2] = half /\ call'.lane[1] = x /\ call'.lane[2] = 1 - x /\ call'.piped = TRUE
    BY <2>2, ConstantsAre DEF PerStage
  <2>6. mid'.lane = x /\ mid'.wins = ws /\ x # 1 - x
    BY <2>1 DEF Lanes
  <2>7. \A l : LaneSlots(l)' = LaneSlots(l)
    BY <2>2, LanesSame
  <2>8. On(half) \subseteq LaneSlots(1 - x)
    <3>1. CASE mid = None
      BY <2>1, <3>1, NoWindowsAre
    <3>2. CASE mid # None
      BY <2>1, <3>2, <1>c DEF CallOK
    <3> QED
      BY <3>1, <3>2
  <2>9. (/\ WellFormed(call.wins[1]) /\ On(call.wins[1]) \subseteq LaneSlots(call.lane[1])
         /\ WellFormed(call.wins[2]) /\ On(call.wins[2]) \subseteq LaneSlots(call.lane[2]))'
    BY <2>1, <2>5, <2>7, <2>8
  <2>10. (rd = None /\ WellFormed(mid.wins) /\ On(mid.wins) \subseteq LaneSlots(mid.lane))'
    BY <2>1, <2>2, <2>3, <2>6, <2>7
  <2>11. (\A g \in Stages : WellFormed(call.wins[g]) /\ On(call.wins[g]) \subseteq LaneSlots(call.lane[g]))'
    BY <2>9, ConstantsAre
  <2>12. mid' # None
    <3>1. mid' \in Halves
      BY <2>1 DEF Halves
    <3> QED
      BY <3>1, ConstantsAre
  <2> QED
    BY <2>4, <2>5, <2>6, <2>10, <2>11, <2>12 DEF CallOK
<1>3. CASE PipeDrain
  <2>1. /\ mid # None /\ mid' = None /\ rd' = rd /\ hist' = hist /\ pc' = "prepare"
        /\ call' = [wins |-> PerStage(NoWindows, mid.wins), lane |-> PerStage(1 - mid.lane, mid.lane), piped |-> TRUE]
    BY <1>3 DEF PipeDrain, Begin, books
  <2>2. mid \in Halves
    BY <2>1, TypeParts DEF IInv, HostTypes
  <2>3. mid.wins \in Batches /\ mid.lane \in Lanes
    BY <2>2 DEF Halves
  <2>4. call' \in Calls
    BY <2>1, <2>3, NoWindowsAre DEF Calls, PerStage, Lanes
  <2>5. /\ call'.wins[1] = NoWindows /\ call'.wins[2] = mid.wins /\ call'.lane[1] = 1 - mid.lane /\ call'.lane[2] = mid.lane
        /\ call'.piped = TRUE /\ mid.lane # 1 - mid.lane
    BY <2>1, <2>3, ConstantsAre DEF PerStage, Lanes
  <2>6. rd = None /\ WellFormed(mid.wins) /\ On(mid.wins) \subseteq LaneSlots(mid.lane)
    BY <2>1, <1>c DEF CallOK
  <2>7. \A l : LaneSlots(l)' = LaneSlots(l)
    BY <2>1, LanesSame
  <2>8. (/\ WellFormed(call.wins[1]) /\ On(call.wins[1]) \subseteq LaneSlots(call.lane[1])
         /\ WellFormed(call.wins[2]) /\ On(call.wins[2]) \subseteq LaneSlots(call.lane[2]))'
    BY <2>5, <2>6, <2>7, NoWindowsAre
  <2>9. (\A g \in Stages : WellFormed(call.wins[g]) /\ On(call.wins[g]) \subseteq LaneSlots(call.lane[g]))'
    BY <2>8, ConstantsAre
  <2> QED
    BY <2>1, <2>4, <2>5, <2>6, <2>9, NoWindowsAre DEF CallOK
<1>4. CASE Read
  BY <1>4, CallNone DEF Read, Forwarding
<1>5. CASE Prepare
  <2>1. Forwarding /\ Forwarding' /\ call' = call /\ mid' = mid /\ rd' = rd
    BY <1>5 DEF Prepare, Forwarding
  <2>2. ASSUME (Forwarding /\ call.piped) \/ mid # None
        PROVE  hist[1][Reading] > 0 <=> hist'[1][Reading] > 0
    <3>1. call.piped
      BY <2>1, <2>2, <1>c DEF CallOK
    <3>2. hist'[1][Reading] = hist[1][Reading] + IF In(1, Reading) THEN Win(1, Reading).T ELSE 0
      BY <1>5, ConstantsAre DEF Prepare
    <3>3. hist[1][Reading] \in Nat /\ Win(1, Reading).T \in Nat
      BY <2>1, CallIs, WinIs, TypeParts, ConstantsAre DEF IInv, SlotTypes
    <3>4. ASSUME In(1, Reading) PROVE hist[1][Reading] > 0
      <4>1. Reading \in Active
        BY <2>1, <3>1, <3>4, <1>c, ActiveIs, ConstantsAre DEF CallOK, In
      <4>2. Reading \notin Decoding
        BY TwoStagesAssumption
      <4> QED
        BY <4>1, <4>2 DEF Active
    <3> QED
      BY <3>2, <3>3, <3>4
  <2> QED
    BY <1>c, <2>1, <2>2, CallSame
<1>6. CASE Launch
  BY <1>c, <1>6, CallSame DEF Launch, Forwarding, books
<1>7. CASE ServiceEnd
  BY <1>c, <1>7, CallSame DEF ServiceEnd, Forwarding, books
<1>8. CASE End
  BY <1>c, <1>8, CallSame DEF End, Forwarding
<1>9. CASE Finish
  <2>1. Forwarding /\ ~Forwarding' /\ mid' = mid
    BY <1>9 DEF Finish, Forwarding
  <2>2. ASSUME mid # None PROVE (rd = None /\ WellFormed(mid.wins) /\ On(mid.wins) \subseteq LaneSlots(mid.lane))'
    <3>1. rd = None /\ WellFormed(mid.wins) /\ On(mid.wins) \subseteq LaneSlots(mid.lane)
      BY <2>2, <1>c DEF CallOK
    <3>2. rd' = None
      BY <1>9, <3>1 DEF Finish
    <3>3. hist[1][Reading] > 0 <=> hist'[1][Reading] > 0
      <4>1. CASE Reading \in Verified
        <5>1. Reading \in On(call.wins[2])
          BY <4>1 DEF Verified
        <5>2. hist[1][Reading] = Win(2, Reading).pos0 + Win(2, Reading).T
          BY <1>9, <5>1, EndedBoth, ConstantsAre DEF Finish, Ended, InBooks
        <5>3. Win(2, Reading).pos0 \in Nat /\ Win(2, Reading).T \in Nat /\ Win(2, Reading).right \in Nat
          BY <2>1, CallIs, WinIs, ConstantsAre
        <5>4. Win(2, Reading).right \in 1..Win(2, Reading).T
          BY <2>1, <5>1, CallIs, ConstantsAre DEF WellFormed, Win
        <5>5. hist'[1][Reading] = hist[1][Reading] - (Win(2, Reading).T - Win(2, Reading).right)
          BY <1>9, <4>1, ConstantsAre DEF Finish
        <5> QED
          BY <5>2, <5>3, <5>4, <5>5
      <4>2. CASE Reading \notin Verified
        BY <1>9, <4>2, ConstantsAre DEF Finish
      <4> QED
        BY <4>1, <4>2
    <3>4. LaneSlots(mid.lane)' = LaneSlots(mid.lane)
      BY <2>1, <3>1, <3>2, <3>3, LanesSame
    <3> QED
      BY <2>1, <3>1, <3>2, <3>4
  <2> QED
    BY <2>1, <2>2 DEF CallOK
<1>10. CASE ReadChunk
  BY <1>10, ReadChunkRight, CallNone DEF ReadChunk, IInv, ReadOK, ReadPc, JobOK, ReadBooks, TailOK, Forwarding
<1>11. CASE ReadChunkFails
  BY <1>11, CallNone DEF ReadChunkFails, IInv, ReadOK, ReadPc, JobOK, ReadBooks, TailOK, Forwarding
<1>12. CASE Wait
  BY <1>12, CallNone DEF Wait, Waited, Callback, IInv, ReadOK, ReadPc, JobOK, ReadBooks, TailOK, Forwarding
<1>13. CASE BetweenEnd
  <2>1. rd # None /\ mid' = None
    BY <1>13 DEF BetweenEnd, IInv, ReadOK, ReadPc, JobOK, ReadBooks, TailOK, Forwarding
  <2>2. pc' \in {"read", "post", "tail"}
    BY <1>13, <2>1, ReadsAre DEF BetweenEnd
  <2> QED
    BY <2>1, <2>2, CallNone DEF Forwarding
<1>14. CASE Post
  BY <1>14, CallNone DEF Post, IInv, ReadOK, ReadPc, JobOK, ReadBooks, TailOK, Forwarding
<1>15. CASE Drain
  BY <1>15, CallNone DEF Drain, Waited, IInv, ReadOK, ReadPc, JobOK, ReadBooks, TailOK, Forwarding
<1>16. CASE ReadTail
  <2>1. rd # None /\ mid' = None /\ cur = Reading
    BY <1>16 DEF ReadTail, IInv, ReadOK, ReadPc, JobOK, ReadBooks, TailOK, Forwarding
  <2>2. hist[1][cur] \in Nat /\ Left \in Nat /\ MaxWindow \in Nat
    BY <2>1, ReadsAre, TypeParts, ConstantsAre DEF IInv, SlotTypes
  <2> DEFINE T  == IF Left < MaxWindow THEN Left ELSE MaxWindow
             ws == ChunkOf(cur, T, hist[1][cur])
  <2>3. call' = [wins |-> [g \in Stages |-> ws], lane |-> [g \in Stages |-> 0], piped |-> FALSE]
    BY <1>16 DEF ReadTail
  <2>4. T \in 0..MaxWindow
    BY <2>2
  <2>5. ws \in Batches /\ WellFormed(ws)
    BY <2>1, <2>2, <2>4, ChunkWellFormed, ConstantsAre
  <2> HIDE DEF T, ws
  <2>6. call' \in Calls
    BY <2>3, <2>5 DEF Calls, Lanes
  <2>7. (\A g \in Stages : call'.wins[g] = ws) /\ call'.piped = FALSE /\ call'.lane[1] = call'.lane[2]
    BY <2>3, ConstantsAre
  <2> QED
    BY <2>1, <2>5, <2>6, <2>7, ConstantsAre DEF CallOK
<1>17. CASE ReadDone
  BY <1>17, CallNone DEF ReadDone, Waited, IInv, ReadOK, ReadPc, JobOK, ReadBooks, TailOK, Forwarding
<1>18. CASE FirstToken
  BY <1>18, CallNone DEF FirstToken, IInv, ReadOK, ReadPc, JobOK, ReadBooks, TailOK, Forwarding
<1>19. CASE Settle
  BY <1>19, CallNone DEF Settle, IInv, ReadOK, ReadPc, JobOK, ReadBooks, TailOK, Forwarding
<1>20. CASE Work
  BY <1>20, JobIs, CallNone DEF Work, IInv, ReadOK, ReadPc, JobOK, ReadBooks, TailOK, Forwarding
<1>21. CASE WorkFails
  BY <1>21, JobIs, CallNone DEF WorkFails, IInv, ReadOK, ReadPc, JobOK, ReadBooks, TailOK, Forwarding
<1>22. ASSUME NEW g \in Stages, Service(g) PROVE CallOK'
  BY <1>c, <1>22, CallSame DEF Service, host, books, Forwarding
<1>23. ASSUME NEW g \in Stages, GpuBegin(g) PROVE CallOK'
  BY <1>c, <1>23, CallSame DEF GpuBegin, host, books, Forwarding
<1>24. ASSUME NEW g \in Stages, GpuPlan(g) PROVE CallOK'
  BY <1>c, <1>24, CallSame DEF GpuPlan, host, books, Forwarding
<1>25. ASSUME NEW g \in Stages, GpuWait(g) PROVE CallOK'
  BY <1>c, <1>25, CallSame DEF GpuWait, host, books, Forwarding
<1>26. ASSUME NEW g \in Stages, GpuOut(g) PROVE CallOK'
  BY <1>c, <1>26, CallSame DEF GpuOut, host, books, Forwarding
<1>27. ASSUME NEW g \in Stages, Commit(g) PROVE CallOK'
  BY <1>c, <1>27, CallSame DEF Commit, host, books, Forwarding
<1> QED
  BY <1>1, <1>2, <1>3, <1>4, <1>5, <1>6, <1>7, <1>8, <1>9, <1>10, <1>11, <1>12, <1>13, <1>14, <1>15, <1>16, <1>17, <1>18, <1>19,
     <1>20, <1>21, <1>22, <1>23, <1>24, <1>25, <1>26, <1>27 DEF Next, Forward, Prefill, Gpu

-----------------------------------------------------------------------------
(* The graphs and the rows in transit *)

LEMMA DevicesSame ==
  ASSUME DevicesOK, UNCHANGED <<pc, call, mid, gpu, par, lastT, joined, xfer, logits>>
  PROVE  DevicesOK'
BY DEF DevicesOK, GraphOK, BatchOK, TransitOK, Forwarding, Busy, At

\* Outside a forward only the buffer of a half-way batch matters.
LEMMA DevicesIdle ==
  ASSUME DevicesOK, ~Forwarding, ~Forwarding', UNCHANGED <<mid, gpu, xfer>>
  PROVE  DevicesOK'
<1>1. \A g \in Stages : gpu[g] = None
  BY DEF DevicesOK, GraphOK, Forwarding
<1>2. \A g \in Stages : gpu'[g] = None
  BY <1>1
<1>3. (\A g \in Stages : GraphOK(g) /\ BatchOK(g))'
  BY <1>2 DEF GraphOK, BatchOK
<1>4. TransitOK'
  BY DEF DevicesOK, TransitOK
<1> QED
  BY <1>3, <1>4 DEF DevicesOK

\* A forward begins: what its second stage takes over has come through the first.
LEMMA DevicesBegin ==
  ASSUME DevicesOK, ~Forwarding, pc' = "prepare", UNCHANGED <<gpu, xfer>>,
         (call.piped /\ Busy(2) => xfer[call.lane[2]] = AllRows(call.wins[2]))'
  PROVE  DevicesOK'
<1>1. \A g \in Stages : gpu[g] = None
  BY DEF DevicesOK, GraphOK, Forwarding
<1>2. \A g \in Stages : gpu'[g] = None
  BY <1>1
<1>3. (\A g \in Stages : GraphOK(g))'
  BY <1>2 DEF GraphOK
<1>4. (\A g \in Stages : BatchOK(g))'
  BY DEF BatchOK, At
<1>5. TransitOK'
  BY DEF TransitOK, Forwarding
<1> QED
  BY <1>3, <1>4, <1>5 DEF DevicesOK

LEMMA GraphBegun ==
  ASSUME NEW gr \in Graphs, NEW rows \in Rows
  PROVE  \A begun : begun = [gr EXCEPT !.at = "plan", !.rows = rows] =>
           begun \in Graphs /\ begun.at = "plan" /\ begun.lane = gr.lane /\ begun.after = gr.after /\ begun.rows = rows
BY DEF Graphs

LEMMA DevicesStep == ASSUME IInv, Next PROVE DevicesOK'
<1>d. DevicesOK
  BY DEF IInv
<1>1. CASE Batch
  <2>1. PICK ws \in Batches : Begin([g \in Stages |-> ws], [g \in Stages |-> 0], FALSE)
    BY <1>1, BatchIs
  <2>2. ~Forwarding /\ pc' = "prepare" /\ gpu' = gpu /\ xfer' = xfer /\ call'.piped = FALSE
    BY <1>1, <2>1 DEF Batch, Begin, dev, Forwarding
  <2> QED
    BY <1>d, <2>2, DevicesBegin
<1>2. CASE PipeStep
  <2>1. PICK ws \in Batches, half \in Batches, x \in Lanes :
           /\ IF mid = None THEN half = NoWindows ELSE half = mid.wins /\ mid.lane = 1 - x
           /\ Begin(PerStage(ws, half), PerStage(x, 1 - x), TRUE)
    BY <1>2, PipeStepIs
  <2>2. /\ ~Forwarding /\ pc' = "prepare" /\ gpu' = gpu /\ xfer' = xfer
        /\ call' = [wins |-> PerStage(ws, half), lane |-> PerStage(x, 1 - x), piped |-> TRUE]
    BY <1>2, <2>1 DEF PipeStep, Begin, dev, Forwarding
  <2>3. call'.wins[2] = half /\ call'.lane[2] = 1 - x
    BY <2>2, ConstantsAre DEF PerStage
  <2>4. (Busy(2) => xfer[call.lane[2]] = AllRows(call.wins[2]))'
    <3>1. CASE mid = None
      BY <2>1, <2>3, <3>1, NoWindowsAre DEF Busy
    <3>2. CASE mid # None
      <4>1. On(mid.wins) # {} => xfer[mid.lane] = AllRows(mid.wins)
        BY <1>d, <2>2, <3>2 DEF DevicesOK, TransitOK
      <4> QED
        BY <2>1, <2>2, <2>3, <3>2, <4>1 DEF Busy
    <3> QED
      BY <3>1, <3>2
  <2> QED
    BY <1>d, <2>2, <2>4, DevicesBegin
<1>3. CASE PipeDrain
  <2>1. /\ ~Forwarding /\ pc' = "prepare" /\ gpu' = gpu /\ xfer' = xfer /\ mid # None
        /\ call' = [wins |-> PerStage(NoWindows, mid.wins), lane |-> PerStage(1 - mid.lane, mid.lane), piped |-> TRUE]
    BY <1>3 DEF PipeDrain, Begin, dev, Forwarding
  <2>2. call'.wins[2] = mid.wins /\ call'.lane[2] = mid.lane
    BY <2>1, ConstantsAre DEF PerStage
  <2>3. On(mid.wins) # {} => xfer[mid.lane] = AllRows(mid.wins)
    BY <1>d, <2>1 DEF DevicesOK, TransitOK
  <2>4. (Busy(2) => xfer[call.lane[2]] = AllRows(call.wins[2]))'
    BY <2>1, <2>2, <2>3 DEF Busy
  <2> QED
    BY <1>d, <2>1, <2>4, DevicesBegin
<1>4. CASE Read
  BY <1>d, <1>4, DevicesIdle DEF Read, dev, Forwarding
<1>5. CASE Prepare
  <2>1. /\ pc = "prepare" /\ pc' = "launch" /\ UNCHANGED <<call, mid, gpu, xfer, logits>>
        /\ joined' = [g \in Stages |-> IF Busy(g) THEN TRUE ELSE joined[g]]
        /\ par'    = [g \in Stages |-> IF Busy(g) THEN call.wins[g] ELSE par[g]]
        /\ lastT'  = [g \in Stages |-> IF Busy(g) THEN NRows(call.wins[g]) ELSE lastT[g]]
    BY <1>5 DEF Prepare, dev, Join
  <2>2. \A g \in Stages : gpu'[g] = None
    BY <1>d, <2>1 DEF DevicesOK, GraphOK
  <2>3. \A g \in Stages : GraphOK(g)'
    BY <2>2 DEF GraphOK
  <2>4. \A g \in Stages : BatchOK(g)'
    BY <2>1 DEF BatchOK, Busy
  <2>5. TransitOK'
    BY <1>d, <2>1 DEF DevicesOK, TransitOK, Forwarding, Busy
  <2> QED
    BY <2>3, <2>4, <2>5 DEF DevicesOK
<1>6. CASE Launch
  <2>0. /\ pc = "launch" /\ pc' = "service" /\ UNCHANGED <<call, mid, xfer, logits, par, lastT, joined>> /\ Forwarding
        /\ gpu' = [g \in Stages |-> IF Busy(g) THEN [at |-> "begin", layer |-> 1, rows |-> <<>>, lane |-> call.lane[g],
                                                     after |-> g = 2 /\ ~call.piped, seq |-> seq[g]]
                                    ELSE None]
    BY <1>6 DEF Launch, books, Forwarding
  <2>1. ASSUME NEW g \in Stages, Busy(g)
        PROVE  /\ gpu'[g] # None /\ gpu'[g].at = "begin" /\ gpu'[g].lane = call.lane[g]
               /\ gpu'[g].after = (g = 2 /\ ~call.piped)
    <3>1. gpu'[g] = [at |-> "begin", layer |-> 1, rows |-> <<>>, lane |-> call.lane[g], after |-> g = 2 /\ ~call.piped, seq |-> seq[g]]
      BY <2>0, <2>1
    <3>2. gpu'[g].at = "begin" /\ gpu'[g].lane = call.lane[g] /\ gpu'[g].after = (g = 2 /\ ~call.piped)
      BY <3>1
    <3>3. gpu'[g] # None
      <4>1. PICK a \in BOOLEAN : a = (g = 2 /\ ~call.piped)
        OBVIOUS
      <4>2. call.lane[g] \in Lanes /\ seq[g] \in Nat
        BY <2>0, CallIs, TypeParts DEF IInv, StageTypes
      <4>3. gpu'[g] = [at |-> "begin", layer |-> 1, rows |-> <<>>, lane |-> call.lane[g], after |-> a, seq |-> seq[g]]
        BY <3>1, <4>1
      <4>4. <<>> \in Rows
        BY DEF Rows
      <4>5. gpu'[g] \in Graphs
        BY <4>2, <4>3, <4>4 DEF Graphs
      <4> QED
        BY <4>5, ConstantsAre
    <3> QED
      BY <3>2, <3>3
  <2>2. \A g \in Stages : ~Busy(g) => gpu'[g] = None
    BY <2>0
  <2>3. \A g \in Stages : Busy(g)' <=> Busy(g)
    BY <2>0 DEF Busy
  <2>4. \A g \in Stages : GraphOK(g)'
    BY <2>0, <2>1, <2>2, <2>3 DEF GraphOK
  <2>5. \A g \in Stages : BatchOK(g)'
    <3> SUFFICES ASSUME NEW g \in Stages, Busy(g) PROVE BatchOK(g)'
      BY <2>3 DEF BatchOK
    <3>1. par[g] = call.wins[g] /\ lastT[g] = NRows(call.wins[g]) /\ joined[g]
      BY <1>d, <2>0 DEF DevicesOK, BatchOK, At
    <3> QED
      BY <2>0, <2>1, <3>1 DEF BatchOK
  <2>6. TransitOK'
    BY <1>d, <2>0 DEF DevicesOK, TransitOK, Forwarding, Busy
  <2> QED
    BY <2>4, <2>5, <2>6 DEF DevicesOK
<1>7. CASE ServiceEnd
  BY <1>d, <1>7 DEF ServiceEnd, books, dev, DevicesOK, GraphOK, BatchOK, TransitOK, Forwarding, Busy, At
<1>8. CASE End
  BY <1>d, <1>8 DEF End, dev, DevicesOK, GraphOK, BatchOK, TransitOK, Forwarding, Busy, At
<1>9. CASE Finish
  <2>1. pc = "finish" /\ Forwarding /\ ~Forwarding' /\ UNCHANGED <<mid, gpu, xfer>>
    BY <1>9 DEF Finish, dev, Forwarding
  <2>2. \A g \in Stages : gpu[g] = None
    BY <1>d, <2>1 DEF DevicesOK, GraphOK
  <2>3. (\A g \in Stages : GraphOK(g) /\ BatchOK(g))'
    BY <2>1, <2>2 DEF GraphOK, BatchOK
  <2>4. ASSUME mid # None, On(mid.wins) # {} PROVE xfer[mid.lane] = AllRows(mid.wins)
    <3>1. mid.lane = call.lane[1] /\ mid.wins = call.wins[1]
      BY <2>1, <2>4 DEF IInv, CallOK
    <3>2. Busy(1)
      BY <2>4, <3>1 DEF Busy
    <3>3. xfer[call.lane[1]] = AllRows(call.wins[1])
      BY <1>d, <2>1, <2>2, <3>2, ConstantsAre DEF DevicesOK, BatchOK
    <3> QED
      BY <3>1, <3>3
  <2>5. TransitOK'
    BY <2>1, <2>4 DEF TransitOK
  <2> QED
    BY <2>3, <2>5 DEF DevicesOK
<1>10. CASE ReadChunk
  BY <1>d, <1>10, DevicesIdle DEF ReadChunk, Forwarding
<1>11. CASE ReadChunkFails
  BY <1>d, <1>11, DevicesIdle DEF ReadChunkFails, dev, Forwarding
<1>12. CASE Wait
  BY <1>d, <1>12, DevicesIdle DEF Wait, Waited, Callback, dev, Forwarding
<1>13. CASE BetweenEnd
  <2>1. rd # None
    BY <1>13 DEF BetweenEnd, IInv, ReadOK, ReadPc, JobOK, ReadBooks, TailOK, Forwarding
  <2>2. pc' \in {"read", "post", "tail"}
    BY <1>13, <2>1, ReadsAre DEF BetweenEnd
  <2> QED
    BY <1>d, <1>13, <2>2, DevicesIdle DEF BetweenEnd, dev, Forwarding
<1>14. CASE Post
  BY <1>d, <1>14, DevicesIdle DEF Post, dev, Forwarding
<1>15. CASE Drain
  BY <1>d, <1>15, DevicesIdle DEF Drain, Waited, dev, Forwarding
<1>16. CASE ReadTail
  <2>1. ~Forwarding /\ pc' = "prepare" /\ gpu' = gpu /\ xfer' = xfer /\ call'.piped = FALSE
    BY <1>16 DEF ReadTail, dev, Forwarding
  <2> QED
    BY <1>d, <2>1, DevicesBegin
<1>17. CASE ReadDone
  BY <1>d, <1>17, DevicesIdle DEF ReadDone, Waited, dev, Forwarding
<1>18. CASE FirstToken
  BY <1>d, <1>18, DevicesIdle DEF FirstToken, dev, Forwarding
<1>19. CASE Settle
  BY <1>d, <1>19, DevicesIdle DEF Settle, Forwarding
<1>20. CASE Work
  <2>1. ~Forwarding
    BY <1>20, JobIs DEF Work
  <2> QED
    BY <1>d, <1>20, <2>1, DevicesIdle DEF Work, Forwarding
<1>21. CASE WorkFails
  <2>1. ~Forwarding
    BY <1>21, JobIs DEF WorkFails
  <2> QED
    BY <1>d, <1>21, <2>1, DevicesIdle DEF WorkFails, dev, Forwarding
<1>22. ASSUME NEW g \in Stages, Service(g) PROVE DevicesOK'
  BY <1>d, <1>22, DevicesSame DEF Service, host, books, dev
<1>23. ASSUME NEW g \in Stages, GpuBegin(g) PROVE DevicesOK'
  <2>1. /\ UNCHANGED <<pc, call, mid, par, lastT, joined, xfer, logits>>
    BY <1>23 DEF GpuBegin, host, books
  <2>2. gpu[g] # None /\ gpu[g] \in Graphs /\ gpu' = [gpu EXCEPT ![g] = [gpu[g] EXCEPT !.at = "plan", !.rows = AllRows(call.wins[g])]]
    BY <1>23, BeginRight DEF GpuBegin
  <2>3. gpu'[g] = [gpu[g] EXCEPT !.at = "plan", !.rows = AllRows(call.wins[g])] /\ \A h \in Stages : h # g => gpu'[h] = gpu[h]
    BY <2>2, TypeParts DEF IInv, RowTypes
  <2>4. /\ gpu'[g].at = "plan" /\ gpu'[g].lane = gpu[g].lane /\ gpu'[g].after = gpu[g].after /\ gpu'[g].rows = AllRows(call.wins[g])
        /\ gpu'[g] # None
    <3>1. AllRows(call.wins[g]) \in Rows
      BY <2>2, GpuIs, CallIs, PackedLaid, AllRowsType DEF WellFormed
    <3>2. PICK rows \in Rows : rows = AllRows(call.wins[g])
      BY <3>1
    <3>3. PICK gr \in Graphs : gr = gpu[g]
      BY <2>2
    <3>4. gpu'[g] = [gr EXCEPT !.at = "plan", !.rows = rows]
      BY <2>3, <3>2, <3>3
    <3>a. \A begun : begun = [gr EXCEPT !.at = "plan", !.rows = rows] =>
           begun \in Graphs /\ begun.at = "plan" /\ begun.lane = gr.lane /\ begun.after = gr.after /\ begun.rows = rows
      BY GraphBegun
    <3>5. gpu'[g] \in Graphs /\ gpu'[g].at = "plan" /\ gpu'[g].lane = gr.lane /\ gpu'[g].after = gr.after /\ gpu'[g].rows = rows
      BY <3>4, <3>a
    <3> QED
      BY <3>2, <3>3, <3>5, ConstantsAre
  <2>5. \A h \in Stages : GraphOK(h)'
    BY <1>d, <2>1, <2>2, <2>3, <2>4 DEF DevicesOK, GraphOK, Busy
  <2>6. \A h \in Stages : BatchOK(h)'
    BY <1>d, <2>1, <2>2, <2>3, <2>4 DEF DevicesOK, BatchOK, Busy, Forwarding, At
  <2>7. TransitOK'
    BY <1>d, <2>1 DEF DevicesOK, TransitOK, Forwarding, Busy
  <2> QED
    BY <2>5, <2>6, <2>7 DEF DevicesOK
<1>24. ASSUME NEW g \in Stages, GpuPlan(g) PROVE DevicesOK'
  <2>1. UNCHANGED <<pc, call, mid, par, lastT, joined, xfer, logits>>
    BY <1>24 DEF GpuPlan, host, books
  <2>2. gpu[g] # None /\ gpu[g].at = "plan" /\ gpu' = [gpu EXCEPT ![g].at = "wait"]
    BY <1>24 DEF GpuPlan
  <2>3. gpu[g] \in Graphs
    BY <2>2, GpuIs
  <2>4. gpu'[g] = [gpu[g] EXCEPT !.at = "wait"] /\ \A h \in Stages : h # g => gpu'[h] = gpu[h]
    BY <2>2, TypeParts DEF IInv, RowTypes
  <2>5. /\ gpu'[g].at = "wait" /\ gpu'[g].lane = gpu[g].lane /\ gpu'[g].after = gpu[g].after /\ gpu'[g].rows = gpu[g].rows
        /\ gpu'[g] # None
    <3>1. gpu'[g] \in Graphs
      BY <2>3, <2>4 DEF Graphs
    <3> QED
      BY <2>3, <2>4, <3>1, ConstantsAre DEF Graphs
  <2>6. \A h \in Stages : GraphOK(h)'
    BY <1>d, <2>1, <2>2, <2>4, <2>5 DEF DevicesOK, GraphOK, Busy
  <2>7. \A h \in Stages : BatchOK(h)'
    BY <1>d, <2>1, <2>2, <2>4, <2>5 DEF DevicesOK, BatchOK, Busy, Forwarding, At
  <2>8. TransitOK'
    BY <1>d, <2>1 DEF DevicesOK, TransitOK, Forwarding, Busy
  <2> QED
    BY <2>6, <2>7, <2>8 DEF DevicesOK
<1>25. ASSUME NEW g \in Stages, GpuWait(g) PROVE DevicesOK'
  <2> DEFINE at    == IF gpu[g].layer = Layers THEN "out" ELSE "plan"
             layer == IF gpu[g].layer = Layers THEN gpu[g].layer ELSE gpu[g].layer + 1
  <2>1. UNCHANGED <<pc, call, mid, par, lastT, joined, xfer, logits>>
    BY <1>25 DEF GpuWait, host, books
  <2>2. gpu[g] # None /\ gpu[g].at = "wait" /\ gpu' = [gpu EXCEPT ![g].at = at, ![g].layer = layer]
    BY <1>25 DEF GpuWait
  <2>3. gpu[g] \in Graphs
    BY <2>2, GpuIs
  <2>4. gpu'[g] = [gpu[g] EXCEPT !.at = at, !.layer = layer] /\ \A h \in Stages : h # g => gpu'[h] = gpu[h]
    BY <2>2, TypeParts DEF IInv, RowTypes
  <2>5. at \in {"plan", "out"} /\ layer \in Nat
    BY <2>3 DEF Graphs
  <2> HIDE DEF at, layer
  <2>6. /\ gpu'[g].at \in {"plan", "out"} /\ gpu'[g].lane = gpu[g].lane /\ gpu'[g].after = gpu[g].after /\ gpu'[g].rows = gpu[g].rows
        /\ gpu'[g] # None
    <3>1. gpu'[g] \in Graphs
      BY <2>3, <2>4, <2>5 DEF Graphs
    <3> QED
      BY <2>3, <2>4, <2>5, <3>1, ConstantsAre DEF Graphs
  <2>a. /\ gpu[g].at # "begin" /\ gpu'[g].at # "begin" /\ gpu'[g].lane = gpu[g].lane /\ gpu'[g].after = gpu[g].after
        /\ gpu'[g].rows = gpu[g].rows /\ gpu'[g] # None /\ \A h \in Stages : h # g => gpu'[h] = gpu[h]
    BY <2>2, <2>4, <2>6
  <2>7. \A h \in Stages : GraphOK(h)'
    <3>1. GraphOK(g)'
      BY <1>d, <2>1, <2>a, GpuIs, <2>2 DEF DevicesOK, GraphOK, Busy
    <3>2. ASSUME NEW h \in Stages, h # g PROVE GraphOK(h)'
      BY <1>d, <2>1, <2>a, <3>2 DEF DevicesOK, GraphOK, Busy
    <3> QED
      BY <3>1, <3>2
  <2>8. \A h \in Stages : BatchOK(h)'
    <3> SUFFICES ASSUME NEW h \in Stages PROVE BatchOK(h)'
      OBVIOUS
    <3>1. BatchOK(h)
      BY <1>d DEF DevicesOK
    <3>2. gpu[h] = None <=> gpu'[h] = None
      BY <2>2, <2>a
    <3>3. gpu'[h] # None /\ gpu'[h].at = "begin" => gpu[h] # None /\ gpu[h].at = "begin"
      BY <2>2, <2>a
    <3>4. At(h)' = "booked" => At(h) = "booked"
      BY <2>1, <3>3 DEF At
    <3>5. Forwarding' = Forwarding /\ Busy(h)' = Busy(h)
      BY <2>1 DEF Forwarding, Busy
    <3> HIDE DEF Forwarding, At, Busy
    <3> QED
      BY <2>1, <3>1, <3>2, <3>4, <3>5 DEF BatchOK
  <2>9. TransitOK'
    BY <1>d, <2>1 DEF DevicesOK, TransitOK, Forwarding, Busy
  <2> QED
    BY <2>7, <2>8, <2>9 DEF DevicesOK
<1>26. ASSUME NEW g \in Stages, GpuOut(g) PROVE DevicesOK'
  <2>1. UNCHANGED <<pc, call, mid, par, lastT, joined>>
    BY <1>26 DEF GpuOut, host, books
  <2>2. gpu[g] # None /\ gpu[g].at = "out" /\ gpu' = [gpu EXCEPT ![g] = None]
    BY <1>26 DEF GpuOut
  <2>3. Forwarding /\ Busy(g) /\ gpu[g].lane = call.lane[g] /\ gpu[g].rows = AllRows(call.wins[g]) /\ call.lane[g] \in Lanes
        /\ pc \in {"service", "end"}
    BY <1>d, <2>2, GpuIs DEF DevicesOK, GraphOK
  <2>4. gpu'[g] = None /\ \A h \in Stages : h # g => gpu'[h] = gpu[h]
    BY <2>2, TypeParts DEF IInv, RowTypes
  <2>5. IF g = 1 THEN xfer' = [xfer EXCEPT ![call.lane[1]] = AllRows(call.wins[1])] /\ logits' = logits
                 ELSE logits' = AllRows(call.wins[2]) /\ xfer' = xfer
    BY <1>26, <2>3, ConstantsAre DEF GpuOut
  <2>6. \A h \in Stages : GraphOK(h)'
    BY <1>d, <2>1, <2>2, <2>4 DEF DevicesOK, GraphOK, Busy
  <2>7. g = 1 => xfer'[call.lane[1]] = AllRows(call.wins[1])
    BY <2>3, <2>5, TypeParts DEF IInv, RowTypes
  <2>8. \A h \in Stages : BatchOK(h)'
    BY <1>d, <2>1, <2>2, <2>3, <2>4, <2>5, <2>7, ConstantsAre DEF DevicesOK, BatchOK, Busy, Forwarding, At
  <2>9. call.piped => call.lane[1] # call.lane[2]
    BY <2>3 DEF IInv, CallOK
  <2>10. call.piped => xfer'[call.lane[2]] = xfer[call.lane[2]]
    BY <2>3, <2>5, <2>9, CallIs, ConstantsAre, TypeParts DEF IInv, RowTypes
  <2>11. TransitOK'
    BY <1>d, <2>1, <2>3, <2>10 DEF DevicesOK, TransitOK, Forwarding, Busy
  <2> QED
    BY <2>6, <2>8, <2>11 DEF DevicesOK
<1>27. ASSUME NEW g \in Stages, Commit(g) PROVE DevicesOK'
  BY <1>d, <1>27, DevicesSame DEF Commit, host, books
<1> QED
  BY <1>1, <1>2, <1>3, <1>4, <1>5, <1>6, <1>7, <1>8, <1>9, <1>10, <1>11, <1>12, <1>13, <1>14, <1>15, <1>16, <1>17, <1>18, <1>19,
     <1>20, <1>21, <1>22, <1>23, <1>24, <1>25, <1>26, <1>27 DEF Next, Forward, Prefill, Gpu

-----------------------------------------------------------------------------
(* The accounts *)

LEMMA AccountFrame ==
  ASSUME NEW g \in Stages, NEW s \in Slots, Account(g, s), Forwarding' <=> Forwarding, call' = call, mid' = mid,
         Forwarding /\ In(g, s) => At(g)' = At(g),
         hist'[g][s] = hist[g][s], pend'[g][s] = pend[g][s], lastRow'[g][s] = lastRow[g][s], lastLane'[g][s] = lastLane[g][s],
         \A n : Reaches(g, s, n) => Reaches(g, s, n)',
         \A w, l : HasRun(g, s, w, l) => HasRun(g, s, w, l)'
  PROVE  Account(g, s)'
<1>1. /\ \A w : New(g, s, w) => New(g, s, w)'
      /\ \A w, l : Waits(g, s, w, l) => Waits(g, s, w, l)'
      /\ \A w, l : Ran(g, s, w, l) => Ran(g, s, w, l)'
      /\ \A w, l : Ended(g, s, w, l) => Ended(g, s, w, l)'
  BY DEF New, Waits, Ran, Ended, NotRun, InBooks
<1>2. Free(g, s) => Free(g, s)'
  BY DEF Free
<1>3. Half(g)' = Half(g) /\ HalfLane(g)' = HalfLane(g)
  BY DEF Half, HalfLane
<1>4. In(g, s)' = In(g, s) /\ Win(g, s)' = Win(g, s)
  BY DEF In, Win
<1> QED
  BY <1>1, <1>2, <1>3, <1>4 DEF Account

LEMMA SlotSame ==
  ASSUME NEW g \in Stages, NEW s \in Slots, state'[g][s] = state[g][s], commits'[g] = commits[g], inter'[g] = inter[g]
  PROVE  /\ \A n : Reaches(g, s, n) => Reaches(g, s, n)'
         /\ \A w, l : HasRun(g, s, w, l) => HasRun(g, s, w, l)'
BY DEF Reaches, HasRun, RowsKept

LEMMA AccountsSame ==
  ASSUME Accounts, UNCHANGED <<call, mid, hist, pend, state, lastRow, lastLane, inter, commits>>, Forwarding' <=> Forwarding,
         \A g \in Stages : Forwarding /\ Busy(g) => At(g)' = At(g)
  PROVE  Accounts'
<1> SUFFICES ASSUME NEW g \in Stages, NEW s \in Slots PROVE Account(g, s)'
  BY DEF Accounts
<1>1. Account(g, s)
  BY DEF Accounts
<1>2. In(g, s) => Busy(g)
  BY DEF In, Busy
<1> QED
  BY <1>1, <1>2, SlotSame, AccountFrame

\* The lanes are apart, and so are a forward's windows on a stage and those half way.
LEMMA LanesApart == ASSUME NEW x \in Lanes, NEW y \in Lanes, x # y PROVE LaneSlots(x) \cap LaneSlots(y) = {}
BY DEF LaneSlots

LEMMA HalfApart ==
  ASSUME IInv, Forwarding, NEW g \in Stages, NEW s \in Slots, s \in On(Half(g))
  PROVE  call.piped /\ ~In(g, s) /\ call.lane[1] # call.lane[2] /\ Half(g) = call.wins[3 - g] /\ HalfLane(g) = call.lane[3 - g]
         /\ s \in On(call.wins[3 - g])
<1>1. call.piped
  BY NoWindowsAre DEF Half
<1>2. Half(g) = call.wins[3 - g] /\ HalfLane(g) = call.lane[3 - g]
  BY <1>1 DEF Half, HalfLane
<1>3. call.lane[1] # call.lane[2] /\ call.lane[1] \in Lanes /\ call.lane[2] \in Lanes
  BY <1>1, CallIs, ConstantsAre DEF IInv, CallOK
<1>4. On(call.wins[1]) \cap On(call.wins[2]) = {}
  <2>1. On(call.wins[1]) \subseteq LaneSlots(call.lane[1]) /\ On(call.wins[2]) \subseteq LaneSlots(call.lane[2])
    BY <1>1, ConstantsAre DEF IInv, CallOK
  <2> QED
    BY <1>3, <2>1, LanesApart
<1>5. CASE g = 1
  BY <1>1, <1>2, <1>3, <1>4, <1>5 DEF In
<1>6. CASE g = 2
  BY <1>1, <1>2, <1>3, <1>4, <1>6 DEF In
<1> QED
  BY <1>5, <1>6, ConstantsAre

LEMMA NewKeeps ==
  ASSUME NEW g \in Stages, NEW s \in Slots, UNCHANGED <<books, dev, commits>>
  PROVE  /\ \A w : New(g, s, w) => New(g, s, w)'
         /\ \A w, l : Ended(g, s, w, l) => Ended(g, s, w, l)'
         /\ Free(g, s) => Free(g, s)'
         /\ \A w : Free(g, s) /\ w.pos0 = hist[g][s] => New(g, s, w)'
<1>1. /\ \A n : Reaches(g, s, n) => Reaches(g, s, n)'
      /\ \A w, l : HasRun(g, s, w, l) => HasRun(g, s, w, l)'
  BY SlotSame DEF dev
<1> QED
  BY <1>1 DEF New, NotRun, Ended, InBooks, Free, books

\* A forward begins, on slots that are free or half way.
LEMMA AccountsBegin ==
  ASSUME IInv, ~Forwarding, pc' = "prepare", UNCHANGED <<books, dev, commits>>,
         \A g \in Stages, s \in Slots :
           /\ In(g, s)' => New(g, s, Win(g, s))'
           /\ (s \in On(Half(g)))' => (IF g = 1 THEN Ended(g, s, Half(g)[s], HalfLane(g)) ELSE New(g, s, Half(g)[s]))'
           /\ ~In(g, s)' /\ ~(s \in On(Half(g)))' => Free(g, s)
  PROVE  Accounts'
<1> SUFFICES ASSUME NEW g \in Stages, NEW s \in Slots PROVE Account(g, s)'
  BY DEF Accounts
<1>1. Forwarding' /\ At(g)' = "new"
  BY DEF Forwarding, At
<1>2. Free(g, s) => Free(g, s)'
  BY NewKeeps
<1> QED
  BY <1>1, <1>2 DEF Account

LEMMA AccountsBatch == ASSUME IInv, Batch PROVE Accounts'
<1>1. PICK ws \in Batches : /\ WellFormed(ws) /\ On(ws) = Active /\ \A s \in Active : ws[s].pos0 = hist[1][s]
                            /\ Begin([g \in Stages |-> ws], [g \in Stages |-> 0], FALSE)
  BY BatchIs
<1>2. /\ ~Forwarding /\ pc' = "prepare" /\ UNCHANGED <<books, dev, commits>> /\ mid = None /\ Forwarding'
      /\ call' = [wins |-> [g \in Stages |-> ws], lane |-> [g \in Stages |-> 0], piped |-> FALSE]
  BY <1>1 DEF Batch, Begin, Forwarding
<1>3. \A g \in Stages : call'.wins[g] = ws /\ Half(g)' = NoWindows /\ Half(g) = NoWindows
  BY <1>2 DEF Half
<1>4. ASSUME NEW g \in Stages, NEW s \in Slots
      PROVE  Free(g, s) /\ (In(g, s)' => s \in Active) /\ Win(g, s)' = ws[s] /\ ~(s \in On(Half(g)))'
  BY <1>1, <1>2, <1>3, NoWindowsAre DEF IInv, Accounts, Account, In, Win
<1>5. ASSUME NEW s \in Active, NEW g \in Stages PROVE hist[g][s] = hist[1][s]
  <2>1. s \in Slots /\ ~(s = Reading /\ rd # None)
    BY ActiveIs, TwoStagesAssumption DEF Active
  <2>2. hist[1][s] = hist[2][s]
    BY <1>2, <1>3, <2>1, NoWindowsAre, ConstantsAre DEF IInv, Level, UnderWay
  <2> QED
    BY <2>2, ConstantsAre
<1>6. ASSUME NEW g \in Stages, NEW s \in Slots, In(g, s)' PROVE New(g, s, Win(g, s))'
  <2>1. s \in Active /\ Win(g, s)' = ws[s] /\ ws[s].pos0 = hist[g][s] /\ Free(g, s)
    BY <1>1, <1>4, <1>5, <1>6
  <2> QED
    BY <1>2, <2>1, NewKeeps
<1> QED
  BY <1>2, <1>4, <1>6, AccountsBegin

LEMMA AccountsPipe ==
  ASSUME IInv, NEW ws \in Batches, NEW half \in Batches, NEW x \in Lanes,
         pc = "idle", Begin(PerStage(ws, half), PerStage(x, 1 - x), TRUE),
         IF mid = None THEN half = NoWindows ELSE half = mid.wins /\ mid.lane = 1 - x,
         On(ws) \subseteq LaneSlots(x), \A s \in On(ws) : ws[s].pos0 = hist[1][s]
  PROVE  Accounts'
<1>1. /\ ~Forwarding /\ pc' = "prepare" /\ UNCHANGED <<books, dev, commits>> /\ Forwarding'
      /\ call' = [wins |-> PerStage(ws, half), lane |-> PerStage(x, 1 - x), piped |-> TRUE]
  BY DEF Begin, Forwarding
<1>2. /\ call'.wins[1] = ws /\ call'.wins[2] = half /\ call'.lane[1] = x /\ call'.lane[2] = 1 - x /\ call'.piped = TRUE
  BY <1>1, ConstantsAre DEF PerStage
<1>3. Half(1) = half /\ Half(2) = half
  BY <1>1 DEF Half
<1>4. Half(1)' = half /\ HalfLane(1)' = 1 - x /\ Half(2)' = ws
  BY <1>1, <1>2 DEF Half, HalfLane
<1>5. \A s \in Slots : ~(s \in On(ws) /\ s \in On(half))
  <2>1. CASE mid = None
    BY <2>1, NoWindowsAre
  <2>2. CASE mid # None
    <3>1. On(half) \subseteq LaneSlots(1 - x)
      BY <2>2 DEF IInv, CallOK
    <3>2. 1 - x \in Lanes /\ 1 - x # x
      BY DEF Lanes
    <3> QED
      BY <3>1, <3>2, LanesApart
  <2> QED
    BY <2>1, <2>2
<1>6. rd = None
  BY DEF IInv, ReadOK, ReadPc, JobOK, ReadBooks, TailOK
<1>7. ASSUME NEW s \in Slots, s \notin On(half) PROVE Free(1, s) /\ Free(2, s) /\ hist[1][s] = hist[2][s]
  BY <1>1, <1>3, <1>6, <1>7, ConstantsAre DEF IInv, Accounts, Account, Level, UnderWay
<1>8. ASSUME NEW s \in Slots, s \in On(half) PROVE Ended(1, s, half[s], 1 - x) /\ New(2, s, half[s])
  <2>1. mid # None
    BY <1>8, NoWindowsAre
  <2>2. HalfLane(1) = 1 - x
    BY <1>1, <2>1 DEF HalfLane
  <2> QED
    BY <1>3, <1>8, <2>2, ConstantsAre DEF IInv, Accounts, Account
<1>9. ASSUME NEW s \in Slots
      PROVE  /\ In(1, s)' <=> s \in On(ws)
             /\ In(2, s)' <=> s \in On(half)
             /\ Win(1, s)' = ws[s] /\ Win(2, s)' = half[s]
  BY <1>2 DEF In, Win
<1>10. ASSUME NEW s \in Slots, s \in On(ws) PROVE New(1, s, ws[s])' /\ New(2, s, ws[s])'
  <2>1. Free(1, s) /\ Free(2, s) /\ hist[1][s] = hist[2][s] /\ ws[s].pos0 = hist[1][s]
    BY <1>5, <1>7, <1>10
  <2> QED
    BY <1>1, <2>1, NewKeeps, ConstantsAre
<1>11. ASSUME NEW s \in Slots, s \in On(half) PROVE Ended(1, s, half[s], 1 - x)' /\ New(2, s, half[s])'
  BY <1>1, <1>8, <1>11, NewKeeps, ConstantsAre
<1>12. ASSUME NEW s \in Slots
       PROVE  /\ In(1, s)' => New(1, s, Win(1, s))'
              /\ (s \in On(Half(1)))' => Ended(1, s, Half(1)[s], HalfLane(1))'
              /\ ~In(1, s)' /\ ~(s \in On(Half(1)))' => Free(1, s)
  BY <1>4, <1>7, <1>9, <1>10, <1>11
<1>13. ASSUME NEW s \in Slots
       PROVE  /\ In(2, s)' => New(2, s, Win(2, s))'
              /\ (s \in On(Half(2)))' => New(2, s, Half(2)[s])'
              /\ ~In(2, s)' /\ ~(s \in On(Half(2)))' => Free(2, s)
  BY <1>4, <1>7, <1>9, <1>10, <1>11
<1>14. \A g \in Stages, s \in Slots :
         /\ In(g, s)' => New(g, s, Win(g, s))'
         /\ (s \in On(Half(g)))' => (IF g = 1 THEN Ended(g, s, Half(g)[s], HalfLane(g)) ELSE New(g, s, Half(g)[s]))'
         /\ ~In(g, s)' /\ ~(s \in On(Half(g)))' => Free(g, s)
  BY <1>12, <1>13, ConstantsAre
<1> QED
  BY <1>1, <1>14, AccountsBegin

\* The rest of a prompt as a window: the slot is free on both stages, at the tokens handed on.
LEMMA TailRight ==
  ASSUME IInv, ReadTail
  PROVE  /\ ~Forwarding /\ rd # None /\ mid = None /\ cur = Reading /\ ~rd.posted /\ Left > 0
         /\ \A g \in Stages : hist[g][Reading] = rd.i /\ Free(g, Reading)
         /\ \E T \in 1..MaxWindow : T <= Left
              /\ call' = [wins |-> [g \in Stages |-> ChunkOf(Reading, T, rd.i)], lane |-> [g \in Stages |-> 0], piped |-> FALSE]
<1>1. pc = "tail" /\ ~Forwarding /\ ~TailWindow /\ ~Handing
  BY DEF ReadTail, Forwarding, TailWindow, Handing
<1>2. rd # None /\ mid = None /\ cur = Reading /\ ~rd.posted /\ Left > 0
  BY <1>1 DEF IInv, ReadOK, ReadPc, JobOK, ReadBooks, TailOK
<1>3. job = None /\ ~err
  BY <1>2 DEF IInv, ReadOK, ReadPc, JobOK, ReadBooks, TailOK
<1>4. hist[1][Reading] = rd.i + 0 /\ hist[2][Reading] = rd.i
  BY <1>1, <1>2, <1>3 DEF IInv, ReadOK, ReadPc, JobOK, ReadBooks, TailOK
<1>5. \A g \in Stages : hist[g][Reading] = rd.i /\ Free(g, Reading)
  BY <1>1, <1>2, <1>4, ReadingFree, ReadsAre, ConstantsAre
<1> DEFINE T == IF Left < MaxWindow THEN Left ELSE MaxWindow
<1>6. Left \in Nat /\ MaxWindow \in Nat /\ MaxWindow > 0
  BY <1>2, ReadsAre, ConstantsAre
<1>7. T \in 1..MaxWindow /\ T <= Left
  BY <1>2, <1>6
<1>8. call' = [wins |-> [g \in Stages |-> ChunkOf(cur, T, hist[1][cur])], lane |-> [g \in Stages |-> 0], piped |-> FALSE]
  BY DEF ReadTail
<1>9. call' = [wins |-> [g \in Stages |-> ChunkOf(Reading, T, rd.i)], lane |-> [g \in Stages |-> 0], piped |-> FALSE]
  BY <1>2, <1>5, <1>8, ConstantsAre
<1> HIDE DEF T
<1>10. \E n \in 1..MaxWindow : n <= Left
         /\ call' = [wins |-> [g \in Stages |-> ChunkOf(Reading, n, rd.i)], lane |-> [g \in Stages |-> 0], piped |-> FALSE]
  BY <1>7, <1>9
<1> QED
  BY <1>1, <1>2, <1>5, <1>10

LEMMA AccountsTail == ASSUME IInv, ReadTail PROVE Accounts'
<1>1. /\ ~Forwarding /\ mid = None /\ rd # None
      /\ \A g \in Stages : hist[g][Reading] = rd.i /\ Free(g, Reading)
  BY TailRight
<1>2. PICK T \in 1..MaxWindow :
        call' = [wins |-> [g \in Stages |-> ChunkOf(Reading, T, rd.i)], lane |-> [g \in Stages |-> 0], piped |-> FALSE]
  BY TailRight
<1>3. pc' = "prepare" /\ UNCHANGED <<books, dev, commits, mid>> /\ Forwarding'
  BY DEF ReadTail, Forwarding
<1>4. T \in Nat /\ T > 0 /\ rd.i \in Nat
  BY <1>1, ReadsAre, ConstantsAre
<1> DEFINE ws == ChunkOf(Reading, T, rd.i)
<1>5. ws[Reading] = Window(0, T, rd.i, T, TRUE) /\ On(ws) = {Reading}
  BY <1>4, AloneIs, ConstantsAre
<1>6. \A g \in Stages : call'.wins[g] = ws /\ Half(g)' = NoWindows /\ Half(g) = NoWindows
  BY <1>1, <1>2, <1>3 DEF Half
<1> HIDE DEF ws
<1>7. ws[Reading].pos0 = rd.i
  BY <1>5 DEF Window
<1>8. ASSUME NEW g \in Stages, NEW s \in Slots
      PROVE  Free(g, s) /\ (In(g, s)' => s = Reading) /\ Win(g, s)' = ws[s] /\ ~(s \in On(Half(g)))'
  BY <1>1, <1>5, <1>6, NoWindowsAre DEF IInv, Accounts, Account, In, Win
<1>9. ASSUME NEW g \in Stages, NEW s \in Slots, In(g, s)' PROVE New(g, s, Win(g, s))'
  <2>1. s = Reading /\ Win(g, s)' = ws[s] /\ ws[s].pos0 = hist[g][s] /\ Free(g, s)
    BY <1>1, <1>7, <1>8, <1>9
  <2> QED
    BY <1>3, <2>1, NewKeeps
<1> QED
  BY <1>1, <1>3, <1>8, <1>9, AccountsBegin

LEMMA AccountsPrepare == ASSUME IInv, Prepare PROVE Accounts'
<1>1. /\ pc = "prepare" /\ pc' = "launch" /\ Forwarding /\ Forwarding' /\ UNCHANGED <<call, mid, pend, state, inter, commits>>
      /\ hist'     = [g \in Stages |-> [s \in Slots |-> hist[g][s] + IF In(g, s) THEN Win(g, s).T ELSE 0]]
      /\ lastRow'  = [g \in Stages |-> [s \in Slots |-> IF In(g, s) THEN Win(g, s).r0 ELSE lastRow[g][s]]]
      /\ lastLane' = [g \in Stages |-> [s \in Slots |-> IF In(g, s) THEN call.lane[g] ELSE lastLane[g][s]]]
  BY DEF Prepare, dev, Forwarding
<1> SUFFICES ASSUME NEW g \in Stages, NEW s \in Slots PROVE Account(g, s)'
  BY DEF Accounts
<1>2. Account(g, s) /\ At(g) = "new" /\ At(g)' = "booked"
  BY <1>1 DEF IInv, Accounts, At
<1>3. /\ \A n : Reaches(g, s, n) => Reaches(g, s, n)'
      /\ \A w, l : HasRun(g, s, w, l) => HasRun(g, s, w, l)'
  BY <1>1, SlotSame
<1>4. Half(g)' = Half(g) /\ HalfLane(g)' = HalfLane(g) /\ In(g, s)' = In(g, s) /\ Win(g, s)' = Win(g, s)
  BY <1>1 DEF Half, HalfLane, In, Win
<1>5. CASE In(g, s)
  <2>1. New(g, s, Win(g, s)) /\ s \notin On(Half(g))
    BY <1>1, <1>2, <1>5, HalfApart DEF Account
  <2>2. Waits(g, s, Win(g, s), call.lane[g])'
    BY <1>1, <1>3, <1>4, <1>5, <2>1 DEF New, Waits, NotRun, InBooks
  <2> QED
    BY <1>1, <1>2, <1>4, <1>5, <2>1, <2>2 DEF Account
<1>6. CASE ~In(g, s)
  <2>1. hist[g][s] \in Nat
    BY TypeParts DEF IInv, SlotTypes
  <2>2. hist'[g][s] = hist[g][s] /\ lastRow'[g][s] = lastRow[g][s] /\ lastLane'[g][s] = lastLane[g][s] /\ pend'[g][s] = pend[g][s]
    BY <1>1, <1>6, <2>1
  <2> QED
    BY <1>1, <1>2, <1>3, <1>6, <2>2, AccountFrame
<1> QED
  BY <1>5, <1>6

LEMMA AccountsEnd == ASSUME IInv, End PROVE Accounts'
<1>1. /\ pc = "end" /\ pc' = "finish" /\ Forwarding /\ Forwarding' /\ UNCHANGED <<call, mid, hist, lastRow, lastLane, state, inter, commits, gpu>>
      /\ pend' = [g \in Stages |-> [s \in Slots |-> IF In(g, s) /\ ~Win(g, s).commit THEN Win(g, s).T ELSE IF In(g, s) THEN 0 ELSE pend[g][s]]]
      /\ \A g \in Stages : gpu[g] = None
  BY DEF End, dev, Forwarding
<1> SUFFICES ASSUME NEW g \in Stages, NEW s \in Slots PROVE Account(g, s)'
  BY DEF Accounts
<1>2. Account(g, s) /\ At(g) = "ran" /\ At(g)' = "ended"
  BY <1>1 DEF IInv, Accounts, At
<1>3. /\ \A n : Reaches(g, s, n) => Reaches(g, s, n)'
      /\ \A w, l : HasRun(g, s, w, l) => HasRun(g, s, w, l)'
  BY <1>1, SlotSame
<1>4. Half(g)' = Half(g) /\ HalfLane(g)' = HalfLane(g) /\ In(g, s)' = In(g, s) /\ Win(g, s)' = Win(g, s)
  BY <1>1 DEF Half, HalfLane, In, Win
<1>5. CASE In(g, s)
  <2>1. Ran(g, s, Win(g, s), call.lane[g]) /\ s \notin On(Half(g))
    BY <1>1, <1>2, <1>5, HalfApart DEF Account
  <2>2. Ended(g, s, Win(g, s), call.lane[g])'
    BY <1>1, <1>3, <1>4, <1>5, <2>1 DEF Ran, Ended, InBooks
  <2> QED
    BY <1>1, <1>2, <1>4, <1>5, <2>1, <2>2 DEF Account
<1>6. CASE ~In(g, s)
  <2>2. hist'[g][s] = hist[g][s] /\ lastRow'[g][s] = lastRow[g][s] /\ lastLane'[g][s] = lastLane[g][s] /\ pend'[g][s] = pend[g][s]
    BY <1>1, <1>6
  <2> QED
    BY <1>1, <1>2, <1>3, <1>6, <2>2, AccountFrame
<1> QED
  BY <1>5, <1>6

LEMMA AccountsFinish == ASSUME IInv, Finish PROVE Accounts'
<1>1. /\ pc = "finish" /\ Forwarding /\ ~Forwarding' /\ UNCHANGED <<mid, lastRow, lastLane, state, inter>>
      /\ commits' = [g \in Stages |-> commits[g] \cup {CommitOf(g, s) : s \in Verified}]
      /\ hist'    = [g \in Stages |-> [s \in Slots |-> IF s \in Verified THEN hist[g][s] - (Win(2, s).T - Win(2, s).right) ELSE hist[g][s]]]
      /\ pend'    = [g \in Stages |-> [s \in Slots |-> IF s \in Verified THEN 0 ELSE pend[g][s]]]
  BY DEF Finish, dev, Forwarding
<1>2. \A g \in Stages : Half(g)' = IF mid = None THEN NoWindows ELSE mid.wins
  BY <1>1 DEF Half
<1>3. \A g \in Stages : HalfLane(g)' = mid.lane
  BY <1>1 DEF HalfLane
<1>4. mid # None => call.piped /\ mid.wins = call.wins[1] /\ mid.lane = call.lane[1]
  BY <1>1 DEF IInv, CallOK
<1>5. \A g \in Stages : At(g) = "ended"
  <2>1. \A g \in Stages : gpu[g] = None
    BY <1>1 DEF IInv, DevicesOK, GraphOK
  <2> QED
    BY <1>1, <2>1 DEF At
<1> SUFFICES ASSUME NEW g \in Stages, NEW s \in Slots PROVE Account(g, s)'
  BY DEF Accounts
<1>6. ASSUME s \notin Verified
      PROVE  /\ hist'[g][s] = hist[g][s] /\ pend'[g][s] = pend[g][s] /\ lastRow' = lastRow /\ lastLane' = lastLane
             /\ \A n : Reaches(g, s, n) => Reaches(g, s, n)'
             /\ \A w, l : HasRun(g, s, w, l) => HasRun(g, s, w, l)'
  <2>1. \A c \in commits'[g] : c.slot = s => c \in commits[g]
    BY <1>1, <1>6 DEF CommitOf
  <2>2. commits[g] \subseteq commits'[g]
    BY <1>1
  <2> QED
    BY <1>1, <1>6, <2>1, <2>2 DEF Reaches, HasRun, RowsKept
<1>7. CASE s \in On(call.wins[2])
  <2> DEFINE w == Win(2, s)
  <2>1. Ended(g, s, w, call.lane[2])
    BY <1>1, <1>7, EndedBoth
  <2>2. ~(s \in On(Half(g)))'
    <3>1. CASE mid = None
      BY <1>2, <3>1, NoWindowsAre
    <3>2. CASE mid # None
      <4>1. Half(1) = call.wins[2]
        BY <1>1, <1>4, <3>2 DEF Half
      <4>2. ~In(1, s)
        BY <1>1, <1>7, <4>1, HalfApart, ConstantsAre
      <4> QED
        BY <1>2, <1>4, <3>2, <4>2 DEF In
    <3> QED
      BY <3>1, <3>2
  <2>3. w \in Wins /\ w.right \in 1..w.T
    BY <1>1, <1>7, CallIs, ConstantsAre DEF WellFormed, Win
  <2>4. w.T \in Nat /\ w.pos0 \in Nat /\ w.right \in Nat /\ w.commit \in BOOLEAN /\ w.right <= w.T
    BY <2>3, WinIs
  <2>5. s \in Verified <=> ~w.commit
    BY <1>7 DEF Verified
  <2>6. (\A c \in commits[g] : c.slot # s) /\ hist[g][s] = w.pos0 + w.T
    BY <2>1 DEF Ended, HasRun, InBooks
  <2>7. CASE w.commit
    <3>1. PICK n \in Nat : n = w.pos0 + w.T
      BY <2>4
    <3>2. hist'[g][s] = n /\ pend'[g][s] = 0
      BY <1>6, <2>1, <2>5, <2>7, <3>1 DEF Ended, InBooks
    <3>3. Reaches(g, s, n)
      BY <2>1, <2>6, <2>7, <3>1 DEF Ended, HasRun, Reaches
    <3>4. Reaches(g, s, n)'
      BY <1>6, <2>5, <2>7, <3>3
    <3>5. Free(g, s)'
      BY <3>2, <3>4 DEF Free
    <3> QED
      BY <1>1, <2>2, <3>5 DEF Account
  <2>8. CASE ~w.commit
    <3>1. s \in Verified /\ hist'[g][s] = w.pos0 + w.right /\ pend'[g][s] = 0
      BY <1>1, <2>4, <2>5, <2>6, <2>8
    <3>2. PICK c : c = CommitOf(g, s)
      OBVIOUS
    <3>3. c \in commits'[g] /\ c.slot = s /\ c.lane = call.lane[2] /\ c.r0 = w.r0 /\ c.n = w.right
      BY <1>1, <2>1, <3>1, <3>2 DEF CommitOf, Ended, InBooks
    <3>4. \A d \in commits'[g] : d.slot = s => d = c
      <4> SUFFICES ASSUME NEW d \in commits'[g], d.slot = s PROVE d = c
        OBVIOUS
      <4>1. d \notin commits[g]
        BY <2>6
      <4>2. PICK t \in Verified : d = CommitOf(g, t)
        BY <1>1, <4>1
      <4>3. t = s
        BY <4>2 DEF CommitOf
      <4> QED
        BY <3>2, <4>2, <4>3
    <3>5. state'[g][s] = w.pos0 /\ RowsKept(inter[g][call.lane[2]], s, w.r0, w.pos0, w.right)
      BY <1>1, <2>1, <2>8 DEF Ended, HasRun
    <3>6. state'[g][s] \in Nat /\ state'[g][s] + c.n = hist'[g][s]
      BY <2>4, <3>1, <3>3, <3>5
    <3>7. RowsKept(inter'[g][c.lane], s, c.r0, state'[g][s], c.n)
      BY <1>1, <3>3, <3>5
    <3>8. Reaches(g, s, hist[g][s])'
      BY <3>3, <3>4, <3>6, <3>7 DEF Reaches
    <3>9. Free(g, s)'
      BY <3>1, <3>8 DEF Free
    <3> QED
      BY <1>1, <2>2, <3>9 DEF Account
  <2> QED
    BY <2>4, <2>7, <2>8
<1>8. CASE s \notin On(call.wins[2]) /\ mid # None /\ s \in On(call.wins[1])
  <2>1. s \notin Verified
    BY <1>8 DEF Verified
  <2>2. Half(g)' = call.wins[1] /\ HalfLane(g)' = call.lane[1]
    BY <1>2, <1>3, <1>4, <1>8
  <2>3. IF g = 1 THEN Ended(g, s, call.wins[1][s], call.lane[1]) ELSE New(g, s, call.wins[1][s])
    <3>1. CASE g = 1
      BY <1>1, <1>5, <1>8, <3>1 DEF IInv, Accounts, Account, In, Win
    <3>2. CASE g = 2
      <4>1. Half(2) = call.wins[1]
        BY <1>1, <1>4, <1>8 DEF Half
      <4> QED
        BY <1>8, <3>2, <4>1, ConstantsAre DEF IInv, Accounts, Account
    <3> QED
      BY <3>1, <3>2, ConstantsAre
  <2>4. \A w, l : Ended(g, s, w, l) => Ended(g, s, w, l)'
    BY <1>6, <2>1 DEF Ended, InBooks
  <2>5. \A w : New(g, s, w) => New(g, s, w)'
    BY <1>6, <2>1 DEF New, NotRun
  <2>6. call.wins[1] = mid.wins /\ call.lane[1] = mid.lane /\ mid' = mid
    BY <1>1, <1>4, <1>8
  <2>7. (IF g = 1 THEN Ended(g, s, mid.wins[s], mid.lane) ELSE New(g, s, mid.wins[s]))'
    BY <2>3, <2>4, <2>5, <2>6
  <2>8. (IF g = 1 THEN Ended(g, s, Half(g)[s], HalfLane(g)) ELSE New(g, s, Half(g)[s]))'
    BY <2>2, <2>6, <2>7
  <2> QED
    BY <1>1, <1>8, <2>2, <2>8 DEF Account
<1>9. CASE s \notin On(call.wins[2]) /\ (mid # None => s \notin On(call.wins[1]))
  <2>1. s \notin Verified
    BY <1>9 DEF Verified
  <2>2. s \notin On(call.wins[1])
    <3>1. CASE mid = None /\ ~call.piped
      BY <1>1, <1>9, <3>1 DEF IInv, CallOK
    <3>2. CASE mid = None /\ call.piped
      BY <1>1, <3>2 DEF IInv, CallOK
    <3> QED
      BY <1>9, <3>1, <3>2
  <2>3. ~In(g, s) /\ s \notin On(Half(g))
    <3>1. \A h \in Stages : s \notin On(call.wins[h])
      BY <1>9, <2>2, ConstantsAre
    <3>2. s \notin On(NoWindows)
      BY NoWindowsAre
    <3>3. 3 - g \in Stages
      BY DEF Stages
    <3> QED
      BY <1>1, <3>1, <3>2, <3>3 DEF In, Half
  <2>4. Free(g, s)
    BY <2>3 DEF IInv, Accounts, Account
  <2>5. Free(g, s)'
    BY <1>6, <2>1, <2>4 DEF Free
  <2>6. ~(s \in On(Half(g)))'
    BY <1>2, <1>4, <2>2, NoWindowsAre
  <2> QED
    BY <1>1, <2>5, <2>6 DEF Account
<1> QED
  BY <1>7, <1>8, <1>9

LEMMA AccountsCommit == ASSUME IInv, NEW h \in Stages, Commit(h) PROVE Accounts'
<1>1. PICK c \in commits[h] :
        /\ c \in Kept /\ state[h][c.slot] \in Nat /\ \A d \in commits[h] : d.slot = c.slot => d = c
        /\ RowsKept(inter[h][c.lane], c.slot, c.r0, state[h][c.slot], c.n)
        /\ state' = [state EXCEPT ![h] = [state[h] EXCEPT ![c.slot] = state[h][c.slot] + c.n]]
        /\ commits' = [commits EXCEPT ![h] = commits[h] \ {c}]
  BY CommitRight
<1>2. UNCHANGED <<pc, call, mid, gpu, hist, pend, lastRow, lastLane, inter>>
  BY DEF Commit, host, books
<1>3. c.slot \in Slots /\ c.n \in Nat
  BY <1>1 DEF Kept
<1>4. SlotTypes /\ StageTypes
  BY TypeParts DEF IInv
<1> SUFFICES ASSUME NEW g \in Stages, NEW s \in Slots PROVE Account(g, s)'
  BY DEF Accounts
<1>5. Account(g, s) /\ (Forwarding' <=> Forwarding) /\ At(g)' = At(g)
  BY <1>2 DEF IInv, Accounts, Forwarding, At
<1>6. CASE g = h /\ s = c.slot
  <2>1. state'[g][s] = state[g][s] + c.n /\ \A d \in commits'[g] : d.slot # s
    BY <1>1, <1>3, <1>4, <1>6 DEF SlotTypes, StageTypes
  <2>2. \A n : Reaches(g, s, n) => Reaches(g, s, n)'
    BY <1>1, <1>6, <2>1 DEF Reaches
  <2>3. \A w, l : ~HasRun(g, s, w, l)
    BY <1>6 DEF HasRun
  <2> QED
    BY <1>2, <1>5, <2>2, <2>3, AccountFrame
<1>7. CASE g # h
  <2>1. state'[g][s] = state[g][s] /\ commits'[g] = commits[g] /\ inter'[g] = inter[g]
    BY <1>1, <1>2, <1>4, <1>7 DEF SlotTypes, StageTypes
  <2>2. /\ \A n : Reaches(g, s, n) => Reaches(g, s, n)'
        /\ \A w, l : HasRun(g, s, w, l) => HasRun(g, s, w, l)'
    BY <2>1, SlotSame
  <2> QED
    BY <1>2, <1>5, <2>2, AccountFrame
<1>8. CASE g = h /\ s # c.slot
  <2>1. state'[g][s] = state[g][s] /\ commits'[g] = commits[g] \ {c} /\ inter' = inter
    BY <1>1, <1>2, <1>4, <1>8 DEF SlotTypes, StageTypes
  <2>2. \A d : d.slot = s => (d \in commits'[g] <=> d \in commits[g])
    BY <1>8, <2>1
  <2>3. ASSUME NEW n, Reaches(g, s, n) PROVE Reaches(g, s, n)'
    <3>1. CASE (\A d \in commits[g] : d.slot # s) /\ state[g][s] = n
      BY <2>2, <2>1, <3>1 DEF Reaches
    <3>2. CASE \E d \in commits[g] : /\ d.slot = s /\ \A e \in commits[g] : e.slot = s => e = d
                                     /\ state[g][s] \in Nat /\ state[g][s] + d.n = n
                                     /\ RowsKept(inter[g][d.lane], s, d.r0, state[g][s], d.n)
      <4>1. PICK d \in commits[g] : /\ d.slot = s /\ \A e \in commits[g] : e.slot = s => e = d
                                    /\ state[g][s] \in Nat /\ state[g][s] + d.n = n
                                    /\ RowsKept(inter[g][d.lane], s, d.r0, state[g][s], d.n)
        BY <3>2
      <4>2. d \in commits'[g] /\ \A e \in commits'[g] : e.slot = s => e = d
        BY <2>2, <4>1
      <4>3. state'[g][s] \in Nat /\ state'[g][s] + d.n = n /\ RowsKept(inter'[g][d.lane], s, d.r0, state'[g][s], d.n)
        BY <2>1, <4>1
      <4> QED
        BY <4>1, <4>2, <4>3 DEF Reaches
    <3> QED
      BY <2>3, <3>1, <3>2 DEF Reaches
  <2>4. \A w, l : HasRun(g, s, w, l) => HasRun(g, s, w, l)'
    BY <2>2, <2>1 DEF HasRun, RowsKept
  <2>5. \A n : Reaches(g, s, n) => Reaches(g, s, n)'
    BY <2>3
  <2> QED
    BY <1>2, <1>5, <2>4, <2>5, AccountFrame
<1> QED
  BY <1>6, <1>7, <1>8

LEMMA AccountsBeginGraph == ASSUME IInv, NEW h \in Stages, GpuBegin(h) PROVE Accounts'
<1> DEFINE rows == AllRows(call.wins[h])
<1>1. /\ At(h) = "booked" /\ Forwarding /\ Busy(h) /\ commits[h] = {} /\ gpu[h] \in Graphs /\ gpu[h].at = "begin"
      /\ \A s \in On(call.wins[h]) : state[h][s] = Win(h, s).pos0
      /\ gpu' = [gpu EXCEPT ![h] = [gpu[h] EXCEPT !.at = "plan", !.rows = rows]]
      /\ inter' = [inter EXCEPT ![h] = [inter[h] EXCEPT ![call.lane[h]] = rows]]
      /\ state' = [state EXCEPT ![h] = AfterCommitted(call.wins[h], rows, state[h])]
  BY BeginRight
<1>2. UNCHANGED <<pc, call, mid, hist, pend, lastRow, lastLane, commits>> /\ gpu[h] # None
  BY DEF GpuBegin, host, books
<1>3. call.wins[h] \in Batches /\ WellFormed(call.wins[h]) /\ call.lane[h] \in Lanes /\ pc \in {"service", "end"}
  BY <1>1, <1>2, CallIs DEF IInv, DevicesOK, GraphOK
<1>4. rows \in Rows /\ Laid(call.wins[h])
  BY <1>3, PackedLaid, AllRowsType DEF WellFormed
<1>5. SlotTypes /\ RowTypes
  BY TypeParts DEF IInv
<1>6. ASSUME NEW s \in Slots
      PROVE  state'[h][s] = IF s \in On(call.wins[h]) /\ Win(h, s).commit THEN Win(h, s).pos0 + Win(h, s).T ELSE state[h][s]
  <2>1. \A t \in On(call.wins[h]) : state[h][t] = call.wins[h][t].pos0
    BY <1>1 DEF Win
  <2>2. AfterCommitted(call.wins[h], rows, state[h])[s]
          = IF s \in On(call.wins[h]) /\ call.wins[h][s].commit THEN call.wins[h][s].pos0 + call.wins[h][s].T ELSE state[h][s]
    BY <1>3, <2>1, AfterCommittedRight
  <2>3. state'[h] = AfterCommitted(call.wins[h], rows, state[h])
    BY <1>1, <1>5 DEF SlotTypes
  <2> QED
    BY <2>2, <2>3 DEF Win
<1>7. inter'[h][call.lane[h]] = rows /\ \A l \in Lanes : l # call.lane[h] => inter'[h][l] = inter[h][l]
  BY <1>1, <1>3, <1>5 DEF RowTypes
<1>8. gpu'[h].at = "plan"
  BY <1>1, <1>5 DEF RowTypes, Graphs
<1>h. At(h)' = "ran"
  BY <1>2, <1>3, <1>8 DEF At
<1> HIDE DEF rows
<1> SUFFICES ASSUME NEW g \in Stages, NEW s \in Slots PROVE Account(g, s)'
  BY DEF Accounts
<1>9. Account(g, s) /\ (Forwarding' <=> Forwarding)
  BY <1>2 DEF IInv, Accounts, Forwarding
<1>10. Half(g)' = Half(g) /\ HalfLane(g)' = HalfLane(g) /\ In(g, s)' = In(g, s) /\ Win(g, s)' = Win(g, s)
  BY <1>2 DEF Half, HalfLane, In, Win, Forwarding
<1>11. CASE g # h
  <2>1. state'[g][s] = state[g][s] /\ commits'[g] = commits[g] /\ inter'[g] = inter[g] /\ gpu'[g] = gpu[g]
    BY <1>1, <1>2, <1>5, <1>11 DEF SlotTypes, RowTypes
  <2>2. /\ \A n : Reaches(g, s, n) => Reaches(g, s, n)'
        /\ \A w, l : HasRun(g, s, w, l) => HasRun(g, s, w, l)'
    BY <2>1, SlotSame
  <2>3. At(g)' = At(g)
    BY <1>2, <2>1 DEF At
  <2> QED
    BY <1>2, <1>9, <2>2, <2>3, AccountFrame
<1>12. CASE g = h /\ In(h, s)
  <2>1. Waits(h, s, Win(h, s), call.lane[h]) /\ s \notin On(Half(h))
    BY <1>1, <1>9, <1>12, HalfApart DEF Account
  <2>2. s \in On(call.wins[h]) /\ state[h][s] = Win(h, s).pos0
    BY <1>1, <1>12 DEF In
  <2>3. Win(h, s) \in Wins /\ Win(h, s).right \in 1..Win(h, s).T
    BY <1>1, <1>3, <2>2, CallIs DEF WellFormed, Win
  <2>4. Win(h, s).right \in Nat /\ Win(h, s).right <= Win(h, s).T
    BY <2>3, WinIs
  <2>5. RowsKept(rows, s, Win(h, s).r0, Win(h, s).pos0, Win(h, s).right)
    BY <1>3, <1>4, <2>4, RowsKeptOf DEF rows, Win
  <2>6. RowsKept(inter[h][call.lane[h]], s, Win(h, s).r0, Win(h, s).pos0, Win(h, s).right)'
    BY <1>2, <1>7, <1>10, <1>12, <2>5
  <2>7. state'[h][s] = IF Win(h, s).commit THEN Win(h, s).pos0 + Win(h, s).T ELSE Win(h, s).pos0
    BY <1>6, <2>2
  <2>8. Ran(h, s, Win(h, s), call.lane[h])'
    BY <1>1, <1>2, <1>10, <1>12, <2>1, <2>6, <2>7 DEF Waits, NotRun, Ran, InBooks, HasRun
  <2> QED
    BY <1>1, <1>9, <1>10, <1>12, <1>h, <2>1, <2>8 DEF Account
<1>13. CASE g = h /\ ~In(h, s)
  <2>1. state'[g][s] = state[g][s] /\ commits'[g] = {} /\ commits[g] = {}
    BY <1>1, <1>2, <1>6, <1>13 DEF In
  <2>2. \A n : Reaches(g, s, n) => Reaches(g, s, n)'
    BY <2>1 DEF Reaches
  <2>3. \A w : New(g, s, w) => New(g, s, w)'
    BY <1>2, <2>2 DEF New, NotRun
  <2>4. Free(g, s) => Free(g, s)'
    BY <1>2, <2>2 DEF Free
  <2>5. CASE s \in On(Half(g))
    <3>1. call.lane[1] # call.lane[2] /\ HalfLane(g) = call.lane[3 - g] /\ call.lane[3 - g] \in Lanes
      <4>1. 3 - g \in Stages
        BY DEF Stages
      <4> QED
        BY <1>1, <2>5, <4>1, HalfApart, CallIs
    <3>2. HalfLane(g) # call.lane[h] /\ HalfLane(g) \in Lanes
      BY <3>1, <1>13 DEF Stages
    <3>3. PICK l \in Lanes : l = HalfLane(g)
      BY <3>2
    <3>4. inter'[g][l] = inter[g][l]
      BY <1>7, <1>13, <3>2, <3>3
    <3>5. \A w : Ended(g, s, w, l) => Ended(g, s, w, l)'
      BY <1>2, <2>1, <3>4 DEF Ended, InBooks, HasRun, RowsKept
    <3>6. IF g = 1 THEN Ended(g, s, Half(g)[s], l) ELSE New(g, s, Half(g)[s])
      BY <1>9, <2>5, <3>3 DEF Account
    <3>7. PICK w : w = Half(g)[s]
      OBVIOUS
    <3>8. (IF g = 1 THEN Ended(g, s, w, l) ELSE New(g, s, w))'
      BY <2>3, <3>5, <3>6, <3>7
    <3>9. Half(g)'[s] = w /\ HalfLane(g)' = l
      BY <1>10, <3>3, <3>7
    <3>10. (IF g = 1 THEN Ended(g, s, Half(g)[s], HalfLane(g)) ELSE New(g, s, Half(g)[s]))'
      BY <3>8, <3>9
    <3> QED
      BY <1>10, <1>13, <2>5, <3>10 DEF Account
  <2>6. CASE s \notin On(Half(g))
    BY <1>9, <1>10, <1>13, <2>4, <2>6 DEF Account
  <2> QED
    BY <2>5, <2>6
<1> QED
  BY <1>11, <1>12, <1>13

\* Between forwards, with no lane half way, every slot is free and stays so when its state follows its book.
LEMMA AccountsFree ==
  ASSUME Accounts, ~Forwarding, ~Forwarding', mid = None, mid' = None,
         \A g \in Stages, s \in Slots :
           \/ state'[g][s] = state[g][s] /\ hist'[g][s] = hist[g][s] /\ pend'[g][s] = pend[g][s] /\ commits'[g] = commits[g] /\ inter'[g] = inter[g]
           \/ state'[g][s] = hist'[g][s] /\ pend'[g][s] = 0 /\ commits'[g] = {}
  PROVE  Accounts'
<1> SUFFICES ASSUME NEW g \in Stages, NEW s \in Slots PROVE Account(g, s)'
  BY DEF Accounts
<1>1. Half(g) = NoWindows /\ Half(g)' = NoWindows
  BY DEF Half
<1>2. Free(g, s)
  BY <1>1, NoWindowsAre DEF Accounts, Account
<1>3. Free(g, s)'
  <2>1. CASE state'[g][s] = state[g][s] /\ hist'[g][s] = hist[g][s] /\ pend'[g][s] = pend[g][s] /\ commits'[g] = commits[g] /\ inter'[g] = inter[g]
    BY <1>2, <2>1, SlotSame DEF Free
  <2>2. CASE state'[g][s] = hist'[g][s] /\ pend'[g][s] = 0 /\ commits'[g] = {}
    BY <2>2 DEF Free, Reaches
  <2> QED
    BY <2>1, <2>2
<1> QED
  BY <1>1, <1>3, NoWindowsAre DEF Account

LEMMA AccountsReadChunk == ASSUME IInv, ReadChunk PROVE Accounts'
<1>1. /\ ~Forwarding /\ ~Forwarding' /\ mid = None /\ mid' = None /\ UNCHANGED <<pend, inter, commits>>
  BY ReadChunkRight DEF ReadChunk, ChunkBooks, Forwarding, IInv, ReadOK, ReadPc, JobOK, ReadBooks, TailOK
<1>2. /\ hist'  = [hist EXCEPT ![1] = [hist[1] EXCEPT ![Reading] = rd.i + ChunkLen]]
      /\ state' = [state EXCEPT ![1] = [state[1] EXCEPT ![Reading] = rd.i + ChunkLen]]
      /\ commits[1] = {} /\ rd # None /\ ~TailWindow
  BY ReadChunkRight
<1>3. SlotTypes
  BY TypeParts DEF IInv
<1>4. Free(1, Reading)
  BY <1>2, ReadingFree, ConstantsAre
<1>5. ASSUME NEW g \in Stages, NEW s \in Slots, ~(g = 1 /\ s = Reading)
      PROVE  state'[g][s] = state[g][s] /\ hist'[g][s] = hist[g][s]
  BY <1>2, <1>3, <1>5 DEF SlotTypes
<1>6. state'[1][Reading] = hist'[1][Reading] /\ pend'[1][Reading] = 0 /\ commits'[1] = {}
  BY <1>1, <1>2, <1>3, <1>4, ConstantsAre DEF SlotTypes, Free
<1>7. \A g \in Stages, s \in Slots :
        \/ state'[g][s] = state[g][s] /\ hist'[g][s] = hist[g][s] /\ pend'[g][s] = pend[g][s] /\ commits'[g] = commits[g] /\ inter'[g] = inter[g]
        \/ state'[g][s] = hist'[g][s] /\ pend'[g][s] = 0 /\ commits'[g] = {}
  BY <1>1, <1>5, <1>6
<1> QED
  BY <1>1, <1>7, AccountsFree DEF IInv

LEMMA AccountsWork == ASSUME IInv, Work PROVE Accounts'
<1>1. job # None
  BY DEF Work
<1>2. ~Forwarding /\ ~TailWindow /\ rd # None
  BY <1>1, JobIs
<1>3. ~Forwarding' /\ mid = None /\ mid' = None /\ UNCHANGED <<pend, inter, commits>>
  BY <1>2 DEF Work, ChunkBooks, Forwarding, IInv, ReadOK, ReadPc, JobOK, ReadBooks, TailOK
<1>4. /\ hist'  = [hist EXCEPT ![2] = [hist[2] EXCEPT ![Reading] = rd.i]]
      /\ state' = [state EXCEPT ![2] = [state[2] EXCEPT ![Reading] = rd.i]]
      /\ commits[2] = {}
  BY WorkRight
<1>5. SlotTypes
  BY TypeParts DEF IInv
<1>6. Free(2, Reading)
  BY <1>2, ReadingFree, ConstantsAre
<1>7. ASSUME NEW g \in Stages, NEW s \in Slots, ~(g = 2 /\ s = Reading)
      PROVE  state'[g][s] = state[g][s] /\ hist'[g][s] = hist[g][s]
  BY <1>4, <1>5, <1>7 DEF SlotTypes
<1>8. state'[2][Reading] = hist'[2][Reading] /\ pend'[2][Reading] = 0 /\ commits'[2] = {}
  BY <1>3, <1>4, <1>5, <1>6, ConstantsAre DEF SlotTypes, Free
<1>9. \A g \in Stages, s \in Slots :
        \/ state'[g][s] = state[g][s] /\ hist'[g][s] = hist[g][s] /\ pend'[g][s] = pend[g][s] /\ commits'[g] = commits[g] /\ inter'[g] = inter[g]
        \/ state'[g][s] = hist'[g][s] /\ pend'[g][s] = 0 /\ commits'[g] = {}
  BY <1>3, <1>7, <1>8
<1> QED
  BY <1>2, <1>3, <1>9, AccountsFree DEF IInv

LEMMA AccountsSettle == ASSUME IInv, Settle PROVE Accounts'
<1>1. /\ pc = "settle" /\ ~Forwarding /\ ~Forwarding' /\ mid' = mid /\ UNCHANGED <<inter, commits>> /\ \A g \in Stages : commits[g] = {}
      /\ hist'  = [g \in Stages |-> [hist[g] EXCEPT ![Reading] = 0]]
      /\ pend'  = [g \in Stages |-> [pend[g] EXCEPT ![Reading] = 0]]
      /\ state' = [g \in Stages |-> [state[g] EXCEPT ![Reading] = 0]]
  BY DEF Settle, Forwarding
<1>2. rd # None /\ mid = None
  BY <1>1 DEF IInv, ReadOK, ReadPc, JobOK, ReadBooks, TailOK
<1>3. SlotTypes
  BY TypeParts DEF IInv
<1>4. ASSUME NEW g \in Stages, NEW s \in Slots, s # Reading
      PROVE  state'[g][s] = state[g][s] /\ hist'[g][s] = hist[g][s] /\ pend'[g][s] = pend[g][s]
  BY <1>1, <1>3, <1>4 DEF SlotTypes
<1>5. ASSUME NEW g \in Stages PROVE state'[g][Reading] = hist'[g][Reading] /\ pend'[g][Reading] = 0 /\ commits'[g] = {}
  BY <1>1, <1>3, ConstantsAre DEF SlotTypes
<1>6. \A g \in Stages, s \in Slots :
        \/ state'[g][s] = state[g][s] /\ hist'[g][s] = hist[g][s] /\ pend'[g][s] = pend[g][s] /\ commits'[g] = commits[g] /\ inter'[g] = inter[g]
        \/ state'[g][s] = hist'[g][s] /\ pend'[g][s] = 0 /\ commits'[g] = {}
  BY <1>1, <1>4, <1>5
<1> QED
  BY <1>1, <1>2, <1>6, AccountsFree DEF IInv

LEMMA AccountsStep == ASSUME IInv, Next PROVE Accounts'
<1>a. Accounts
  BY DEF IInv
<1>1. CASE Batch
  BY <1>1, AccountsBatch
<1>2. CASE PipeStep
  <2>1. PICK ws \in Batches, half \in Batches, x \in Lanes :
           /\ WellFormed(ws) /\ On(ws) = LaneSlots(x) /\ \A s \in On(ws) : ws[s].pos0 = hist[1][s]
           /\ WellFormed(half) /\ IF mid = None THEN half = NoWindows ELSE half = mid.wins /\ mid.lane = 1 - x
           /\ Begin(PerStage(ws, half), PerStage(x, 1 - x), TRUE) /\ mid' = [lane |-> x, wins |-> ws]
    BY <1>2, PipeStepIs
  <2>2. pc = "idle"
    BY <1>2 DEF PipeStep
  <2> QED
    BY <2>1, <2>2, AccountsPipe
<1>3. CASE PipeDrain
  <2>1. mid \in Halves /\ mid # None /\ pc = "idle" /\ Begin(PerStage(NoWindows, mid.wins), PerStage(1 - mid.lane, mid.lane), TRUE)
    BY <1>3, TypeParts DEF PipeDrain, IInv, HostTypes
  <2>2. mid.wins \in Batches /\ mid.lane \in Lanes
    BY <2>1 DEF Halves
  <2>3. PICK x \in Lanes : x = 1 - mid.lane
    BY <2>2 DEF Lanes
  <2>4. mid.lane = 1 - x
    BY <2>2, <2>3 DEF Lanes
  <2>5. Begin(PerStage(NoWindows, mid.wins), PerStage(x, 1 - x), TRUE)
    BY <2>1, <2>3, <2>4
  <2> QED
    BY <2>1, <2>2, <2>4, <2>5, NoWindowsAre, AccountsPipe
<1>4. CASE Read
  <2>1. ~Forwarding /\ ~Forwarding' /\ UNCHANGED <<call, mid, hist, pend, state, lastRow, lastLane, inter, commits>>
    BY <1>4 DEF Read, Forwarding, books, dev
  <2> QED
    BY <1>a, <2>1, AccountsSame
<1>5. CASE Prepare
  BY <1>5, AccountsPrepare
<1>6. CASE Launch
  <2>1. Forwarding /\ Forwarding' /\ UNCHANGED <<call, mid, hist, pend, state, lastRow, lastLane, inter, commits>> /\ pc = "launch" /\ pc' = "service"
    BY <1>6 DEF Launch, Forwarding, books
  <2>2. ASSUME NEW g \in Stages, Busy(g) PROVE At(g)' = At(g)
    <3>2. gpu'[g] = [at |-> "begin", layer |-> 1, rows |-> <<>>, lane |-> call.lane[g], after |-> g = 2 /\ ~call.piped, seq |-> seq[g]]
      BY <1>6, <2>2 DEF Launch
    <3>3. gpu'[g] # None
      <4>1. PICK a \in BOOLEAN : a = (g = 2 /\ ~call.piped)
        OBVIOUS
      <4>2. call.lane[g] \in Lanes /\ seq[g] \in Nat /\ <<>> \in Rows
        BY <2>1, CallIs, TypeParts DEF IInv, StageTypes, Rows
      <4>3. gpu'[g] = [at |-> "begin", layer |-> 1, rows |-> <<>>, lane |-> call.lane[g], after |-> a, seq |-> seq[g]]
        BY <3>2, <4>1
      <4>4. gpu'[g] \in Graphs
        BY <4>2, <4>3 DEF Graphs
      <4> QED
        BY <4>4, ConstantsAre
    <3> QED
      BY <2>1, <3>2, <3>3 DEF At
  <2> QED
    BY <1>a, <2>1, <2>2, AccountsSame
<1>7. CASE ServiceEnd
  <2>1. /\ Forwarding /\ Forwarding' /\ UNCHANGED <<call, mid, hist, pend, state, lastRow, lastLane, inter, commits>>
        /\ \A g \in Stages : At(g)' = At(g)
    BY <1>7 DEF ServiceEnd, Forwarding, books, dev, At
  <2> QED
    BY <1>a, <2>1, AccountsSame
<1>8. CASE End
  BY <1>8, AccountsEnd
<1>9. CASE Finish
  BY <1>9, AccountsFinish
<1>10. CASE ReadChunk
  BY <1>10, AccountsReadChunk
<1>11. ASSUME ReadChunkFails \/ Wait \/ Post \/ Drain \/ ReadDone \/ FirstToken PROVE Accounts'
  <2>1. ~Forwarding /\ ~Forwarding' /\ UNCHANGED <<call, mid, hist, pend, state, lastRow, lastLane, inter, commits>>
    BY <1>11 DEF ReadChunkFails, Wait, Waited, Callback, Post, Drain, ReadDone, FirstToken, Forwarding, books, dev
  <2> QED
    BY <1>a, <2>1, AccountsSame
<1>12. CASE BetweenEnd
  <2>1. rd # None
    BY <1>12 DEF BetweenEnd, IInv, ReadOK, ReadPc, JobOK, ReadBooks, TailOK, Forwarding
  <2>2. pc' \in {"read", "post", "tail"}
    BY <1>12, <2>1, ReadsAre DEF BetweenEnd
  <2>3. ~Forwarding /\ ~Forwarding' /\ UNCHANGED <<call, mid, hist, pend, state, lastRow, lastLane, inter, commits>>
    BY <1>12, <2>2 DEF BetweenEnd, Forwarding, books, dev
  <2> QED
    BY <1>a, <2>3, AccountsSame
<1>13. CASE ReadTail
  BY <1>13, AccountsTail
<1>14. CASE Settle
  BY <1>14, AccountsSettle
<1>15. CASE Work
  BY <1>15, AccountsWork
<1>16. CASE WorkFails
  <2>1. ~Forwarding
    BY <1>16, JobIs DEF WorkFails
  <2>2. ~Forwarding' /\ UNCHANGED <<call, mid, hist, pend, state, lastRow, lastLane, inter, commits>>
    BY <1>16, <2>1 DEF WorkFails, Forwarding, books, dev
  <2> QED
    BY <1>a, <2>1, <2>2, AccountsSame
<1>17. ASSUME NEW g \in Stages, Service(g) PROVE Accounts'
  <2>1. /\ (Forwarding' <=> Forwarding) /\ UNCHANGED <<call, mid, hist, pend, state, lastRow, lastLane, inter, commits>>
        /\ \A h \in Stages : At(h)' = At(h)
    BY <1>17 DEF Service, Forwarding, host, books, dev, At
  <2> QED
    BY <1>a, <2>1, AccountsSame
<1>18. ASSUME NEW g \in Stages, GpuBegin(g) PROVE Accounts'
  BY <1>18, AccountsBeginGraph
<1>19. ASSUME NEW g \in Stages, GpuPlan(g) \/ GpuWait(g) \/ GpuOut(g) PROVE Accounts'
  <2>1. gpu[g] # None /\ gpu[g].at # "begin"
    BY <1>19 DEF GpuPlan, GpuWait, GpuOut
  <2>2. (Forwarding' <=> Forwarding) /\ UNCHANGED <<pc, call, mid, hist, pend, state, lastRow, lastLane, inter, commits>>
    BY <1>19 DEF GpuPlan, GpuWait, GpuOut, Forwarding, host, books
  <2>3. gpu[g] \in Graphs /\ RowTypes
    BY <2>1, GpuIs, TypeParts DEF IInv
  <2>4. gpu'[g] = None \/ gpu'[g].at # "begin"
    <3>1. CASE GpuPlan(g)
      <4>1. gpu' = [gpu EXCEPT ![g].at = "wait"]
        BY <3>1 DEF GpuPlan
      <4> QED
        BY <2>3, <4>1 DEF RowTypes, Graphs
    <3>2. CASE GpuWait(g)
      <4> DEFINE at    == IF gpu[g].layer = Layers THEN "out" ELSE "plan"
                 layer == IF gpu[g].layer = Layers THEN gpu[g].layer ELSE gpu[g].layer + 1
      <4>1. gpu' = [gpu EXCEPT ![g].at = at, ![g].layer = layer] /\ at # "begin"
        BY <3>2 DEF GpuWait
      <4> HIDE DEF at, layer
      <4> QED
        BY <2>3, <4>1 DEF RowTypes, Graphs
    <3>3. CASE GpuOut(g)
      BY <2>3, <3>3 DEF GpuOut, RowTypes
    <3> QED
      BY <1>19, <3>1, <3>2, <3>3
  <2>5. \A h \in Stages : h # g => gpu'[h] = gpu[h]
    BY <1>19, <2>3 DEF GpuPlan, GpuWait, GpuOut, RowTypes
  <2>6. \A h \in Stages : At(h)' = At(h)
    BY <2>1, <2>2, <2>4, <2>5 DEF At
  <2> QED
    BY <1>a, <2>2, <2>6, AccountsSame
<1>20. ASSUME NEW g \in Stages, Commit(g) PROVE Accounts'
  BY <1>20, AccountsCommit
<1> QED
  BY <1>1, <1>2, <1>3, <1>4, <1>5, <1>6, <1>7, <1>8, <1>9, <1>10, <1>11, <1>12, <1>13, <1>14, <1>15, <1>16, <1>17, <1>18, <1>19,
     <1>20 DEF Next, Forward, Prefill, Gpu

LEMMA NextUpdated ==
  ASSUME NEW r \in Reads, NEW next \in {"read", "post", "tail"}, NEW q, q = [r EXCEPT !.next = next]
  PROVE  q \in Reads /\ q.total = r.total /\ q.i = r.i /\ q.buf = r.buf /\ q.posted = r.posted /\ q.next = next
BY DEF Reads

\* What the steps of a prompt read do to it.
LEMMA WaitIs ==
  ASSUME IInv, Wait
  PROVE  /\ pc = "wait" /\ rd # None /\ job = None /\ err' = FALSE /\ rd' \in Reads
         /\ \/ err /\ pc' = "settle" /\ rd' = rd
            \/ /\ ~err /\ rd.posted /\ pc' = "between" /\ rd'.total = rd.total /\ rd'.i = rd.i /\ rd'.buf = rd.buf
               /\ rd'.posted = rd.posted /\ rd'.next = "post"
            \/ ~err /\ ~rd.posted /\ pc' = "post" /\ rd' = rd
<1>1. pc = "wait" /\ Waited(IF rd.posted THEN Callback("post") ELSE pc' = "post" /\ UNCHANGED rd)
  BY DEF Wait
<1>2. rd # None
  BY <1>1 DEF IInv, ReadOK, ReadPc, Forwarding
<1>3. rd \in Reads
  BY <1>2, ReadsAre
<1>4. CASE err
  BY <1>1, <1>2, <1>3, <1>4 DEF Waited
<1>5. CASE ~err /\ rd.posted
  <2>1. job = None /\ err' = FALSE /\ pc' = "between" /\ rd' = [rd EXCEPT !.next = "post"]
    BY <1>1, <1>5 DEF Waited, Callback
  <2>2. rd' \in Reads /\ rd'.total = rd.total /\ rd'.i = rd.i /\ rd'.buf = rd.buf /\ rd'.posted = rd.posted /\ rd'.next = "post"
    BY <1>3, <2>1, NextUpdated
  <2> QED
    BY <1>1, <1>2, <1>5, <2>1, <2>2
<1>6. CASE ~err /\ ~rd.posted
  BY <1>1, <1>2, <1>3, <1>6 DEF Waited
<1> QED
  BY <1>4, <1>5, <1>6

LEMMA DrainIs ==
  ASSUME IInv, Drain
  PROVE  /\ pc = "read" /\ rd # None /\ job = None /\ Left \in 1..PrefillMin - 1 /\ err' = FALSE /\ rd' \in Reads
         /\ \/ err /\ pc' = "settle" /\ rd' = rd
            \/ /\ ~err /\ rd.posted /\ pc' = "between" /\ rd'.total = rd.total /\ rd'.i = rd.i /\ rd'.buf = rd.buf
               /\ rd'.posted = FALSE /\ rd'.next = "tail"
            \/ ~err /\ ~rd.posted /\ pc' = "tail" /\ rd' = rd
<1>1. pc = "read" /\ Left \in 1..PrefillMin - 1
  BY DEF Drain
<1>2. rd # None
  BY <1>1 DEF IInv, ReadOK, ReadPc, Forwarding
<1>3. rd \in Reads
  BY <1>2, ReadsAre
<1>4. CASE rd.posted
  <2>1. Waited(pc' = "between" /\ rd' = [rd EXCEPT !.posted = FALSE, !.next = "tail"])
    BY <1>4 DEF Drain
  <2>2. CASE err
    BY <1>1, <1>2, <1>3, <1>4, <2>1, <2>2 DEF Waited
  <2>3. CASE ~err
    <3>1. job = None /\ err' = FALSE /\ pc' = "between" /\ rd' = [rd EXCEPT !.posted = FALSE, !.next = "tail"]
      BY <2>1, <2>3 DEF Waited
    <3>2. rd' \in Reads /\ rd'.total = rd.total /\ rd'.i = rd.i /\ rd'.buf = rd.buf /\ rd'.posted = FALSE /\ rd'.next = "tail"
      <4>1. PICK r, q : r \in Reads /\ r = rd /\ q = rd'
        BY <1>3
      <4>2. q = [r EXCEPT !.posted = FALSE, !.next = "tail"]
        BY <3>1, <4>1
      <4>3. q \in Reads /\ q.total = r.total /\ q.i = r.i /\ q.buf = r.buf /\ q.posted = FALSE /\ q.next = "tail"
        BY <4>1, <4>2 DEF Reads
      <4> QED
        BY <4>1, <4>3
    <3> QED
      BY <1>1, <1>2, <1>4, <2>3, <3>1, <3>2
  <2> QED
    BY <2>2, <2>3
<1>5. CASE ~rd.posted
  <2>1. job = None /\ err = FALSE
    <3>1. err \in BOOLEAN
      BY TypeParts DEF IInv, ReadTypes
    <3> QED
      BY <1>5, <3>1 DEF IInv, ReadOK, JobOK
  <2> QED
    BY <1>1, <1>2, <1>3, <1>5, <2>1 DEF Drain
<1> QED
  BY <1>4, <1>5

LEMMA DoneIs ==
  ASSUME IInv, ReadDone
  PROVE  /\ pc = "read" /\ rd # None /\ job = None /\ Left = 0 /\ err' = FALSE /\ rd' = rd
         /\ \/ err /\ pc' = "settle" /\ lastT' = lastT
            \/ ~err /\ pc' = "first token" /\ lastT' = [g \in Stages |-> lastT[2]]
<1>1. pc = "read" /\ Left = 0 /\ lastT' = IF pc' = "settle" THEN lastT ELSE [g \in Stages |-> LastTOf(g)]
  BY DEF ReadDone
<1>2. rd # None
  BY <1>1 DEF IInv, ReadOK, ReadPc, Forwarding
<1>3. \A g \in Stages : LastTOf(g) = lastT[2]
  BY DEF LastTOf
<1>4. CASE rd.posted
  <2>1. Waited(pc' = "first token" /\ UNCHANGED rd)
    BY <1>4 DEF ReadDone
  <2> QED
    BY <1>1, <1>2, <1>3, <2>1 DEF Waited
<1>5. CASE ~rd.posted
  <2>1. job = None /\ err = FALSE
    <3>1. err \in BOOLEAN
      BY TypeParts DEF IInv, ReadTypes
    <3> QED
      BY <1>5, <3>1 DEF IInv, ReadOK, JobOK
  <2>2. pc' = "first token" /\ UNCHANGED <<rd, err>>
    BY <1>5 DEF ReadDone
  <2> QED
    BY <1>1, <1>2, <1>3, <2>1, <2>2
<1> QED
  BY <1>4, <1>5

LEMMA PostIs ==
  ASSUME IInv, Post
  PROVE  /\ pc = "post" /\ pc' = "read" /\ rd # None /\ job = None /\ ~err /\ cur = Reading /\ ChunkLen > 0 /\ ~Forwarding /\ Handing
         /\ hist[1][Reading] = rd.i + ChunkLen /\ hist[2][Reading] = rd.i
         /\ pfXfer[rd.buf] = AllRows(ChunkOf(Reading, ChunkLen, rd.i))
         /\ job' \in Jobs /\ job'.slot = Reading /\ job'.buf = rd.buf /\ job'.n = ChunkLen /\ job'.pos0 = rd.i
         /\ rd' \in Reads /\ rd'.total = rd.total /\ rd'.i = rd.i + ChunkLen /\ rd'.buf = 1 - rd.buf /\ rd'.posted = TRUE /\ rd'.next = rd.next
<1>1. pc = "post" /\ pc' = "read" /\ ~Forwarding /\ ~TailWindow
  BY DEF Post, Forwarding, TailWindow
<1>2. rd # None /\ cur = Reading /\ job = None /\ ~err
  BY <1>1 DEF IInv, ReadOK, ReadPc, JobOK
<1>3. Handing
  BY <1>1, <1>2 DEF Handing
<1>4. hist[1][Reading] = rd.i + ChunkLen /\ hist[2][Reading] = rd.i
  BY <1>1, <1>2, <1>3 DEF IInv, ReadOK, ReadBooks
<1>5. Left >= PrefillMin /\ pfXfer[rd.buf] = AllRows(ChunkOf(Reading, ChunkLen, rd.i))
  BY <1>3 DEF IInv, ReadOK, HandOK
<1>6. /\ rd \in Reads /\ rd.i \in Nat /\ ChunkLen \in Nat /\ ChunkLen > 0 /\ rd.buf \in {0, 1} /\ Left \in Nat
  BY <1>2, <1>5, ReadsAre, ConstantsAre
<1>7. job' = [slot |-> Reading, buf |-> rd.buf, n |-> ChunkLen, pos0 |-> rd.i]
  <2>1. hist[1][cur] - ChunkLen = rd.i
    BY <1>2, <1>4, <1>6
  <2> QED
    BY <1>2, <2>1 DEF Post
<1>8. job' \in Jobs /\ job'.slot = Reading /\ job'.buf = rd.buf /\ job'.n = ChunkLen /\ job'.pos0 = rd.i
  BY <1>6, <1>7, ConstantsAre DEF Jobs
<1> DEFINE i == rd.i + ChunkLen
           b == OtherBuffer(rd.buf)
<1>9. rd' = [rd EXCEPT !.posted = TRUE, !.buf = b, !.i = i]
  BY DEF Post
<1>10. i \in Nat /\ b \in {0, 1} /\ b = 1 - rd.buf
  BY <1>6 DEF OtherBuffer
<1> HIDE DEF i, b
<1>11. rd' \in Reads /\ rd'.total = rd.total /\ rd'.i = i /\ rd'.buf = b /\ rd'.posted = TRUE /\ rd'.next = rd.next
  <2>1. PICK r, q : r \in Reads /\ r = rd /\ q = rd'
    BY <1>6
  <2>2. q = [r EXCEPT !.posted = TRUE, !.buf = b, !.i = i]
    BY <1>9, <2>1
  <2>3. q \in Reads /\ q.total = r.total /\ q.i = i /\ q.buf = b /\ q.posted = TRUE /\ q.next = r.next
    BY <1>10, <2>1, <2>2 DEF Reads
  <2> QED
    BY <2>1, <2>3
<1> QED
  BY <1>1, <1>2, <1>3, <1>4, <1>5, <1>6, <1>8, <1>10, <1>11 DEF i

-----------------------------------------------------------------------------
(* Both stages' books *)

LEMMA LevelSame ==
  ASSUME Level, UNCHANGED hist, \A s \in Slots : UnderWay(s) => UnderWay(s)'
  PROVE  Level'
BY DEF Level

LEMMA LevelFrame ==
  ASSUME Level, UNCHANGED <<hist, call, mid>>, Forwarding' <=> Forwarding, rd' = None => rd = None
  PROVE  Level'
<1>1. \A s \in Slots : UnderWay(s) => UnderWay(s)'
  BY DEF UnderWay, In, Half
<1> QED
  BY <1>1, LevelSame

LEMMA LevelBegin ==
  ASSUME IInv, ~Forwarding, pc' = "prepare", UNCHANGED <<hist, rd>>,
         \A s \in Slots : mid # None /\ s \in On(mid.wins) => In(2, s)'
  PROVE  Level'
<1>1. Forwarding'
  BY DEF Forwarding
<1>2. ASSUME NEW s \in Slots, UnderWay(s) PROVE UnderWay(s)'
  <2>1. CASE s \in On(Half(1))
    <3>1. mid # None /\ s \in On(mid.wins)
      BY <2>1, NoWindowsAre DEF Half
    <3> QED
      BY <1>1, <3>1 DEF UnderWay
  <2>2. CASE s = Reading /\ rd # None
    BY <2>2 DEF UnderWay
  <2> QED
    BY <1>2, <2>1, <2>2 DEF UnderWay
<1> QED
  BY <1>2, LevelSame DEF IInv

LEMMA LevelFinish == ASSUME IInv, Finish PROVE Level'
<1>1. /\ pc = "finish" /\ Forwarding /\ ~Forwarding' /\ mid' = mid
      /\ hist' = [g \in Stages |-> [s \in Slots |-> IF s \in Verified THEN hist[g][s] - (Win(2, s).T - Win(2, s).right) ELSE hist[g][s]]]
  BY DEF Finish, Forwarding
<1>2. rd' = None <=> rd = None
  <2>1. rd # None => rd \in Reads
    BY TypeParts DEF IInv, ReadTypes
  <2>2. rd' \in Reads \/ rd' = rd
    <3>1. CASE rd # None /\ In(2, Reading)
      <4> DEFINE i == rd.i + Win(2, Reading).T
      <4>1. rd' = [rd EXCEPT !.i = i, !.next = "read"]
        BY <3>1 DEF Finish
      <4>2. i \in Nat
        BY <1>1, <3>1, ReadsAre, CallIs, WinIs, ConstantsAre
      <4> HIDE DEF i
      <4> QED
        BY <2>1, <3>1, <4>1, <4>2 DEF Reads
    <3>2. CASE ~(rd # None /\ In(2, Reading))
      BY <3>2 DEF Finish
    <3> QED
      BY <3>1, <3>2
  <2>3. rd # None => rd' # None
    BY <2>1, <2>2, ConstantsAre
  <2>4. rd = None => rd' = None
    BY DEF Finish
  <2> QED
    BY <2>3, <2>4
<1>3. mid # None => call.piped /\ mid.wins = call.wins[1]
  BY <1>1 DEF IInv, CallOK
<1>4. Half(1)' = IF mid = None THEN NoWindows ELSE mid.wins
  BY <1>1 DEF Half
<1> SUFFICES ASSUME NEW s \in Slots, ~UnderWay(s)' PROVE hist'[1][s] = hist'[2][s]
  BY DEF Level
<1>5. s \notin (On(Half(1)))' /\ ~(s = Reading /\ rd # None)
  BY <1>2 DEF UnderWay
<1>6. CASE s \in On(call.wins[2])
  <2>1. hist[1][s] = Win(2, s).pos0 + Win(2, s).T /\ hist[2][s] = Win(2, s).pos0 + Win(2, s).T
    BY <1>1, <1>6, EndedBoth, ConstantsAre DEF Ended, InBooks
  <2> QED
    BY <1>1, <2>1, ConstantsAre
<1>7. CASE s \notin On(call.wins[2])
  <2>1. s \notin Verified
    BY <1>7 DEF Verified
  <2>2. s \notin On(call.wins[1])
    <3>1. CASE mid # None
      BY <1>3, <1>4, <1>5, <3>1
    <3>2. CASE mid = None
      BY <1>1, <1>7, <3>2 DEF IInv, CallOK
    <3> QED
      BY <3>1, <3>2
  <2>3. s \notin On(Half(1))
    BY <1>1, <1>7, NoWindowsAre DEF Half
  <2>4. ~UnderWay(s)
    BY <1>5, <1>7, <2>2, <2>3 DEF UnderWay, In
  <2>5. hist[1][s] = hist[2][s]
    BY <2>4 DEF IInv, Level
  <2> QED
    BY <1>1, <2>1, <2>5, ConstantsAre
<1> QED
  BY <1>6, <1>7

LEMMA LevelStep == ASSUME IInv, Next PROVE Level'
<1>1a. Level
  BY DEF IInv
<1>t. SlotTypes
  BY TypeParts DEF IInv
<1>1. CASE Batch
  <2>1. ~Forwarding /\ pc' = "prepare" /\ UNCHANGED <<hist, rd>> /\ mid = None
    BY <1>1 DEF Batch, Begin, books, Forwarding
  <2> QED
    BY <2>1, LevelBegin
<1>2. CASE PipeStep
  <2>1. PICK ws \in Batches, half \in Batches, x \in Lanes :
           /\ IF mid = None THEN half = NoWindows ELSE half = mid.wins /\ mid.lane = 1 - x
           /\ Begin(PerStage(ws, half), PerStage(x, 1 - x), TRUE)
    BY <1>2, PipeStepIs
  <2>2. ~Forwarding /\ pc' = "prepare" /\ UNCHANGED <<hist, rd>> /\ call'.wins[2] = half
    BY <1>2, <2>1, ConstantsAre DEF PipeStep, Begin, books, Forwarding, PerStage
  <2>3. \A s \in Slots : mid # None /\ s \in On(mid.wins) => In(2, s)'
    BY <2>1, <2>2 DEF In
  <2> QED
    BY <2>2, <2>3, LevelBegin
<1>3. CASE PipeDrain
  <2>1. ~Forwarding /\ pc' = "prepare" /\ UNCHANGED <<hist, rd>> /\ call'.wins[2] = mid.wins
    BY <1>3, ConstantsAre DEF PipeDrain, Begin, books, Forwarding, PerStage
  <2>2. \A s \in Slots : mid # None /\ s \in On(mid.wins) => In(2, s)'
    BY <2>1 DEF In
  <2> QED
    BY <2>1, <2>2, LevelBegin
<1>4. CASE Read
  <2>1. UNCHANGED <<hist, call, mid>> /\ ~Forwarding /\ ~Forwarding' /\ rd = None
    BY <1>4 DEF Read, books, Forwarding
  <2> QED
    BY <1>1a, <2>1, LevelFrame
<1>5. CASE Prepare
  <2>1. /\ Forwarding /\ Forwarding' /\ UNCHANGED <<call, mid, rd>>
        /\ hist' = [g \in Stages |-> [s \in Slots |-> hist[g][s] + IF In(g, s) THEN Win(g, s).T ELSE 0]]
    BY <1>5 DEF Prepare, Forwarding
  <2> SUFFICES ASSUME NEW s \in Slots, ~UnderWay(s)' PROVE hist'[1][s] = hist'[2][s]
    BY DEF Level
  <2>2. ~UnderWay(s) /\ ~In(1, s) /\ ~In(2, s)
    BY <2>1 DEF UnderWay, In, Half
  <2>3. hist[1][s] = hist[2][s]
    BY <1>1a, <2>2 DEF Level
  <2>4. hist'[1][s] = hist[1][s] + 0 /\ hist'[2][s] = hist[2][s] + 0
    BY <2>1, <2>2, ConstantsAre
  <2> QED
    BY <2>3, <2>4
<1>6. CASE Launch
  BY <1>1a, <1>6, LevelFrame DEF Launch, books, Forwarding
<1>7. CASE ServiceEnd
  BY <1>1a, <1>7, LevelFrame DEF ServiceEnd, books, Forwarding
<1>8. CASE End
  BY <1>1a, <1>8, LevelFrame DEF End, Forwarding
<1>9. CASE Finish
  BY <1>9, LevelFinish
<1>10. CASE ReadChunk
  <2>1. /\ UNCHANGED <<call, mid, rd>> /\ rd # None /\ ~Forwarding /\ ~Forwarding'
        /\ hist' = [hist EXCEPT ![1] = [hist[1] EXCEPT ![Reading] = rd.i + ChunkLen]]
    BY <1>10, ReadChunkRight DEF ReadChunk, Forwarding
  <2>2. \A s \in Slots : s # Reading => hist'[1][s] = hist[1][s] /\ hist'[2][s] = hist[2][s]
    BY <1>t, <2>1, ConstantsAre DEF SlotTypes
  <2>3. \A s \in Slots : UnderWay(s)' <=> UnderWay(s)
    BY <2>1 DEF UnderWay, Half
  <2> QED
    BY <1>1a, <2>1, <2>2, <2>3 DEF Level, UnderWay
<1>11. CASE Work
  <2>0. job # None
    BY <1>11 DEF Work
  <2>1. /\ UNCHANGED <<call, mid, rd>> /\ rd # None /\ ~Forwarding /\ ~Forwarding'
        /\ hist' = [hist EXCEPT ![2] = [hist[2] EXCEPT ![Reading] = rd.i]]
    BY <1>11, <2>0, WorkRight, JobIs DEF Work, Forwarding
  <2>2. \A s \in Slots : s # Reading => hist'[1][s] = hist[1][s] /\ hist'[2][s] = hist[2][s]
    BY <1>t, <2>1, ConstantsAre DEF SlotTypes
  <2>3. \A s \in Slots : UnderWay(s)' <=> UnderWay(s)
    BY <2>1 DEF UnderWay, Half
  <2> QED
    BY <1>1a, <2>1, <2>2, <2>3 DEF Level, UnderWay
<1>12. CASE Settle
  <2>1. /\ ~Forwarding /\ ~Forwarding' /\ mid' = mid /\ pc = "settle"
        /\ hist' = [g \in Stages |-> [hist[g] EXCEPT ![Reading] = 0]]
    BY <1>12 DEF Settle, Forwarding
  <2>2. hist'[1][Reading] = 0 /\ hist'[2][Reading] = 0
    BY <1>t, <2>1, ConstantsAre DEF SlotTypes
  <2>3. \A s \in Slots : s # Reading => hist'[1][s] = hist[1][s] /\ hist'[2][s] = hist[2][s]
    BY <1>t, <2>1, ConstantsAre DEF SlotTypes
  <2>4. \A s \in Slots : s # Reading /\ ~UnderWay(s)' => ~UnderWay(s)
    BY <2>1 DEF UnderWay, Half
  <2> QED
    BY <1>1a, <2>2, <2>3, <2>4 DEF Level
<1>13. CASE FirstToken
  <2>1. UNCHANGED <<hist, mid>> /\ ~Forwarding /\ ~Forwarding' /\ pc = "first token"
    BY <1>13 DEF FirstToken, books, Forwarding
  <2>2. rd # None /\ job = None /\ ~err /\ ~TailWindow /\ ~Handing
    BY <2>1 DEF IInv, ReadOK, ReadPc, JobOK, Forwarding, TailWindow, Handing
  <2>3. hist[1][Reading] = rd.i + 0 /\ hist[2][Reading] = rd.i
    BY <2>1, <2>2 DEF IInv, ReadOK, ReadBooks
  <2>4. hist[1][Reading] = hist[2][Reading]
    BY <2>2, <2>3, ReadsAre
  <2>5. \A s \in Slots : s # Reading /\ ~UnderWay(s)' => ~UnderWay(s)
    BY <2>1 DEF UnderWay, Half
  <2> QED
    BY <1>1a, <2>1, <2>4, <2>5 DEF Level
<1>14. CASE ReadTail
  <2>1. ~Forwarding /\ pc' = "prepare" /\ UNCHANGED <<hist, rd>> /\ mid = None
    BY <1>14, TailRight DEF ReadTail, books
  <2> QED
    BY <2>1, LevelBegin
<1>15. ASSUME ReadChunkFails \/ Wait \/ BetweenEnd \/ Post \/ Drain \/ ReadDone \/ WorkFails PROVE Level'
  <2>0. rd # None /\ ~Forwarding
    <3>1. WorkFails => job # None
      BY DEF WorkFails
    <3> QED
      BY <1>15, <3>1, JobIs DEF ReadChunkFails, Wait, BetweenEnd, Post, Drain, ReadDone, Forwarding, IInv, ReadOK, ReadPc
  <2>1. UNCHANGED <<hist, call, mid>>
    BY <1>15 DEF ReadChunkFails, Wait, BetweenEnd, Post, Drain, ReadDone, WorkFails, books
  <2>2. ~Forwarding'
    BY <1>15, <2>0, ReadsAre DEF ReadChunkFails, Wait, Waited, Callback, BetweenEnd, Post, Drain, ReadDone, WorkFails, Forwarding
  <2>3. rd' # None
    <3>1. ReadChunkFails \/ BetweenEnd \/ WorkFails => rd' = rd
      BY DEF ReadChunkFails, BetweenEnd, WorkFails
    <3> QED
      BY <1>15, <2>0, <3>1, WaitIs, DrainIs, DoneIs, PostIs, ConstantsAre
  <2> QED
    BY <1>1a, <2>0, <2>1, <2>2, <2>3 DEF Level, UnderWay, Half
<1>16. ASSUME NEW g \in Stages, Service(g) \/ Gpu(g) \/ Commit(g) PROVE Level'
  <2>1. UNCHANGED <<hist, call, mid, pc, rd>>
    BY <1>16 DEF Service, Gpu, GpuBegin, GpuPlan, GpuWait, GpuOut, Commit, host, books
  <2> QED
    BY <1>1a, <2>1, LevelFrame DEF Forwarding
<1> QED
  BY <1>1, <1>2, <1>3, <1>4, <1>5, <1>6, <1>7, <1>8, <1>9, <1>10, <1>11, <1>12, <1>13, <1>14, <1>15, <1>16 DEF Next, Forward, Prefill

-----------------------------------------------------------------------------
(* The prompt that is read *)

LEMMA ReadNone ==
  ASSUME rd' = None, pc' = "idle" \/ Forwarding', job' = None, err' = FALSE
  PROVE  ReadOK'
<1>1. ~TailWindow' /\ ~Handing' /\ pc' \notin {"read", "wait", "post", "tail", "first token"}
  BY DEF TailWindow, Handing, Forwarding
<1> QED
  BY <1>1 DEF ReadOK, ReadPc, JobOK, ReadBooks, HandOK, TailOK, FirstOK

LEMMA NoRead == ASSUME IInv, rd = None PROVE job = None /\ err = FALSE /\ (pc = "idle" \/ Forwarding)
<1>1. err \in BOOLEAN
  BY TypeParts DEF IInv, ReadTypes
<1> QED
  BY <1>1 DEF IInv, ReadOK, JobOK, ReadPc

\* Steps of a forward leave the read alone, but for the books of its slot in its tail.
LEMMA ReadForward ==
  ASSUME IInv, Forwarding, Forwarding', UNCHANGED <<call, mid, cur, rd, job, err, pfXfer>>,
         rd # None /\ ~TailWindow => \A g \in Stages : hist'[g][Reading] = hist[g][Reading]
  PROVE  ReadOK'
<1>1. TailWindow' = TailWindow /\ Handing' = Handing /\ Left' = Left /\ ChunkLen' = ChunkLen
  BY DEF TailWindow, Handing, In, Forwarding, Left, ChunkLen
<1>2. /\ pc \notin {"idle", "between", "read", "wait", "post", "tail", "settle", "first token"}
      /\ pc' \notin {"idle", "between", "read", "wait", "post", "tail", "settle", "first token"}
  BY DEF Forwarding
<1>3. ReadPc /\ JobOK /\ ReadBooks /\ HandOK /\ TailOK
  BY DEF IInv, ReadOK
<1>4. ReadPc'
  BY <1>1, <1>2, <1>3 DEF ReadPc
<1>5. job = None /\ ~err
  BY <1>2, <1>3 DEF JobOK
<1>6. JobOK'
  BY <1>5 DEF JobOK
<1>7. ReadBooks'
  BY <1>1, <1>2, <1>3, ConstantsAre DEF ReadBooks
<1>8. HandOK'
  BY <1>1, <1>3 DEF HandOK
<1>9. TailOK'
  BY <1>1, <1>2, <1>3 DEF TailOK, In, Win
<1>10. FirstOK'
  BY <1>2 DEF FirstOK
<1> QED
  BY <1>4, <1>6, <1>7, <1>8, <1>9, <1>10 DEF ReadOK

\* Steps of the devices outside a forward leave it alone.
LEMMA ReadStay ==
  ASSUME IInv, UNCHANGED <<pc, call, mid, cur, rd, job, err, pfXfer, hist, lastT, logits>>
  PROVE  ReadOK'
<1>1. TailWindow' = TailWindow /\ Handing' = Handing /\ Left' = Left /\ ChunkLen' = ChunkLen /\ LastRow' = LastRow /\ (Forwarding' <=> Forwarding)
  BY DEF TailWindow, Handing, In, Forwarding, Left, ChunkLen, LastRow
<1> QED
  BY <1>1 DEF IInv, ReadOK, ReadPc, JobOK, ReadBooks, HandOK, TailOK, FirstOK, In, Win

\* The tail's forward: its last row is the last of the logits.
LEMMA TailRow ==
  ASSUME IInv, pc = "finish", TailWindow
  PROVE  LET w == Win(2, Reading) IN
           /\ w.T \in Nat /\ w.T > 0 /\ w.T <= Left /\ w.pos0 = rd.i /\ w.commit /\ Reading \notin Verified
           /\ \A g \in Stages : hist[g][Reading] = rd.i + w.T
           /\ lastT[2] \in DOMAIN logits /\ logits[lastT[2]] = <<Reading, rd.i + w.T, TRUE>>
<1> DEFINE w  == Win(2, Reading)
           ws == call.wins[2]
<1>1. Forwarding /\ In(2, Reading) /\ Reading \in On(ws) /\ rd # None
  BY DEF TailWindow, Forwarding, In
<1>2. w.r0 = 0 /\ w.T <= Left /\ w.pos0 = rd.i /\ w.commit /\ w.right = w.T /\ \A s \in Slots : s # Reading => ~In(2, s)
  BY DEF IInv, ReadOK, TailOK
<1>3. w \in Wins /\ ws \in Batches /\ WellFormed(ws) /\ w = ws[Reading]
  BY <1>1, CallIs, ConstantsAre DEF Win
<1>4. w.T \in Nat /\ w.T > 0 /\ w.pos0 \in Nat
  BY <1>1, <1>3, WinIs DEF On
<1>5. ASSUME NEW s \in Slots, s # Reading PROVE WinRows(ws[s]) = {}
  <2>1. ~(ws[s].T > 0)
    BY <1>2, <1>5 DEF In, On
  <2>2. ws[s] \in Wins
    BY <1>3 DEF Batches
  <2>3. ws[s].T = 0 /\ ws[s].r0 \in Nat
    BY <2>1, <2>2, WinIs
  <2> QED
    BY <2>3 DEF WinRows
<1> HIDE DEF w, ws
<1>6. WinRows(ws[Reading]) = 1..w.T
  BY <1>2, <1>3, <1>4 DEF WinRows
<1>7. Span(ws) = 1..w.T
  <2>1. Reading \in Slots
    BY ConstantsAre
  <2>2. \A s \in Slots : WinRows(ws[s]) \subseteq 1..w.T
    BY <1>5, <1>6
  <2> QED
    BY <1>6, <2>1, <2>2 DEF Span
<1>8. NRows(ws) = w.T
  <2>1. PICK n \in 0..MaxWindow : Span(ws) = 1..n
    BY <1>3 DEF WellFormed, Packed
  <2>2. n = w.T
    <3>1. n \in Nat /\ 1..n = 1..w.T
      BY <1>7, <2>1, ConstantsAre
    <3>2. w.T \in 1..n
      BY <1>4, <3>1
    <3>3. n \in 1..w.T
      BY <3>1, <3>2
    <3> QED
      BY <1>4, <3>1, <3>2, <3>3
  <2> QED
    BY <2>1, <2>2, NRowsIs
<1>9. w.T \in WinRows(ws[Reading])
  BY <1>4, <1>6
<1>10. w.T \in DOMAIN AllRows(ws) /\ AllRows(ws)[w.T] = RowAt(Reading, ws[Reading], w.T)
  <2>1. Laid(ws)
    BY <1>3, PackedLaid DEF WellFormed
  <2> QED
    BY <1>9, <2>1, AllRowsAt, ConstantsAre
<1>11. RowAt(Reading, w, w.T) = <<Reading, rd.i + w.T, TRUE>>
  <2>1. w.pos0 + w.T - w.r0 = rd.i + w.T /\ (w.T - w.r0 <= w.right) = TRUE
    BY <1>2, <1>4
  <2> QED
    BY <2>1 DEF RowAt
<1>12. lastT[2] = NRows(ws) /\ logits = AllRows(ws)
  <2>1. gpu[2] = None
    BY ConstantsAre DEF IInv, DevicesOK, GraphOK
  <2>2. Busy(2)
    BY <1>1 DEF Busy, ws
  <2> QED
    BY <1>1, <2>1, <2>2, ConstantsAre DEF IInv, DevicesOK, BatchOK, ws
<1>13. \A g \in Stages : hist[g][Reading] = rd.i + w.T
  BY <1>1, <1>2, EndedBoth DEF Ended, InBooks, w, ws
<1>14. Reading \notin Verified
  BY <1>2 DEF Verified, w
<1> QED
  BY <1>2, <1>3, <1>4, <1>8, <1>10, <1>11, <1>12, <1>13, <1>14 DEF w

LEMMA ReadFinish == ASSUME IInv, Finish PROVE ReadOK'
<1>1. /\ pc = "finish" /\ Forwarding /\ UNCHANGED <<mid, job, err, pfXfer, lastT, logits>>
      /\ hist' = [g \in Stages |-> [s \in Slots |-> IF s \in Verified THEN hist[g][s] - (Win(2, s).T - Win(2, s).right) ELSE hist[g][s]]]
  BY DEF Finish, dev, Forwarding
<1>2. job = None /\ ~err
  BY <1>1 DEF IInv, ReadOK, JobOK
<1>b. err \in BOOLEAN
  BY TypeParts DEF IInv, ReadTypes
<1>3. CASE rd = None
  <2>1. rd' = None /\ pc' = "idle"
    BY <1>3 DEF Finish
  <2> QED
    BY <1>1, <1>2, <1>b, <2>1, ReadNone
<1>4. CASE rd # None /\ ~TailWindow
  <2>1. ~In(2, Reading)
    BY <1>1, <1>4 DEF TailWindow
  <2>2. rd' = rd /\ pc' = "between" /\ ~Forwarding'
    BY <1>4, <2>1 DEF Finish, Forwarding
  <2>3. Reading \notin Verified
    BY <2>1 DEF Verified, In
  <2>4. hist'[1][Reading] = hist[1][Reading] /\ hist'[2][Reading] = hist[2][Reading]
    BY <1>1, <2>3, ConstantsAre
  <2>5. ~TailWindow' /\ Handing' = Handing /\ Left' = Left /\ ChunkLen' = ChunkLen
    BY <1>1, <1>4, <2>2 DEF TailWindow, Handing, Left, ChunkLen
  <2>6. ReadPc /\ JobOK /\ ReadBooks /\ HandOK /\ TailOK
    BY DEF IInv, ReadOK
  <2>7. ReadPc'
    BY <1>1, <1>4, <2>2, <2>5, <2>6 DEF ReadPc
  <2>8. JobOK'
    BY <1>1, <1>2 DEF JobOK
  <2>9. ReadBooks'
    BY <1>1, <1>2, <1>4, <2>2, <2>4, <2>5, <2>6 DEF ReadBooks
  <2>10. HandOK'
    BY <1>1, <2>2, <2>5, <2>6 DEF HandOK
  <2>11. TailOK'
    BY <1>1, <1>4, <2>2, <2>5, <2>6 DEF TailOK
  <2>12. FirstOK'
    BY <2>2 DEF FirstOK
  <2> QED
    BY <2>7, <2>8, <2>9, <2>10, <2>11, <2>12 DEF ReadOK
<1>5. CASE TailWindow
  <2> DEFINE i == rd.i + Win(2, Reading).T
  <2>1. rd # None /\ In(2, Reading) /\ ~rd.posted /\ cur = Reading /\ mid = None
    BY <1>5 DEF TailWindow, IInv, ReadOK, ReadPc, TailOK
  <2>2. rd' = [rd EXCEPT !.i = i, !.next = "read"] /\ pc' = (IF i < rd.total THEN "between" ELSE "read") /\ cur' = cur
    BY <2>1 DEF Finish
  <2>3. /\ Win(2, Reading).T \in Nat /\ Win(2, Reading).T > 0 /\ Win(2, Reading).T <= Left /\ Reading \notin Verified
        /\ \A g \in Stages : hist[g][Reading] = i
        /\ lastT[2] \in DOMAIN logits /\ logits[lastT[2]] = <<Reading, i, TRUE>>
    BY <1>1, <1>5, TailRow
  <2>4. rd \in Reads /\ rd.i \in Nat /\ rd.total \in Nat /\ Left = rd.total - rd.i
    BY <2>1, ReadsAre DEF Left
  <2>5. i \in Nat /\ i <= rd.total
    BY <2>3, <2>4
  <2>6. hist'[1][Reading] = i /\ hist'[2][Reading] = i
    BY <1>1, <2>3, ConstantsAre
  <2> HIDE DEF i
  <2>7. rd' \in Reads /\ rd'.total = rd.total /\ rd'.i = i /\ rd'.buf = rd.buf /\ rd'.posted = rd.posted /\ rd'.next = "read"
    <3>1. PICK r, q : r \in Reads /\ r = rd /\ q = rd'
      BY <2>4
    <3>2. q = [r EXCEPT !.i = i, !.next = "read"]
      BY <2>2, <3>1
    <3>3. q \in Reads /\ q.total = r.total /\ q.i = i /\ q.buf = r.buf /\ q.posted = r.posted /\ q.next = "read"
      BY <2>5, <3>1, <3>2 DEF Reads
    <3> QED
      BY <3>1, <3>3
  <2>8. rd' # None
    BY <2>7, ConstantsAre
  <2>9. ~Forwarding' /\ ~TailWindow' /\ ~Handing' /\ pc' \in {"between", "read"}
    BY <2>2, <2>7 DEF Forwarding, TailWindow, Handing
  <2>10. Left' = rd.total - i
    BY <2>7 DEF Left
  <2>11. ReadPc'
    BY <1>1, <2>1, <2>2, <2>4, <2>5, <2>7, <2>8, <2>9, <2>10 DEF ReadPc
  <2>12. JobOK'
    BY <1>1, <1>2 DEF JobOK
  <2>13. ReadBooks'
    BY <2>5, <2>6, <2>7, <2>9 DEF ReadBooks
  <2>14. HandOK'
    BY <2>9 DEF HandOK
  <2>15. TailOK'
    BY <2>1, <2>7, <2>9 DEF TailOK
  <2>16. FirstOK'
    <3>1. Left' = 0 => i = rd.total
      BY <2>4, <2>5, <2>10
    <3> QED
      BY <1>1, <2>3, <2>7, <2>9, <3>1 DEF FirstOK, LastRow
  <2> QED
    BY <2>11, <2>12, <2>13, <2>14, <2>15, <2>16 DEF ReadOK
<1> QED
  BY <1>3, <1>4, <1>5 DEF TailWindow

LEMMA ReadStep == ASSUME IInv, Next PROVE ReadOK'
<1>r. ReadPc /\ JobOK /\ ReadBooks /\ HandOK /\ TailOK /\ FirstOK
  BY DEF IInv, ReadOK
<1>t. SlotTypes /\ RowTypes /\ StageTypes /\ ReadTypes
  BY TypeParts DEF IInv
<1>1. CASE Batch
  <2>1. PICK ws \in Batches : On(ws) = Active /\ Begin([g \in Stages |-> ws], [g \in Stages |-> 0], FALSE)
    BY <1>1, BatchIs
  <2>2. /\ pc \in {"idle", "between"} /\ pc' = "prepare" /\ UNCHANGED <<mid, cur, rd, job, err, hist, pfXfer>>
        /\ call' = [wins |-> [g \in Stages |-> ws], lane |-> [g \in Stages |-> 0], piped |-> FALSE]
    BY <1>1, <2>1 DEF Batch, Begin, books, dev
  <2>3. Forwarding' /\ ~Forwarding
    BY <2>2 DEF Forwarding
  <2>4. CASE rd = None
    BY <2>2, <2>3, <2>4, NoRead, ReadNone
  <2>5. CASE rd # None
    <3>1. pc = "between" /\ mid = None /\ rd.i <= rd.total /\ Left > 0
      BY <1>r, <2>2, <2>5 DEF ReadPc
    <3>2. job = None /\ ~err
      BY <1>r, <3>1 DEF JobOK
    <3>3. Reading \notin Active
      BY <2>5, TwoStagesAssumption DEF Active
    <3>4. ~In(2, Reading)'
      BY <2>1, <2>2, <3>3, ConstantsAre DEF In
    <3>5. ~TailWindow' /\ ~TailWindow /\ Handing' = Handing /\ Left' = Left /\ ChunkLen' = ChunkLen
      BY <2>2, <2>3, <3>1, <3>4 DEF TailWindow, Handing, Left, ChunkLen
    <3>6. ReadPc'
      BY <2>2, <2>3, <2>5, <3>1, <3>5 DEF ReadPc
    <3>7. JobOK'
      BY <2>2, <3>2 DEF JobOK
    <3>8. ReadBooks'
      BY <1>r, <2>2, <2>5, <3>1, <3>2, <3>5 DEF ReadBooks
    <3>9. HandOK'
      BY <1>r, <2>2, <3>5 DEF HandOK
    <3>10. TailOK'
      BY <1>r, <2>2, <2>3, <2>5, <3>1, <3>5 DEF TailOK
    <3>11. FirstOK'
      BY <2>2 DEF FirstOK
    <3> QED
      BY <3>6, <3>7, <3>8, <3>9, <3>10, <3>11 DEF ReadOK
  <2> QED
    BY <2>4, <2>5
<1>2. CASE PipeStep \/ PipeDrain
  <2>1. pc = "idle" /\ pc' = "prepare" /\ UNCHANGED <<rd, job, err>>
    BY <1>2 DEF PipeStep, PipeDrain, Begin
  <2>2. rd = None
    BY <1>r, <2>1 DEF ReadPc
  <2> QED
    BY <2>1, <2>2, NoRead, ReadNone DEF Forwarding
<1>3. CASE Read
  <2>1. /\ pc = "idle" /\ pc' = "read" /\ rd = None /\ mid = None /\ mid' = None /\ hist[1][Reading] = 0 /\ cur' = Reading
        /\ UNCHANGED <<call, job, err, hist, pfXfer>>
    BY <1>3 DEF Read, books, dev
  <2>2. PICK total \in Prompts : rd' = [total |-> total, i |-> 0, buf |-> 0, posted |-> FALSE, next |-> "read"]
    BY <1>3 DEF Read
  <2>3. rd' \in Reads /\ rd'.total = total /\ rd'.i = 0 /\ rd'.posted = FALSE /\ rd'.next = "read" /\ total \in Nat /\ total > 0
    BY <2>2, ConstantsAre DEF Reads
  <2>4. rd' # None
    BY <2>3, ConstantsAre
  <2>5. job = None /\ err = FALSE
    BY <2>1, NoRead
  <2>6. ~Forwarding /\ ~Forwarding' /\ ~TailWindow' /\ ~Handing'
    BY <2>1 DEF Forwarding, TailWindow, Handing
  <2>7. hist[2][Reading] = 0
    <3>1. ~UnderWay(Reading)
      BY <2>1, <2>6, NoWindowsAre DEF UnderWay, Half
    <3> QED
      BY <2>1, <3>1, ConstantsAre DEF IInv, Level
  <2>8. Left' = total
    BY <2>3 DEF Left
  <2>9. ReadPc'
    BY <2>1, <2>3, <2>4, <2>6 DEF ReadPc
  <2>10. JobOK'
    BY <2>1, <2>5 DEF JobOK
  <2>11. ReadBooks'
    BY <2>1, <2>3, <2>6, <2>7 DEF ReadBooks
  <2>12. HandOK' /\ TailOK'
    BY <2>1, <2>6 DEF HandOK, TailOK
  <2>13. FirstOK'
    BY <2>1, <2>3, <2>8 DEF FirstOK
  <2> QED
    BY <2>9, <2>10, <2>11, <2>12, <2>13 DEF ReadOK
<1>4. CASE Prepare
  <2>1. /\ Forwarding /\ Forwarding' /\ UNCHANGED <<call, mid, cur, rd, job, err, pfXfer>>
        /\ hist' = [g \in Stages |-> [s \in Slots |-> hist[g][s] + IF In(g, s) THEN Win(g, s).T ELSE 0]]
    BY <1>4 DEF Prepare, dev, Forwarding
  <2>2. ASSUME rd # None, ~TailWindow, NEW g \in Stages PROVE hist'[g][Reading] = hist[g][Reading]
    <3>1. ~In(g, Reading)
      BY <2>1, <2>2, ReadingFree
    <3>2. hist[g][Reading] \in Nat
      BY <1>t, ConstantsAre DEF SlotTypes
    <3> QED
      BY <2>1, <3>1, <3>2, ConstantsAre
  <2> QED
    BY <2>1, <2>2, ReadForward
<1>5. CASE Launch \/ ServiceEnd \/ End
  <2>1. Forwarding /\ Forwarding' /\ UNCHANGED <<call, mid, cur, rd, job, err, pfXfer, hist>>
    BY <1>5 DEF Launch, ServiceEnd, End, books, dev, Forwarding
  <2> QED
    BY <2>1, ReadForward
<1>6. CASE Finish
  BY <1>6, ReadFinish
<1>7. CASE ReadChunk
  <2>1. /\ rd # None /\ pc = "read" /\ cur = Reading /\ ~TailWindow /\ hist[1][Reading] = rd.i /\ ChunkLen > 0
        /\ Left >= PrefillMin /\ ~Forwarding
        /\ hist'   = [hist EXCEPT ![1] = [hist[1] EXCEPT ![Reading] = rd.i + ChunkLen]]
        /\ pfXfer' = [pfXfer EXCEPT ![rd.buf] = AllRows(ChunkOf(Reading, ChunkLen, rd.i))]
    BY <1>7, ReadChunkRight
  <2>2. pc' = "wait" /\ UNCHANGED <<call, mid, cur, rd, job, err>>
    BY <1>7 DEF ReadChunk
  <2>3. ~Forwarding' /\ ~TailWindow' /\ Handing' /\ Left' = Left /\ ChunkLen' = ChunkLen
    BY <2>1, <2>2 DEF Forwarding, TailWindow, Handing, Left, ChunkLen
  <2>4. hist'[1][Reading] = rd.i + ChunkLen /\ hist'[2][Reading] = hist[2][Reading]
    BY <1>t, <2>1, ConstantsAre DEF SlotTypes
  <2>5. pfXfer'[rd.buf] = AllRows(ChunkOf(Reading, ChunkLen, rd.i)) /\ \A b \in Lanes : b # rd.buf => pfXfer'[b] = pfXfer[b]
    BY <1>t, <2>1, ReadsAre DEF RowTypes
  <2>6. ReadPc'
    BY <1>r, <2>1, <2>2, <2>3 DEF ReadPc
  <2>7. JobOK'
    <3>1. job # None => pfXfer'[job.buf] = pfXfer[job.buf]
      BY <2>5, JobIs
    <3> QED
      BY <1>r, <2>2, <2>4, <3>1 DEF JobOK
  <2>8. ~Handing
    BY <2>1, <2>2 DEF Handing
  <2>9. ReadBooks'
    BY <1>r, <2>1, <2>2, <2>3, <2>4 DEF ReadBooks
  <2>10. HandOK'
    BY <2>1, <2>2, <2>3, <2>5 DEF HandOK
  <2>11. TailOK' /\ FirstOK'
    BY <2>2, <2>3 DEF TailOK, FirstOK
  <2> QED
    BY <2>6, <2>7, <2>9, <2>10, <2>11 DEF ReadOK
<1>8. CASE ReadChunkFails
  <2>1. pc = "read" /\ pc' = "settle" /\ UNCHANGED <<call, mid, cur, rd, job, err, hist, pfXfer>>
    BY <1>8 DEF ReadChunkFails, books, dev
  <2>2. ~Forwarding /\ ~Forwarding' /\ ~TailWindow /\ ~TailWindow' /\ ~Handing'
    BY <2>1 DEF Forwarding, TailWindow, Handing
  <2>3. ReadPc' /\ JobOK'
    BY <1>r, <2>1, <2>2 DEF ReadPc, JobOK
  <2>4. ReadBooks' /\ HandOK' /\ TailOK' /\ FirstOK'
    BY <2>1, <2>2 DEF ReadBooks, HandOK, TailOK, FirstOK
  <2> QED
    BY <2>3, <2>4 DEF ReadOK
<1>9. CASE Wait
  <2>1. UNCHANGED <<call, mid, cur, job, hist, pfXfer>>
    BY <1>9 DEF Wait, books, dev
  <2>2. pc = "wait" /\ rd # None /\ job = None /\ err' = FALSE /\ rd' \in Reads
    BY <1>9, WaitIs
  <2>3. Handing /\ ~TailWindow /\ ~Forwarding /\ cur = Reading /\ mid = None
    BY <1>r, <2>2 DEF Handing, TailWindow, Forwarding, ReadPc
  <2>4. Left \in Nat /\ Left >= PrefillMin /\ Left > 0
    BY <1>r, <2>2, <2>3, ReadsAre, ConstantsAre DEF HandOK
  <2>5. JobOK'
    BY <2>1, <2>2 DEF JobOK
  <2>6. CASE err /\ pc' = "settle" /\ rd' = rd
    <3>1. ~Forwarding' /\ ~TailWindow' /\ ~Handing'
      BY <2>6 DEF Forwarding, TailWindow, Handing
    <3>2. ReadPc' /\ ReadBooks' /\ HandOK' /\ TailOK' /\ FirstOK'
      BY <1>r, <2>1, <2>2, <2>6, <3>1 DEF ReadPc, ReadBooks, HandOK, TailOK, FirstOK
    <3> QED
      BY <2>5, <3>2 DEF ReadOK
  <2>7. CASE /\ ~err /\ rd.posted /\ pc' = "between" /\ rd'.total = rd.total /\ rd'.i = rd.i /\ rd'.buf = rd.buf
             /\ rd'.posted = rd.posted /\ rd'.next = "post"
    <3>1. rd' # None
      BY <2>2, ConstantsAre
    <3>2. ~Forwarding' /\ ~TailWindow' /\ Handing' /\ Left' = Left /\ ChunkLen' = ChunkLen
      BY <2>7, <3>1 DEF Forwarding, TailWindow, Handing, Left, ChunkLen
    <3>3. ReadPc'
      BY <1>r, <2>1, <2>2, <2>3, <2>4, <2>7, <3>1, <3>2 DEF ReadPc
    <3>4. ReadBooks'
      BY <1>r, <2>1, <2>2, <2>3, <2>7, <3>2 DEF ReadBooks
    <3>5. HandOK'
      BY <1>r, <2>1, <2>3, <2>7, <3>2 DEF HandOK
    <3>6. TailOK' /\ FirstOK'
      BY <2>7, <3>2 DEF TailOK, FirstOK
    <3> QED
      BY <2>5, <3>3, <3>4, <3>5, <3>6 DEF ReadOK
  <2>8. CASE ~err /\ ~rd.posted /\ pc' = "post" /\ rd' = rd
    <3>2. ~Forwarding' /\ ~TailWindow' /\ Handing' /\ Left' = Left /\ ChunkLen' = ChunkLen
      BY <2>2, <2>8 DEF Forwarding, TailWindow, Handing, Left, ChunkLen
    <3>3. ReadPc'
      BY <1>r, <2>1, <2>2, <2>3, <2>8, <3>2 DEF ReadPc
    <3>4. ReadBooks'
      BY <1>r, <2>1, <2>2, <2>3, <2>8, <3>2 DEF ReadBooks
    <3>5. HandOK'
      BY <1>r, <2>1, <2>3, <2>8, <3>2 DEF HandOK
    <3>6. TailOK' /\ FirstOK'
      BY <2>8, <3>2 DEF TailOK, FirstOK
    <3> QED
      BY <2>5, <3>3, <3>4, <3>5, <3>6 DEF ReadOK
  <2> QED
    BY <1>9, <2>6, <2>7, <2>8, WaitIs
<1>10. CASE BetweenEnd
  <2>1. pc = "between" /\ pc' = rd.next /\ cur' = Reading /\ UNCHANGED <<call, mid, rd, job, err, hist, pfXfer>>
    BY <1>10 DEF BetweenEnd, BackTo, books, dev
  <2>2. rd # None /\ mid = None /\ Left > 0 /\ rd.i <= rd.total /\ ~Forwarding /\ ~TailWindow
    BY <1>r, <2>1 DEF ReadPc, Forwarding, TailWindow
  <2>3. job = None /\ ~err
    BY <1>r, <2>1 DEF JobOK
  <2>4. pc' \in {"read", "post", "tail"}
    BY <2>1, <2>2, ReadsAre
  <2>5. ~Forwarding' /\ ~TailWindow' /\ Handing' = Handing /\ Left' = Left /\ ChunkLen' = ChunkLen
    BY <2>1, <2>2, <2>4 DEF Forwarding, TailWindow, Handing, Left, ChunkLen
  <2>6. ReadPc'
    BY <2>1, <2>2, <2>4, <2>5 DEF ReadPc
  <2>7. JobOK'
    BY <2>1, <2>3 DEF JobOK
  <2>8. ReadBooks'
    BY <1>r, <2>1, <2>2, <2>3, <2>5 DEF ReadBooks
  <2>9. HandOK'
    BY <1>r, <2>1, <2>5 DEF HandOK
  <2>10. TailOK'
    BY <1>r, <2>1, <2>2, <2>4, <2>5 DEF TailOK
  <2>11. FirstOK'
    <3>1. (Left' = 0) = FALSE
      BY <2>2, <2>5, ReadsAre
    <3>2. pc' # "first token"
      BY <2>4
    <3> QED
      BY <3>1, <3>2 DEF FirstOK
  <2> QED
    BY <2>6, <2>7, <2>8, <2>9, <2>10, <2>11 DEF ReadOK
<1>11. CASE Post
  <2>1. UNCHANGED <<call, mid, cur, err, hist, pfXfer>>
    BY <1>11 DEF Post, books, dev
  <2>2. /\ pc = "post" /\ pc' = "read" /\ rd # None /\ job = None /\ ~err /\ cur = Reading /\ ChunkLen > 0 /\ ~Forwarding /\ Handing
        /\ hist[1][Reading] = rd.i + ChunkLen /\ hist[2][Reading] = rd.i
        /\ pfXfer[rd.buf] = AllRows(ChunkOf(Reading, ChunkLen, rd.i))
        /\ job' \in Jobs /\ job'.slot = Reading /\ job'.buf = rd.buf /\ job'.n = ChunkLen /\ job'.pos0 = rd.i
        /\ rd' \in Reads /\ rd'.total = rd.total /\ rd'.i = rd.i + ChunkLen /\ rd'.buf = 1 - rd.buf /\ rd'.posted = TRUE /\ rd'.next = rd.next
    BY <1>11, PostIs
  <2>3. rd' # None /\ job' # None
    BY <2>2, ConstantsAre
  <2>4. ~Forwarding' /\ ~TailWindow' /\ ~Handing'
    BY <2>2 DEF Forwarding, TailWindow, Handing
  <2>5. rd.buf \in {0, 1} /\ rd.i \in Nat /\ rd.total \in Nat /\ ChunkLen \in Nat /\ ChunkLen <= rd.total - rd.i
    BY <2>2, ReadsAre DEF Left
  <2>6. ReadPc'
    BY <1>r, <2>1, <2>2, <2>3, <2>4, <2>5 DEF ReadPc
  <2>7. JobOK'
    BY <2>1, <2>2, <2>3, <2>5 DEF JobOK
  <2>8. ReadBooks'
    BY <2>1, <2>2, <2>3, <2>4, <2>5 DEF ReadBooks
  <2>9. HandOK' /\ TailOK' /\ FirstOK'
    BY <2>2, <2>3, <2>4 DEF HandOK, TailOK, FirstOK
  <2> QED
    BY <2>6, <2>7, <2>8, <2>9 DEF ReadOK
<1>12. CASE Drain
  <2>1. UNCHANGED <<call, mid, cur, job, hist, pfXfer>>
    BY <1>12 DEF Drain, books, dev
  <2>2. pc = "read" /\ rd # None /\ job = None /\ Left \in 1..PrefillMin - 1 /\ err' = FALSE /\ rd' \in Reads
    BY <1>12, DrainIs
  <2>3. ~Handing /\ ~TailWindow /\ ~Forwarding /\ cur = Reading /\ mid = None /\ rd' # None
    BY <1>r, <2>2, ConstantsAre DEF Handing, TailWindow, Forwarding, ReadPc
  <2>4. Left > 0
    BY <2>2, ConstantsAre
  <2>5. JobOK'
    BY <2>1, <2>2 DEF JobOK
  <2>6. CASE err /\ pc' = "settle" /\ rd' = rd
    <3>1. ~Forwarding' /\ ~TailWindow' /\ ~Handing'
      BY <2>6 DEF Forwarding, TailWindow, Handing
    <3>2. ReadPc' /\ ReadBooks' /\ HandOK' /\ TailOK' /\ FirstOK'
      BY <1>r, <2>1, <2>2, <2>6, <3>1 DEF ReadPc, ReadBooks, HandOK, TailOK, FirstOK
    <3> QED
      BY <2>5, <3>2 DEF ReadOK
  <2>7. CASE /\ ~err /\ rd.posted /\ pc' = "between" /\ rd'.total = rd.total /\ rd'.i = rd.i /\ rd'.buf = rd.buf
             /\ rd'.posted = FALSE /\ rd'.next = "tail"
    <3>2. ~Forwarding' /\ ~TailWindow' /\ ~Handing' /\ Left' = Left /\ ChunkLen' = ChunkLen
      BY <2>7 DEF Forwarding, TailWindow, Handing, Left, ChunkLen
    <3>3. ReadPc'
      BY <1>r, <2>1, <2>2, <2>3, <2>4, <2>7, <3>2 DEF ReadPc
    <3>4. ReadBooks'
      BY <1>r, <2>1, <2>2, <2>3, <2>7, <3>2 DEF ReadBooks
    <3>5. HandOK'
      BY <3>2 DEF HandOK
    <3>6. TailOK' /\ FirstOK'
      BY <2>7, <3>2 DEF TailOK, FirstOK
    <3> QED
      BY <2>5, <3>3, <3>4, <3>5, <3>6 DEF ReadOK
  <2>8. CASE ~err /\ ~rd.posted /\ pc' = "tail" /\ rd' = rd
    <3>2. ~Forwarding' /\ ~TailWindow' /\ ~Handing' /\ Left' = Left /\ ChunkLen' = ChunkLen
      BY <2>2, <2>8 DEF Forwarding, TailWindow, Handing, Left, ChunkLen
    <3>3. ReadPc'
      BY <1>r, <2>1, <2>2, <2>3, <2>4, <2>8, <3>2 DEF ReadPc
    <3>4. ReadBooks'
      BY <1>r, <2>1, <2>2, <2>3, <2>8, <3>2 DEF ReadBooks
    <3>5. HandOK'
      BY <3>2 DEF HandOK
    <3>6. TailOK' /\ FirstOK'
      BY <2>8, <3>2 DEF TailOK, FirstOK
    <3> QED
      BY <2>5, <3>3, <3>4, <3>5, <3>6 DEF ReadOK
  <2> QED
    BY <1>12, <2>6, <2>7, <2>8, DrainIs
<1>13. CASE ReadTail
  <2>1. /\ ~Forwarding /\ rd # None /\ mid = None /\ cur = Reading /\ ~rd.posted /\ Left > 0
        /\ \A g \in Stages : hist[g][Reading] = rd.i
    BY <1>13, TailRight
  <2>2. PICK T \in 1..MaxWindow : T <= Left
          /\ call' = [wins |-> [g \in Stages |-> ChunkOf(Reading, T, rd.i)], lane |-> [g \in Stages |-> 0], piped |-> FALSE]
    BY <1>13, TailRight
  <2>3. pc' = "prepare" /\ UNCHANGED <<mid, cur, rd, job, err, hist, pfXfer>> /\ Forwarding' /\ pc = "tail"
    BY <1>13 DEF ReadTail, books, dev, Forwarding
  <2>4. T \in Nat /\ T > 0 /\ rd.i \in Nat
    BY <2>1, ReadsAre, ConstantsAre
  <2> DEFINE ws == ChunkOf(Reading, T, rd.i)
  <2>5. ws[Reading] = Window(0, T, rd.i, T, TRUE) /\ On(ws) = {Reading}
    BY <2>4, AloneIs, ConstantsAre
  <2>6. call'.wins[2] = ws
    BY <2>2, ConstantsAre
  <2> HIDE DEF ws
  <2>7. \A s \in Slots : In(2, s)' <=> s = Reading
    BY <2>5, <2>6 DEF In
  <2>8. Win(2, Reading)' = ws[Reading]
    BY <2>6 DEF Win
  <2>9. ws[Reading].r0 = 0 /\ ws[Reading].T = T /\ ws[Reading].pos0 = rd.i /\ ws[Reading].right = T /\ ws[Reading].commit = TRUE
    BY <2>5 DEF Window
  <2>10. TailWindow' /\ ~Handing' /\ Left' = Left
    BY <2>1, <2>3, <2>7, ConstantsAre DEF TailWindow, Handing, Left
  <2>11. job = None /\ ~err
    BY <1>r, <2>3 DEF JobOK
  <2>12. ReadPc'
    BY <1>r, <2>1, <2>3, <2>10 DEF ReadPc
  <2>13. JobOK' /\ ReadBooks' /\ HandOK' /\ FirstOK'
    BY <2>3, <2>10, <2>11 DEF JobOK, ReadBooks, HandOK, FirstOK
  <2>14. TailOK'
    BY <2>1, <2>2, <2>3, <2>7, <2>8, <2>9, <2>10 DEF TailOK
  <2> QED
    BY <2>12, <2>13, <2>14 DEF ReadOK
<1>14. CASE ReadDone
  <2>1. UNCHANGED <<call, mid, cur, job, hist, pfXfer, logits>>
    BY <1>14 DEF ReadDone, dev
  <2>2. pc = "read" /\ rd # None /\ job = None /\ Left = 0 /\ err' = FALSE /\ rd' = rd
    BY <1>14, DoneIs
  <2>3. ~Handing /\ ~TailWindow /\ ~Forwarding /\ mid = None
    BY <1>r, <2>2 DEF Handing, TailWindow, Forwarding, ReadPc
  <2>4. JobOK'
    BY <2>1, <2>2 DEF JobOK
  <2>5. CASE err /\ pc' = "settle"
    <3>1. ~Forwarding' /\ ~TailWindow' /\ ~Handing'
      BY <2>5 DEF Forwarding, TailWindow, Handing
    <3>2. ReadPc' /\ ReadBooks' /\ HandOK' /\ TailOK' /\ FirstOK'
      BY <1>r, <2>1, <2>2, <2>5, <3>1 DEF ReadPc, ReadBooks, HandOK, TailOK, FirstOK
    <3> QED
      BY <2>4, <3>2 DEF ReadOK
  <2>6. CASE ~err /\ pc' = "first token" /\ lastT' = [g \in Stages |-> lastT[2]]
    <3>1. ~Forwarding' /\ ~TailWindow' /\ ~Handing' /\ Left' = Left
      BY <2>2, <2>6 DEF Forwarding, TailWindow, Handing, Left
    <3>2. ReadPc' /\ HandOK' /\ TailOK'
      BY <1>r, <2>1, <2>2, <2>3, <2>6, <3>1 DEF ReadPc, HandOK, TailOK
    <3>3. ReadBooks'
      BY <1>r, <2>1, <2>2, <2>3, <2>6, <3>1 DEF ReadBooks
    <3>4. LastRow
      BY <1>r, <2>2, <2>6 DEF FirstOK
    <3>5. lastT'[2] = lastT[2] /\ lastT'[1] = lastT'[2]
      BY <2>6, ConstantsAre
    <3>6. FirstOK'
      BY <2>1, <2>2, <2>6, <3>1, <3>4, <3>5 DEF FirstOK, LastRow
    <3> QED
      BY <2>4, <3>2, <3>3, <3>6 DEF ReadOK
  <2> QED
    BY <1>14, <2>5, <2>6, DoneIs
<1>15. CASE FirstToken
  <2>1. pc = "first token" /\ pc' = "idle" /\ rd' = None /\ UNCHANGED <<job, err>>
    BY <1>15 DEF FirstToken
  <2>2. job = None /\ err = FALSE
    BY <1>r, <1>t, <2>1 DEF JobOK, ReadTypes
  <2> QED
    BY <2>1, <2>2, ReadNone
<1>16. CASE Settle
  BY <1>16, ReadNone DEF Settle, Settled
<1>17. CASE Work
  <2>1. job # None
    BY <1>17 DEF Work
  <2>2. /\ job \in Jobs /\ rd # None /\ rd.posted /\ pc \in {"read", "wait", "settle"} /\ ~Forwarding /\ ~TailWindow /\ ~err
    BY <2>1, JobIs
  <2>3. /\ hist'   = [hist EXCEPT ![2] = [hist[2] EXCEPT ![Reading] = rd.i]]
        /\ logits' = << <<Reading, rd.i, TRUE>> >>
    BY <1>17, WorkRight
  <2>4. /\ job' = None /\ UNCHANGED <<pc, call, mid, cur, rd, err, pfXfer>> /\ lastT' = [lastT EXCEPT ![2] = 1]
    BY <1>17 DEF Work, ChunkBooks
  <2>5. hist'[1][Reading] = hist[1][Reading] /\ hist'[2][Reading] = rd.i /\ lastT'[2] = 1
    BY <1>t, <2>3, <2>4, ConstantsAre DEF SlotTypes, StageTypes
  <2>6. ~Forwarding' /\ ~TailWindow' /\ Handing' = Handing /\ Left' = Left /\ ChunkLen' = ChunkLen
    BY <2>2, <2>4 DEF Forwarding, TailWindow, Handing, Left, ChunkLen
  <2>7. ReadPc'
    BY <1>r, <2>2, <2>4, <2>6 DEF ReadPc
  <2>8. JobOK'
    BY <2>2, <2>4 DEF JobOK
  <2>9. ReadBooks'
    BY <1>r, <2>2, <2>4, <2>5, <2>6 DEF ReadBooks
  <2>10. HandOK'
    BY <1>r, <2>4, <2>6 DEF HandOK
  <2>11. TailOK'
    BY <1>r, <2>2, <2>4, <2>6 DEF TailOK
  <2>12. FirstOK'
    <3>1. Left = 0 => rd.i = rd.total
      BY <2>2, ReadsAre DEF Left
    <3>2. PICK row : row = <<Reading, rd.i, TRUE>>
      OBVIOUS
    <3>3. logits' = <<row>>
      BY <2>3, <3>2
    <3>4. 1 \in DOMAIN logits' /\ logits'[1] = row
      BY <3>3
    <3> QED
      BY <2>2, <2>4, <2>5, <2>6, <3>1, <3>2, <3>4 DEF FirstOK, LastRow
  <2> QED
    BY <2>7, <2>8, <2>9, <2>10, <2>11, <2>12 DEF ReadOK
<1>18. CASE WorkFails
  <2>1. job # None
    BY <1>18 DEF WorkFails
  <2>2. rd # None /\ rd.posted /\ pc \in {"read", "wait", "settle"} /\ ~Forwarding /\ ~TailWindow
    BY <2>1, JobIs
  <2>3. job' = None /\ err' = TRUE /\ UNCHANGED <<pc, call, mid, cur, rd, hist, pfXfer>>
    BY <1>18 DEF WorkFails, books, dev
  <2>4. ~Forwarding' /\ ~TailWindow' /\ Handing' = Handing /\ Left' = Left /\ ChunkLen' = ChunkLen
    BY <2>2, <2>3 DEF Forwarding, TailWindow, Handing, Left, ChunkLen
  <2>5. ReadPc'
    BY <1>r, <2>2, <2>3, <2>4 DEF ReadPc
  <2>6. JobOK'
    BY <2>2, <2>3 DEF JobOK
  <2>7. ReadBooks'
    BY <1>r, <2>2, <2>3, <2>4 DEF ReadBooks
  <2>8. HandOK' /\ TailOK'
    BY <1>r, <2>2, <2>3, <2>4 DEF HandOK, TailOK
  <2>9. FirstOK'
    BY <2>2, <2>3 DEF FirstOK
  <2> QED
    BY <2>5, <2>6, <2>7, <2>8, <2>9 DEF ReadOK
<1>19. ASSUME NEW g \in Stages, Service(g) \/ GpuBegin(g) \/ GpuPlan(g) \/ GpuWait(g) \/ Commit(g) PROVE ReadOK'
  <2>1. UNCHANGED <<pc, call, mid, cur, rd, job, err, pfXfer, hist, lastT, logits>>
    BY <1>19 DEF Service, GpuBegin, GpuPlan, GpuWait, Commit, host, books, dev
  <2> QED
    BY <2>1, ReadStay
<1>20. ASSUME NEW g \in Stages, GpuOut(g) PROVE ReadOK'
  <2>1. UNCHANGED <<pc, call, mid, cur, rd, job, err, pfXfer, hist>> /\ gpu[g] # None
    BY <1>20 DEF GpuOut, host, books
  <2>2. Forwarding /\ Forwarding'
    BY <2>1, GpuIs DEF Forwarding
  <2> QED
    BY <2>1, <2>2, ReadForward
<1> QED
  BY <1>1, <1>2, <1>3, <1>4, <1>5, <1>6, <1>7, <1>8, <1>9, <1>10, <1>11, <1>12, <1>13, <1>14, <1>15, <1>16, <1>17, <1>18, <1>19,
     <1>20 DEF Next, Forward, Prefill, Gpu

-----------------------------------------------------------------------------
(* The theorems *)

LEMMA InvariantInit == Init => IInv
<1> SUFFICES ASSUME Init PROVE IInv
  OBVIOUS
<1>1. TypeOK
  BY TypesInit
<1>2. /\ pc = "idle" /\ call = None /\ mid = None /\ rd = None /\ job = None /\ err = FALSE
      /\ \A g \in Stages : gpu[g] = None /\ commits[g] = {}
      /\ \A g \in Stages, s \in Slots : pend[g][s] = 0 /\ state[g][s] = hist[g][s] /\ hist[g][s] = IF s \in Decoding THEN 1 ELSE 0
  BY DEF Init
<1>3. ~Forwarding /\ ~TailWindow /\ ~Handing
  BY <1>2 DEF Forwarding, TailWindow, Handing
<1>4. CallOK
  BY <1>2, <1>3 DEF CallOK
<1>5. DevicesOK
  BY <1>2, <1>3 DEF DevicesOK, GraphOK, BatchOK, TransitOK
<1>6. ASSUME NEW g \in Stages, NEW s \in Slots PROVE Account(g, s)
  <2>1. On(Half(g)) = {}
    BY <1>2, <1>3, NoWindowsAre DEF Half
  <2>2. Free(g, s)
    BY <1>2 DEF Free, Reaches
  <2> QED
    BY <1>3, <2>1, <2>2 DEF Account
<1>7. Accounts
  BY <1>6 DEF Accounts
<1>8. Level
  BY <1>2, ConstantsAre DEF Level
<1>9. ReadOK
  BY <1>2, <1>3 DEF ReadOK, ReadPc, JobOK, ReadBooks, HandOK, TailOK, FirstOK
<1> QED
  BY <1>1, <1>4, <1>5, <1>7, <1>8, <1>9 DEF IInv

LEMMA InvariantStep == ASSUME IInv, [Next]_vars PROVE IInv'
<1>1. CASE Next
  <2>1. TypeOK'
    BY <1>1, TypesStep
  <2> QED
    BY <1>1, <2>1, CallStep, DevicesStep, AccountsStep, LevelStep, ReadStep DEF IInv
<1>2. CASE UNCHANGED vars
  <2>1. /\ UNCHANGED <<pc, call, mid, cur, rd, job, err, calls, failures>>
        /\ UNCHANGED <<hist, pend, lastRow, lastLane, lastT, seq, par>>
        /\ UNCHANGED <<gpu, state, inter, xfer, pfXfer, logits, joined, commits, svc>>
    BY <1>2 DEF vars, host, books, dev
  <2>2. Forwarding' = Forwarding /\ \A g \in Stages : At(g)' = At(g)
    BY <2>1 DEF Forwarding, At
  <2>3. TypeOK'
    BY <2>1, TypeParts, TypePartsNext, SameHost, SameCounts, SameReads, SameSlots, SameStages, SameRows DEF IInv
  <2>4. CallOK'
    BY <2>1, <2>2, CallSame DEF IInv
  <2>5. DevicesOK'
    BY <2>1, DevicesSame DEF IInv
  <2>6. Accounts'
    BY <2>1, <2>2, AccountsSame DEF IInv
  <2>7. Level'
    BY <2>1, <2>2, LevelFrame DEF IInv
  <2>8. ReadOK'
    BY <2>1, ReadStay
  <2> QED
    BY <2>3, <2>4, <2>5, <2>6, <2>7, <2>8 DEF IInv
<1> QED
  BY <1>1, <1>2

\* A state whose account is settled is what the books say.
LEMMA StateOf ==
  ASSUME IInv, NEW g \in Stages, NEW s \in Slots
  PROVE  /\ state[g][s] # Junk
         /\ pc = "idle" /\ commits[g] = {} => state[g][s] = hist[g][s] - pend[g][s]
<1>1. Account(g, s)
  BY DEF IInv, Accounts
<1>2. hist[g][s] \in Nat /\ pend[g][s] \in Nat
  BY TypeParts DEF IInv, SlotTypes
<1>3. \A n \in Nat : Reaches(g, s, n) => state[g][s] \in Nat /\ (commits[g] = {} => state[g][s] = n)
  BY DEF Reaches
<1>4. \A w \in Wins : NotRun(g, s, w) => state[g][s] \in Nat
  BY <1>3, WinIs DEF NotRun
<1>5. \A w \in Wins : \A l : HasRun(g, s, w, l) => state[g][s] \in Nat
  BY WinIs DEF HasRun
<1>6. CASE Forwarding /\ In(g, s)
  <2>1. Win(g, s) \in Wins
    BY <1>6, CallIs
  <2>2. At(g) \in {"new", "booked", "ran", "ended"} /\ pc # "idle"
    BY <1>6 DEF At, Forwarding
  <2>3. state[g][s] \in Nat
    BY <1>1, <1>4, <1>5, <1>6, <2>1, <2>2 DEF Account, New, Waits, Ran, Ended
  <2> QED
    BY <2>2, <2>3, ConstantsAre
<1>7. CASE s \in On(Half(g))
  <2>1. Half(g)[s] \in Wins
    <3>1. CASE Forwarding
      <4>1. call.piped /\ Half(g) = call.wins[3 - g]
        BY <1>7, <3>1, HalfApart
      <4>2. 3 - g \in Stages
        BY DEF Stages
      <4> QED
        BY <3>1, <4>1, <4>2, CallIs DEF Win
    <3>2. CASE ~Forwarding
      <4>1. mid # None /\ Half(g) = mid.wins
        BY <1>7, <3>2, NoWindowsAre DEF Half
      <4>2. mid \in Halves
        BY <4>1, TypeParts DEF IInv, HostTypes
      <4> QED
        BY <4>1, <4>2 DEF Halves, Batches
    <3> QED
      BY <3>1, <3>2
  <2>2. CASE g = 1
    <3>1. Ended(g, s, Half(g)[s], HalfLane(g))
      BY <1>1, <1>7, <2>2 DEF Account
    <3>2. state[g][s] \in Nat
      BY <1>5, <2>1, <3>1 DEF Ended
    <3>3. state[g][s] = hist[g][s] - pend[g][s]
      BY <2>1, <3>1, WinIs DEF Ended, InBooks, HasRun
    <3> QED
      BY <3>2, <3>3, ConstantsAre
  <2>3. CASE g # 1
    <3>1. New(g, s, Half(g)[s])
      BY <1>1, <1>7, <2>3 DEF Account
    <3>2. state[g][s] \in Nat
      BY <1>4, <2>1, <3>1 DEF New
    <3>3. pend[g][s] = 0 /\ Reaches(g, s, hist[g][s])
      BY <3>1 DEF New, NotRun
    <3> QED
      BY <1>2, <1>3, <3>2, <3>3, ConstantsAre
  <2> QED
    BY <2>2, <2>3
<1>8. CASE ~(Forwarding /\ In(g, s)) /\ s \notin On(Half(g))
  <2>1. pend[g][s] = 0 /\ Reaches(g, s, hist[g][s])
    BY <1>1, <1>8 DEF Account, Free
  <2> QED
    BY <1>2, <1>3, <2>1, ConstantsAre
<1> QED
  BY <1>6, <1>7, <1>8

LEMMA InvariantStates == IInv => StatesRight
BY StateOf DEF StatesRight, IInv

LEMMA InvariantLogits == IInv => LogitsRight
<1> SUFFICES ASSUME IInv PROVE LogitsRight
  OBVIOUS
<1>1. ASSUME pc = "finish", NEW s \in On(call.wins[2]), NEW i \in WinRows(Win(2, s))
      PROVE  i \in DOMAIN logits /\ logits[i] = RowAt(s, Win(2, s), i)
  <2>1. Forwarding /\ Busy(2) /\ s \in Slots
    BY <1>1 DEF Forwarding, Busy, On
  <2>2. gpu[2] = None
    BY <1>1, GpuIs, ConstantsAre
  <2>3. logits = AllRows(call.wins[2])
    BY <1>1, <2>1, <2>2, ConstantsAre DEF IInv, DevicesOK, BatchOK
  <2>4. Laid(call.wins[2])
    BY <2>1, CallIs, PackedLaid, ConstantsAre DEF WellFormed
  <2> QED
    BY <1>1, <2>1, <2>3, <2>4, AllRowsAt DEF Win
<1>2. ASSUME pc = "first token"
      PROVE  lastT[1] \in DOMAIN logits /\ logits[lastT[1]] = <<Reading, rd.total, TRUE>>
  BY <1>2 DEF IInv, ReadOK, FirstOK, LastRow
<1> QED
  BY <1>1, <1>2 DEF LogitsRight

\* The invariant holds in every state of the two stages (all actions of engine.cpp's forward, prefill and its worker,
\* the commit streams and the graphs).
THEOREM Invariant == Spec => []IInv
<1> QED
  BY InvariantInit, InvariantStep, PTL DEF Spec

\* For any requests, windows, prompts, chunk sizes and layers: no stage's recurrent state of a slot ever consumes a
\* row that is not the slot's next right token (stage graphs, commit_here, prefill_chunk_here of
\* src/engine/engine.cpp), and when the engine is idle both stages' states are what their books say.
THEOREM StatesRightHolds == Spec => []StatesRight
<1> QED
  BY Invariant, InvariantStates, PTL

\* For any requests and prompts: a round is verified on the rows of its own windows, and the first token of a prompt
\* is sampled from its last token's row (Generator::finish, Engine::prefill and Generator::start).
THEOREM LogitsRightHolds == Spec => []LogitsRight
<1> QED
  BY Invariant, InvariantLogits, PTL

-----------------------------------------------------------------------------
(* What a stage's layers read: the sparse attention *)

LEMMA QuotientIs ==
  ASSUME NEW a \in Nat, NEW n \in Nat \ {0}
  PROVE  a \div n \in Nat /\ n * (a \div n) <= a /\ a < n * (a \div n) + n /\ a % n = a - n * (a \div n)
OBVIOUS

LEMMA QuotientWith ==
  ASSUME NEW a \in Nat, NEW n \in Nat \ {0}
  PROVE  \E k \in Nat, m \in Nat :
           k = a \div n /\ m = n * k /\ m = k * n /\ m <= a /\ a < m + n /\ a % n = a - m
<1>1. PICK k \in Nat : k = a \div n /\ n * k <= a /\ a < n * k + n /\ a % n = a - n * k
  BY QuotientIs
<1>2. PICK m \in Nat : m = n * k /\ m = k * n
  OBVIOUS
<1> QED
  BY <1>1, <1>2

LEMMA ProductGrows ==
  ASSUME NEW a \in Nat, NEW b \in Nat, NEW n \in Nat, a <= b
  PROVE  n * a \in Nat /\ n * b \in Nat /\ n * a <= n * b
OBVIOUS

LEMMA ProductNext ==
  ASSUME NEW a \in Nat, NEW n \in Nat
  PROVE  n * (a + 1) = n * a + n /\ n * a = a * n
OBVIOUS

\* m is the quotient when its n numbers hold a.
LEMMA QuotientOf ==
  ASSUME NEW a \in Nat, NEW n \in Nat \ {0}, NEW m \in Nat, n * m <= a, a < n * m + n
  PROVE  a \div n = m
<1>1. PICK k \in Nat : k = a \div n /\ n * k <= a /\ a < n * k + n
  BY QuotientIs
<1>2. ~(k < m)
  <2> SUFFICES ASSUME k < m PROVE FALSE
    OBVIOUS
  <2>1. n * (k + 1) <= n * m
    BY <1>1, ProductGrows
  <2> QED
    BY <1>1, <2>1, ProductNext
<1>3. ~(m < k)
  <2> SUFFICES ASSUME m < k PROVE FALSE
    OBVIOUS
  <2>1. n * (m + 1) <= n * k
    BY <1>1, ProductGrows
  <2> QED
    BY <1>1, <2>1, ProductNext
<1> QED
  BY <1>1, <1>2, <1>3

\* Blocks before a row's tail are those that end in its text.
LEMMA QuotientAbove ==
  ASSUME NEW a \in Nat, NEW n \in Nat \ {0}, NEW b \in Nat
  PROVE  b < a \div n <=> n * b + n <= a
<1>1. PICK k \in Nat : k = a \div n /\ n * k <= a /\ a < n * k + n
  BY QuotientIs
<1>2. ASSUME b < k PROVE n * b + n <= a
  <2>1. n * (b + 1) <= n * k
    BY <1>2, ProductGrows
  <2> QED
    BY <1>1, <2>1, ProductNext
<1>3. ASSUME k <= b PROVE a < n * b + n
  <2>1. n * k <= n * b
    BY <1>3, ProductGrows
  <2> QED
    BY <1>1, <2>1, ProductNext
<1> QED
  BY <1>1, <1>2, <1>3, ProductNext

LEMMA MinOfTwo == ASSUME NEW a \in Int, NEW b \in Int PROVE Min({a, b}) = IF a <= b THEN a ELSE b
<1>1. CASE a <= b
  <2>1. \A y \in {a, b} : a <= y
    BY <1>1
  <2>2. \A x \in {a, b} : (\A y \in {a, b} : x <= y) => x = a
    BY <1>1
  <2> QED
    BY <1>1, <2>1, <2>2 DEF Min
<1>2. CASE ~(a <= b)
  <2>1. \A y \in {a, b} : b <= y
    BY <1>2
  <2>2. \A x \in {a, b} : (\A y \in {a, b} : x <= y) => x = b
    BY <1>2
  <2> QED
    BY <1>2, <2>1, <2>2 DEF Min
<1> QED
  BY <1>1, <1>2

LEMMA MaxOfTwo == ASSUME NEW a \in Int, NEW b \in Int PROVE Max({a, b}) = IF a >= b THEN a ELSE b
<1>1. CASE a >= b
  <2>1. \A y \in {a, b} : a >= y
    BY <1>1
  <2>2. \A x \in {a, b} : (\A y \in {a, b} : x >= y) => x = a
    BY <1>1
  <2> QED
    BY <1>1, <2>1, <2>2 DEF Max
<1>2. CASE ~(a >= b)
  <2>1. \A y \in {a, b} : b >= y
    BY <1>2
  <2>2. \A x \in {a, b} : (\A y \in {a, b} : x >= y) => x = b
    BY <1>2
  <2> QED
    BY <1>2, <2>1, <2>2 DEF Max
<1> QED
  BY <1>1, <1>2

-----------------------------------------------------------------------------
(* Ranks in a set of numbers *)

LEMMA RanksAre ==
  ASSUME NEW Q \in SUBSET Nat, IsFiniteSet(Q), NEW f, f = [b \in Q |-> Cardinality({c \in Q : c < b})]
  PROVE  f \in Bijection(Q, 0..Cardinality(Q) - 1) /\ \A b, d \in Q : b < d => f[b] < f[d]
<1> DEFINE low(b) == {c \in Q : c < b}
<1>1. PICK n \in Nat : n = Cardinality(Q)
  BY FS_CardinalityType
<1>2. ASSUME NEW b \in Q PROVE IsFiniteSet(low(b)) /\ f[b] = Cardinality(low(b)) /\ f[b] \in 0..n - 1
  <2>1. IsFiniteSet(Q \ {b}) /\ Cardinality(Q \ {b}) = n - 1
    BY <1>1, <1>2, FS_RemoveElement
  <2>2. low(b) \in SUBSET (Q \ {b})
    BY <1>2
  <2> HIDE DEF low
  <2>3. IsFiniteSet(low(b)) /\ Cardinality(low(b)) <= n - 1 /\ Cardinality(low(b)) \in Nat
    BY <2>1, <2>2, FS_Subset, FS_CardinalityType
  <2>4. f[b] = Cardinality(low(b))
    BY <1>2 DEF low
  <2> QED
    BY <2>3, <2>4
<1>3. ASSUME NEW b \in Q, NEW d \in Q, b < d PROVE f[b] < f[d]
  <2>1. low(b) \cup {b} \in SUBSET low(d) /\ b \notin low(b)
    <3>1. b \in Nat /\ d \in Nat /\ \A c \in Q : c \in Nat
      BY <1>3
    <3>2. \A c \in Q : c < b => c < d
      BY <1>3, <3>1
    <3>3. ~(b < b)
      BY <3>1
    <3> QED
      BY Zenon, <1>3, <3>2, <3>3
  <2> HIDE DEF low
  <2>2. IsFiniteSet(low(b) \cup {b}) /\ Cardinality(low(b) \cup {b}) = Cardinality(low(b)) + 1
    BY <1>2, <1>3, <2>1, FS_AddElement
  <2>3. Cardinality(low(b) \cup {b}) <= Cardinality(low(d))
    BY <1>2, <1>3, <2>1, FS_Subset
  <2> QED
    BY <1>2, <1>3, <2>2, <2>3
<1>4. f \in [Q -> 0..n - 1]
  BY <1>2
<1>5. f \in Injection(Q, 0..n - 1)
  <2>1. ASSUME NEW b \in Q, NEW d \in Q, f[b] = f[d] PROVE b = d
    <3>1. b \in Nat /\ d \in Nat /\ f[b] \in Int
      BY <1>2
    <3>2. ~(b < d) /\ ~(d < b)
      BY <1>3, <2>1, <3>1
    <3> QED
      BY <3>1, <3>2
  <2> QED
    BY <1>4, <2>1 DEF Injection, IsInjective
<1>6. IsFiniteSet(0..n - 1) /\ Cardinality(0..n - 1) = n
  BY FS_Interval
<1>7. f \in Surjection(Q, 0..n - 1)
  BY <1>1, <1>5, <1>6, FS_Injection
<1> QED
  BY <1>1, <1>3, <1>5, <1>7 DEF Bijection

\* The first w of a set.
LEMMA FirstRanked ==
  ASSUME NEW Q \in SUBSET Nat, IsFiniteSet(Q), NEW w \in Nat
  PROVE  /\ IsFiniteSet({c \in Q : Cardinality({d \in Q : d < c}) < w})
         /\ Cardinality({c \in Q : Cardinality({d \in Q : d < c}) < w}) = IF w <= Cardinality(Q) THEN w ELSE Cardinality(Q)
<1> DEFINE f == [b \in Q |-> Cardinality({c \in Q : c < b})]
           first == {c \in Q : Cardinality({d \in Q : d < c}) < w}
<1>1. PICK n \in Nat : n = Cardinality(Q)
  BY FS_CardinalityType
<1>2. f \in Bijection(Q, 0..n - 1)
  BY <1>1, RanksAre
<1>3. first = {c \in Q : f[c] < w}
  OBVIOUS
<1> HIDE DEF f, first
<1>4. IsFiniteSet(first)
  BY <1>3, FS_Subset
<1>5. f \in [Q -> 0..n - 1] /\ (\A a, b \in Q : f[a] = f[b] => a = b) /\ \A i \in 0..n - 1 : \E b \in Q : f[b] = i
  BY <1>2 DEF Bijection, Injection, Surjection, IsInjective
<1>6. CASE ~(w <= n)
  <2>1. first = Q
    <3>1. \A c \in Q : f[c] \in 0..n - 1
      BY <1>5
    <3>2. \A c \in Q : f[c] < w
      BY <1>6, <3>1
    <3> QED
      BY <1>3, <3>2
  <2> QED
    BY <1>1, <1>4, <1>6, <2>1 DEF first
<1>7. CASE w <= n
  <2> DEFINE g == [c \in first |-> f[c]]
  <2>1. g \in [first -> 0..w - 1]
    <3>1. \A c \in first : f[c] \in 0..n - 1 /\ f[c] < w
      BY <1>3, <1>5
    <3>2. \A c \in first : f[c] \in 0..w - 1
      BY <3>1
    <3> QED
      BY <3>2
  <2>2. \A a, b \in first : g[a] = g[b] => a = b
    BY <1>3, <1>5
  <2>3. \A i \in 0..w - 1 : \E b \in first : g[b] = i
    BY <1>3, <1>5, <1>7
  <2> HIDE DEF g
  <2>4. g \in Bijection(first, 0..w - 1)
    BY <2>1, <2>2, <2>3 DEF Bijection, Injection, Surjection, IsInjective
  <2>5. Cardinality(0..w - 1) = w
    BY FS_Interval
  <2>6. Cardinality(first) = w
    BY <1>4, <2>4, <2>5, FS_Bijection DEF ExistsBijection
  <2> QED
    BY <1>1, <1>4, <1>7, <2>6 DEF first
<1> QED
  BY <1>6, <1>7

-----------------------------------------------------------------------------
(* The scans of a block of threads *)

\* counts are the sizes of sets that are apart, and all is what they hold
Counted(counts, X, us, all) ==
  /\ IsFiniteSet(all) /\ all = UNION {X[u] : u \in us}
  /\ \A u \in us : counts[u] = Cardinality(X[u])
  /\ \A u, v \in us : u # v => X[u] \cap X[v] = {}

\* A sum of sizes is the size of what they count.
LEMMA SumOverIs ==
  ASSUME NEW us, NEW X, NEW counts, NEW all, Counted(counts, X, us, all)
  PROVE  SumOver(counts, us) = Cardinality(all)
<1>0. /\ IsFiniteSet(all) /\ all = UNION {X[u] : u \in us}
      /\ \A u \in us : counts[u] = Cardinality(X[u])
      /\ \A u, v \in us : u # v => X[u] \cap X[v] = {}
  BY DEF Counted
<1> DEFINE units == UNION {{u} \X (1..counts[u]) : u \in us}
           into(u) == CHOOSE g : g \in Bijection(X[u], 1..counts[u])
           home(x) == CHOOSE u \in us : x \in X[u]
           f == [x \in all |-> <<home(x), into(home(x))[x]>>]
<1>1. ASSUME NEW u \in us PROVE into(u) \in Bijection(X[u], 1..counts[u])
  <2>1. X[u] \in SUBSET all
    BY <1>0
  <2>2. IsFiniteSet(X[u])
    BY <1>0, <2>1, FS_Subset
  <2>3. \E g : g \in Bijection(X[u], 1..counts[u])
    BY <1>0, <2>2, FS_CardinalityType, Fun_ExistsBijSymmetric DEF ExistsBijection
  <2> QED
    BY <2>3
<1>2. ASSUME NEW x \in all PROVE home(x) \in us /\ x \in X[home(x)]
  BY <1>0
<1>3. ASSUME NEW u \in us, NEW x \in X[u] PROVE x \in all /\ home(x) = u
  <2>1. x \in all
    BY <1>0
  <2>2. home(x) \in us /\ x \in X[home(x)]
    BY <1>2, <2>1
  <2> QED
    BY <1>0, <2>1, <2>2
<1> HIDE DEF into, home
<1>4. ASSUME NEW u \in us
      PROVE  /\ into(u) \in [X[u] -> 1..counts[u]]
             /\ \A x, y \in X[u] : into(u)[x] = into(u)[y] => x = y
             /\ \A i \in 1..counts[u] : \E x \in X[u] : into(u)[x] = i
  BY <1>1 DEF Bijection, Injection, Surjection, IsInjective
<1>5. f \in [all -> units]
  <2>1. ASSUME NEW x \in all PROVE f[x] \in units
    <3>1. home(x) \in us /\ into(home(x))[x] \in 1..counts[home(x)]
      BY <1>2, <1>4
    <3>2. <<home(x), into(home(x))[x]>> \in {home(x)} \X (1..counts[home(x)])
      BY <3>1
    <3> QED
      BY <3>1, <3>2
  <2> QED
    BY <2>1
<1>6. \A x, y \in all : f[x] = f[y] => x = y
  <2>1. ASSUME NEW x \in all, NEW y \in all, f[x] = f[y] PROVE x = y
    <3>1. home(x) = home(y) /\ into(home(x))[x] = into(home(y))[y]
      BY <2>1
    <3> QED
      BY <1>2, <1>4, <3>1
  <2> QED
    BY <2>1
<1>7. ASSUME NEW z \in units PROVE \E x \in all : f[x] = z
  <2>1. PICK u \in us : z \in {u} \X (1..counts[u])
    BY <1>7
  <2>2. PICK i \in 1..counts[u] : z = <<u, i>>
    BY <2>1
  <2>3. PICK x \in X[u] : into(u)[x] = i
    BY <1>4
  <2>4. x \in all /\ home(x) = u
    BY <1>3
  <2> QED
    BY <2>2, <2>3, <2>4
<1> HIDE DEF f
<1>8. f \in Bijection(all, units)
  BY <1>5, <1>6, <1>7 DEF Bijection, Injection, Surjection, IsInjective
<1>9. Cardinality(units) = Cardinality(all)
  BY <1>0, <1>8, FS_Bijection DEF ExistsBijection
<1> QED
  BY <1>9 DEF SumOver

LEMMA CountedSome ==
  ASSUME NEW us, NEW X, NEW counts, NEW all, Counted(counts, X, us, all), NEW some \in SUBSET us
  PROVE  Counted(counts, X, some, UNION {X[u] : u \in some})
<1>1. UNION {X[u] : u \in some} \in SUBSET all
  BY DEF Counted
<1>2. IsFiniteSet(UNION {X[u] : u \in some})
  BY <1>1, FS_Subset DEF Counted
<1> QED
  BY <1>2 DEF Counted

\* The numbers before t: those of the warps before its own, and those of its own.
LEMMA WarpsBefore ==
  ASSUME NEW t \in Nat
  PROVE  /\ t \div Warp \in Nat /\ (t \div Warp) * Warp \in Nat /\ (t \div Warp) * Warp <= t
         /\ \A v \in 0..t \div Warp - 1 : v * Warp \in Nat /\ v * Warp + Warp - 1 < (t \div Warp) * Warp
         /\ \A u \in 0..t - 1 : \/ u \in (t \div Warp) * Warp .. t
                                \/ \E v \in 0..t \div Warp - 1 : u \in v * Warp .. v * Warp + Warp - 1
         /\ \A v, x \in 0..t \div Warp - 1 :
              v # x => (v * Warp .. v * Warp + Warp - 1) \cap (x * Warp .. x * Warp + Warp - 1) = {}
<1>0. Warp \in Nat \ {0}
  BY TopKAssumption
<1>1. PICK w \in Nat, m \in Nat : w = t \div Warp /\ m = Warp * w /\ m = w * Warp /\ m <= t
  BY <1>0, QuotientWith
<1>2. ASSUME NEW v \in Nat, NEW x \in Nat, v < x
      PROVE  v * Warp \in Nat /\ x * Warp \in Nat /\ v * Warp + Warp <= x * Warp
  <2>1. Warp * (v + 1) <= Warp * x
    BY <1>0, <1>2, ProductGrows
  <2>2. PICK a \in Nat, b \in Nat : a = Warp * v /\ a = v * Warp /\ b = Warp * x /\ b = x * Warp
    BY <1>0
  <2> QED
    BY <1>0, <2>1, <2>2, ProductNext
<1>3. ASSUME NEW v \in 0..w - 1 PROVE v * Warp \in Nat /\ v * Warp + Warp - 1 < m
  <2>1. v \in Nat /\ v < w
    OBVIOUS
  <2> QED
    BY <1>0, <1>1, <1>2, <2>1
<1>4. ASSUME NEW u \in 0..t - 1, u < m PROVE \E v \in 0..w - 1 : u \in v * Warp .. v * Warp + Warp - 1
  <2>1. u \in Nat
    OBVIOUS
  <2>2. PICK v \in Nat, a \in Nat : a = Warp * v /\ a = v * Warp /\ a <= u /\ u < a + Warp
    BY <1>0, <2>1, QuotientWith
  <2>3. v < w
    <3>1. SUFFICES ASSUME w <= v PROVE FALSE
      BY <1>1, <2>2
    <3>2. Warp * w <= Warp * v
      BY <1>0, <1>1, <2>2, <3>1, ProductGrows
    <3> QED
      BY <1>1, <1>4, <2>1, <2>2, <3>2
  <2> QED
    BY <1>0, <2>1, <2>2, <2>3
<1>5. ASSUME NEW v \in 0..w - 1, NEW x \in 0..w - 1, v # x
      PROVE  (v * Warp .. v * Warp + Warp - 1) \cap (x * Warp .. x * Warp + Warp - 1) = {}
  <2>1. v \in Nat /\ x \in Nat /\ (v < x \/ x < v)
    BY <1>5
  <2>2. v * Warp \in Nat /\ x * Warp \in Nat /\ (v * Warp + Warp <= x * Warp \/ x * Warp + Warp <= v * Warp)
    BY <1>2, <2>1
  <2>3. PICK a \in Nat, b \in Nat : a = v * Warp /\ b = x * Warp /\ (a + Warp <= b \/ b + Warp <= a)
    BY <2>2
  <2>4. (a .. a + Warp - 1) \cap (b .. b + Warp - 1) = {}
    BY <1>0, <2>3
  <2> QED
    BY <2>3, <2>4
<1>6. \A u \in 0..t - 1 : u \in m..t \/ u < m
  BY <1>1
<1> QED
  BY <1>1, <1>3, <1>4, <1>5, <1>6

\* The exclusive scan of the sizes of sets that are apart is the size of those before.
LEMMA BeforeIs ==
  ASSUME NEW t \in Nat, NEW X, NEW counts, NEW all, Counted(counts, X, 0..t, all)
  PROVE  Before(counts, t) = Cardinality(UNION {X[u] : u \in 0..t - 1})
<1> DEFINE Over(us) == UNION {X[u] : u \in us}
           warp(v)  == v * Warp .. v * Warp + Warp - 1
           totals   == [v \in 0..t \div Warp - 1 |-> SumOver(counts, warp(v))]
           Y        == [v \in 0..t \div Warp - 1 |-> Over(warp(v))]
<1>0. Warp \in Nat \ {0}
  BY TopKAssumption
<1>a. /\ \A u \in 0..t : counts[u] = Cardinality(X[u])
      /\ \A u, v \in 0..t : u # v => X[u] \cap X[v] = {}
  BY DEF Counted
<1>1. PICK w \in Nat, m \in Nat : w = t \div Warp /\ m = w * Warp /\ m <= t
  BY WarpsBefore
<1>2. ASSUME NEW v \in 0..w - 1 PROVE warp(v) \subseteq 0..m - 1 /\ warp(v) \subseteq 0..t
  <2>1. v * Warp \in Nat /\ v * Warp + Warp - 1 < m
    BY <1>1, WarpsBefore
  <2>2. PICK a \in Nat : a = v * Warp
    BY <2>1
  <2>3. a .. a + Warp - 1 \subseteq 0..m - 1 /\ a .. a + Warp - 1 \subseteq 0..t
    BY <1>0, <1>1, <2>1, <2>2
  <2> QED
    BY <2>2, <2>3
<1>3. ASSUME NEW v \in 0..w - 1, NEW x \in 0..w - 1, v # x PROVE warp(v) \cap warp(x) = {}
  BY <1>1, <1>3, WarpsBefore
<1>4. ASSUME NEW u \in 0..m - 1 PROVE \E v \in 0..w - 1 : u \in warp(v)
  <2>1. u \in 0..t - 1 /\ u \notin m..t
    BY <1>1
  <2> QED
    BY <1>1, <2>1, WarpsBefore
<1> HIDE DEF warp
<1>5. ASSUME NEW us \in SUBSET (0..t)
      PROVE  IsFiniteSet(Over(us)) /\ SumOver(counts, us) = Cardinality(Over(us))
  <2>1. Counted(counts, X, us, Over(us))
    BY CountedSome
  <2>2. IsFiniteSet(Over(us))
    BY <2>1 DEF Counted
  <2> HIDE DEF Over
  <2> QED
    BY <2>1, <2>2, SumOverIs
<1>6. ASSUME NEW v \in 0..w - 1 PROVE totals[v] = Cardinality(Y[v])
  <2>1. warp(v) \in SUBSET (0..t)
    BY <1>2
  <2> QED
    BY <1>1, <1>5, <2>1
<1>7. UNION {Y[v] : v \in 0..w - 1} = Over(0..m - 1)
  <2>1. \A v \in 0..w - 1 : Y[v] = Over(warp(v))
    BY <1>1
  <2> HIDE DEF Y
  <2>2. ASSUME NEW z \in UNION {Y[v] : v \in 0..w - 1} PROVE z \in Over(0..m - 1)
    <3>1. PICK v \in 0..w - 1 : z \in Over(warp(v))
      BY <2>1, <2>2
    <3> QED
      BY <1>2, <3>1
  <2>3. ASSUME NEW z \in Over(0..m - 1) PROVE z \in UNION {Y[v] : v \in 0..w - 1}
    <3>1. PICK u \in 0..m - 1 : z \in X[u]
      BY <2>3
    <3>2. PICK v \in 0..w - 1 : u \in warp(v)
      BY <1>4
    <3>3. z \in Y[v]
      BY <2>1, <3>1, <3>2
    <3> QED
      BY <3>3
  <2> QED
    BY <2>2, <2>3
<1>8. ASSUME NEW v \in 0..w - 1, NEW x \in 0..w - 1, v # x PROVE Y[v] \cap Y[x] = {}
  <2>1. SUFFICES ASSUME NEW z \in Over(warp(v)) \cap Over(warp(x)) PROVE FALSE
    BY <1>1, <1>8
  <2>2. PICK a \in warp(v), b \in warp(x) : z \in X[a] /\ z \in X[b]
    BY <2>1
  <2>3. a # b /\ a \in 0..t /\ b \in 0..t
    BY <1>2, <1>3, <1>8
  <2> QED
    BY <1>a, <2>2, <2>3
<1>9. 0..m - 1 \in SUBSET (0..t)
  BY <1>1
<1>10. SumOver(totals, 0..w - 1) = Cardinality(Over(0..m - 1))
  <2> HIDE DEF totals, Y, Over
  <2>2. \A v, x \in 0..w - 1 : v # x => Y[v] \cap Y[x] = {}
    BY <1>8
  <2>3. \A v \in 0..w - 1 : totals[v] = Cardinality(Y[v])
    BY <1>6
  <2>4. Counted(totals, Y, 0..w - 1, Over(0..m - 1))
    BY <1>5, <1>7, <1>9, <2>2, <2>3 DEF Counted
  <2> QED
    BY <2>4, SumOverIs
<1>11. SumOver(counts, m..t) = Cardinality(Over(m..t)) /\ IsFiniteSet(Over(m..t))
  <2>1. m..t \in SUBSET (0..t)
    BY <1>1
  <2> QED
    BY <1>5, <2>1
<1>12. Before(counts, t) = SumOver(totals, 0..w - 1) + SumOver(counts, m..t) - counts[t]
  BY <1>1 DEF Before, warp
<1>13. Over(m..t) = Over(m..t - 1) \cup X[t] /\ Over(m..t - 1) \cap X[t] = {}
  <2>1. m..t = (m..t - 1) \cup {t} /\ t \notin m..t - 1 /\ m..t - 1 \subseteq 0..t /\ t \in 0..t
    BY <1>1
  <2>2. Over(m..t) = Over(m..t - 1) \cup X[t]
    BY <2>1
  <2> QED
    BY <1>a, <2>1, <2>2
<1>14. Over(0..t - 1) = Over(0..m - 1) \cup Over(m..t - 1) /\ Over(0..m - 1) \cap Over(m..t - 1) = {}
  <2>1. 0..t - 1 = (0..m - 1) \cup (m..t - 1) /\ (0..m - 1) \cap (m..t - 1) = {}
        /\ 0..m - 1 \subseteq 0..t /\ m..t - 1 \subseteq 0..t
    BY <1>1
  <2>2. Over(0..t - 1) = Over(0..m - 1) \cup Over(m..t - 1)
    BY <2>1
  <2>3. ASSUME NEW z \in Over(0..m - 1) \cap Over(m..t - 1) PROVE FALSE
    <3>1. PICK a \in 0..m - 1, b \in m..t - 1 : z \in X[a] /\ z \in X[b]
      BY <2>3
    <3>2. a # b /\ a \in 0..t /\ b \in 0..t
      BY <2>1
    <3> QED
      BY <1>a, <3>1, <3>2
  <2> QED
    BY <2>2, <2>3
<1>15. m..t - 1 \in SUBSET (0..t) /\ {t} \in SUBSET (0..t) /\ Over({t}) = X[t] /\ t \in 0..t
  BY <1>1
<1> HIDE DEF Over, totals, Y
<1>16. IsFiniteSet(Over(m..t - 1)) /\ IsFiniteSet(X[t]) /\ IsFiniteSet(Over(0..m - 1))
  BY <1>5, <1>9, <1>15
<1>17. PICK a \in Nat, b \in Nat, c \in Nat :
         a = Cardinality(Over(0..m - 1)) /\ b = Cardinality(Over(m..t - 1)) /\ c = Cardinality(X[t])
  BY <1>16, FS_CardinalityType
<1>18. Cardinality(Over(m..t)) = b + c
  <2>1. Cardinality(Over(m..t - 1) \cup X[t]) = b + c - Cardinality(Over(m..t - 1) \cap X[t])
    BY <1>16, <1>17, FS_Union
  <2>2. Cardinality(Over(m..t - 1) \cap X[t]) = 0
    BY <1>13, FS_EmptySet
  <2>3. Cardinality(Over(m..t - 1) \cup X[t]) = b + c
    BY <1>17, <2>1, <2>2
  <2> QED
    BY <1>13, <2>3
<1>19. Cardinality(Over(0..t - 1)) = a + b
  <2>1. Cardinality(Over(0..m - 1) \cup Over(m..t - 1)) = a + b - Cardinality(Over(0..m - 1) \cap Over(m..t - 1))
    BY <1>16, <1>17, FS_Union
  <2>2. Cardinality(Over(0..m - 1) \cap Over(m..t - 1)) = 0
    BY <1>14, FS_EmptySet
  <2>3. Cardinality(Over(0..m - 1) \cup Over(m..t - 1)) = a + b
    BY <1>17, <2>1, <2>2
  <2> QED
    BY <1>14, <2>3
<1>20. counts[t] = c
  BY <1>a, <1>15, <1>17
<1>21. Before(counts, t) = a + (b + c) - c
  BY <1>10, <1>11, <1>12, <1>17, <1>18, <1>20
<1> QED
  BY <1>17, <1>19, <1>21 DEF Over

LEMMA FloatRowIs ==
  ASSUME NEW row, IsRow(row)
  PROVE  \E n \in Nat \ {0} :
           /\ n = Cardinality(DOMAIN row) /\ DOMAIN row = 0..n - 1 /\ IsFiniteSet(DOMAIN row) /\ DOMAIN row \in SUBSET Nat
           /\ \A b \in DOMAIN row : row[b] \in Floats
<1>1. PICK n \in Nat : n = Cardinality(DOMAIN row)
  BY FS_CardinalityType DEF IsRow
<1>2. n # 0
  BY <1>1, FS_EmptySet DEF IsRow
<1> QED
  BY <1>1, <1>2 DEF IsRow

LEMMA IntervalCut ==
  ASSUME NEW a \in Nat, NEW p \in Nat, NEW n \in Nat
  PROVE  a .. (IF n <= a + p THEN n ELSE a + p) - 1 = {b \in 0..n - 1 : a <= b /\ b < a + p}
OBVIOUS

\* The threads' ranges are the row, in order.
LEMMA RangesAre ==
  ASSUME NEW row, IsRow(row)
  PROVE  \E per \in Nat \ {0} :
           /\ \A t \in 0..Threads - 1 : RangeOf(row, t) = {b \in DOMAIN row : b \div per = t}
           /\ \A b \in DOMAIN row : b \div per \in 0..Threads - 1
<1>0. Threads \in Nat \ {0}
  BY TopKAssumption
<1>1. PICK n \in Nat \ {0} : n = Cardinality(DOMAIN row) /\ DOMAIN row = 0..n - 1
  BY FloatRowIs
<1>2. PICK per \in Nat, m \in Nat :
         per = (n + Threads - 1) \div Threads /\ m = Threads * per /\ m = per * Threads /\ n + Threads - 1 < m + Threads
  <2>1. n + Threads - 1 \in Nat
    BY <1>0
  <2> QED
    BY <1>0, <2>1, QuotientWith
<1>3. n <= m /\ per # 0
  BY <1>0, <1>2
<1>4. ASSUME NEW b \in DOMAIN row
      PROVE  b \div per \in Nat /\ \A t \in Nat : b \div per = t <=> per * t <= b /\ b < per * t + per
  <2>1. b \in Nat
    BY <1>1
  <2> QED
    BY <1>2, <1>3, <2>1, QuotientIs, QuotientOf
<1>5. ASSUME NEW b \in DOMAIN row PROVE b \div per \in 0..Threads - 1
  <2>1. PICK k \in Nat, a \in Nat : k = b \div per /\ a = per * k /\ a <= b
    BY <1>2, <1>3, <1>4
  <2>2. k < Threads
    <3>1. SUFFICES ASSUME Threads <= k PROVE FALSE
      BY <1>0, <2>1
    <3>2. m <= a
      BY <1>0, <1>2, <2>1, <3>1, ProductGrows
    <3>3. b \in 0..n - 1
      BY Zenon, <1>1
    <3> QED
      BY <1>3, <2>1, <3>2, <3>3
  <2> QED
    BY <1>0, <2>1, <2>2
<1>6. ASSUME NEW t \in 0..Threads - 1 PROVE RangeOf(row, t) = {b \in DOMAIN row : b \div per = t}
  <2>1. t \in Nat
    OBVIOUS
  <2>2. PICK a \in Nat : a = per * t /\ a = t * per /\ a + per = (t + 1) * per
    <3>1. PICK a \in Nat : a = per * t /\ a = t * per
      BY <1>2, <2>1
    <3>2. per * (t + 1) = a + per /\ per * (t + 1) = (t + 1) * per
      BY <1>2, <2>1, <3>1, ProductNext
    <3> QED
      BY <3>1, <3>2
  <2>3. RangeOf(row, t) = a .. Min({n, a + per}) - 1
    BY <1>1, <1>2, <2>2 DEF RangeOf
  <2>4. Min({n, a + per}) = IF n <= a + per THEN n ELSE a + per
    BY <1>2, <2>2, MinOfTwo
  <2>5. RangeOf(row, t) = {b \in 0..n - 1 : a <= b /\ b < a + per}
    <3>1. a .. (IF n <= a + per THEN n ELSE a + per) - 1 = {b \in 0..n - 1 : a <= b /\ b < a + per}
      BY <1>2, IntervalCut
    <3> QED
      BY <2>3, <2>4, <3>1
  <2>6. \A b \in DOMAIN row : b \div per = t <=> a <= b /\ b < a + per
    BY <1>4, <2>1, <2>2
  <2> QED
    BY <1>1, <2>5, <2>6
<1> QED
  BY <1>2, <1>3, <1>5, <1>6

LEMMA QuotientsGrow ==
  ASSUME NEW a \in Nat, NEW b \in Nat, NEW n \in Nat \ {0}, a <= b
  PROVE  a \div n <= b \div n /\ a \div n \in Nat /\ b \div n \in Nat
<1>1. PICK k \in Nat, m \in Nat : k = a \div n /\ m = n * k /\ m <= a /\ a < m + n
  BY QuotientWith
<1>2. PICK j \in Nat, l \in Nat : j = b \div n /\ l = n * j /\ l <= b /\ b < l + n
  BY QuotientWith
<1>3. ~(j < k)
  <2>1. SUFFICES ASSUME j < k PROVE FALSE
    OBVIOUS
  <2>2. n * (j + 1) <= n * k
    BY <1>1, <1>2, <2>1, ProductGrows
  <2>3. n * (j + 1) = n * j + n
    BY <1>2, ProductNext
  <2> QED
    BY <1>1, <1>2, <2>2, <2>3
<1> QED
  BY <1>1, <1>2, <1>3

\* What a thread counts before a cell of its range is what comes before it in the row.
LEMMA CountedBeforeIs ==
  ASSUME NEW row, IsRow(row), NEW S \in SUBSET DOMAIN row, NEW t \in 0..Threads - 1, NEW b \in RangeOf(row, t)
  PROVE  CountedBefore(S, row, t, b) = Rank(S, b)
<1>0. PICK n \in Nat \ {0} : n = Cardinality(DOMAIN row) /\ DOMAIN row = 0..n - 1 /\ IsFiniteSet(DOMAIN row)
  BY FloatRowIs
<1>1. PICK per \in Nat \ {0} :
         /\ \A u \in 0..Threads - 1 : RangeOf(row, u) = {c \in DOMAIN row : c \div per = u}
         /\ \A c \in DOMAIN row : c \div per \in 0..Threads - 1
  BY RangesAre
<1>2. Threads \in Nat \ {0} /\ t \in Nat
  BY TopKAssumption
<1> DEFINE X      == [u \in 0..Threads - 1 |-> S \cap RangeOf(row, u)]
           counts == [u \in 0..Threads - 1 |-> Cardinality(S \cap RangeOf(row, u))]
           upto   == UNION {X[u] : u \in 0..t}
           before == UNION {X[u] : u \in 0..t - 1}
           own    == {c \in S \cap RangeOf(row, t) : c < b}
<1>3. 0..t \subseteq 0..Threads - 1 /\ 0..t - 1 \subseteq 0..t
  BY <1>2
<1>4. IsFiniteSet(S)
  BY <1>0, FS_Subset
<1>5. \A u \in 0..t : X[u] = {c \in S : c \div per = u}
  BY <1>1, <1>3
<1>6. Counted(counts, X, 0..t, upto)
  <2>1. upto \in SUBSET S
    <3>1. SUFFICES ASSUME NEW c \in upto PROVE c \in S
      OBVIOUS
    <3>2. PICK u \in 0..t : c \in X[u]
      BY <3>1
    <3> HIDE DEF X
    <3> QED
      BY <1>5, <3>2
  <2>2. IsFiniteSet(upto)
    BY <1>4, <2>1, FS_Subset
  <2>3. \A u \in 0..t : counts[u] = Cardinality(X[u])
    BY <1>3
  <2>4. ASSUME NEW u \in 0..t, NEW v \in 0..t, u # v PROVE X[u] \cap X[v] = {}
    <3> HIDE DEF X
    <3> QED
      BY <1>5, <2>4
  <2> QED
    BY <2>2, <2>3, <2>4 DEF Counted
<1>7. Before(counts, t) = Cardinality(before)
  <2> HIDE DEF X, counts
  <2> QED
    BY <1>2, <1>6, BeforeIs
<1>8. CountedBefore(S, row, t, b) = Before(counts, t) + Cardinality(own)
  BY DEF CountedBefore
<1>9. before = {c \in S : c \div per < t}
  <2>1. ASSUME NEW c \in before PROVE c \in S /\ c \div per < t
    <3>1. PICK u \in 0..t - 1 : c \in X[u]
      BY <2>1
    <3>2. c \in S /\ c \div per = u
      BY <1>3, <1>5, <3>1
    <3> QED
      BY <1>2, <3>2
  <2>2. ASSUME NEW c \in S, c \div per < t PROVE c \in before
    <3>1. PICK u \in 0..t - 1 : u = c \div per
      BY <1>1, <1>2, <2>2
    <3>2. c \in X[u]
      BY <1>3, <1>5, <3>1
    <3> QED
      BY <3>2
  <2> QED
    BY <2>1, <2>2
<1>10. own = {c \in S : c \div per = t /\ c < b}
  BY <1>1
<1>11. b \in Nat /\ b \div per = t /\ \A c \in S : c \in Nat
  BY <1>0, <1>1
<1>12. before \cup own = {c \in S : c < b} /\ before \cap own = {}
  <2>1. ASSUME NEW c \in S PROVE c < b <=> (c \div per < t \/ (c \div per = t /\ c < b))
    <3>1. PICK q \in Nat : q = c \div per
      BY <1>1, <1>2
    <3>2. c <= b => q <= t
      BY <1>1, <1>11, <3>1, QuotientsGrow
    <3>3. b <= c => t <= q
      BY <1>1, <1>11, <3>1, QuotientsGrow
    <3> QED
      BY <1>2, <1>11, <3>1, <3>2, <3>3
  <2>2. ASSUME NEW c \in S PROVE ~(c \div per < t /\ c \div per = t)
    BY <1>2
  <2> HIDE DEF before, own
  <2>3. before \cup own = {c \in S : c < b}
    BY <1>9, <1>10, <2>1
  <2> QED
    BY <1>9, <1>10, <2>2, <2>3
<1> HIDE DEF before, own
<1>13. IsFiniteSet(before) /\ IsFiniteSet(own)
  <2>1. before \in SUBSET S /\ own \in SUBSET S
    BY <1>9, <1>10
  <2> QED
    BY <1>4, <2>1, FS_Subset
<1>14. Cardinality(before \cup own) = Cardinality(before) + Cardinality(own)
  <2>1. Cardinality(before \cup own) = Cardinality(before) + Cardinality(own) - Cardinality(before \cap own)
    BY <1>13, FS_Union
  <2>2. Cardinality(before \cap own) = 0
    BY <1>12, FS_EmptySet
  <2>3. Cardinality(before) \in Nat /\ Cardinality(own) \in Nat
    BY <1>13, FS_CardinalityType
  <2> QED
    BY <2>1, <2>2, <2>3
<1> QED
  BY <1>7, <1>8, <1>12, <1>14 DEF Rank

-----------------------------------------------------------------------------
(* What a block of threads picks, once the cut is known *)

\* everything of A and the first w of E
Picked(A, E, w) == A \cup {c \in E : Rank(E, c) < w}

LEMMA PickedSize ==
  ASSUME NEW A \in SUBSET Nat, NEW E \in SUBSET Nat, NEW w \in Nat, IsFiniteSet(A), IsFiniteSet(E), A \cap E = {}
  PROVE  /\ IsFiniteSet(Picked(A, E, w)) /\ Cardinality(A) \in Nat /\ Cardinality(E) \in Nat
         /\ Cardinality(Picked(A, E, w)) = Cardinality(A) + (IF w <= Cardinality(E) THEN w ELSE Cardinality(E))
<1> DEFINE first == {c \in E : Rank(E, c) < w}
<1>1. PICK a \in Nat, e \in Nat : a = Cardinality(A) /\ e = Cardinality(E)
  BY FS_CardinalityType
<1>2. IsFiniteSet(first) /\ Cardinality(first) = IF w <= e THEN w ELSE e
  BY <1>1, FirstRanked DEF Rank
<1>3. A \cap first = {} /\ Picked(A, E, w) = A \cup first
  BY DEF Picked
<1> HIDE DEF first
<1>4. Cardinality(A \cup first) = Cardinality(A) + Cardinality(first) - Cardinality(A \cap first)
  BY <1>2, FS_Union
<1>5. Cardinality(A \cap first) = 0
  BY <1>3, FS_EmptySet
<1>6. Cardinality(A \cup first) = a + (IF w <= e THEN w ELSE e)
  BY <1>1, <1>2, <1>4, <1>5
<1>7. IsFiniteSet(A \cup first)
  BY <1>2, FS_Union
<1> QED
  BY <1>1, <1>3, <1>6, <1>7

\* A pick's slot: those of A before it, and as many of E as are picked.
LEMMA PickedRank ==
  ASSUME NEW A \in SUBSET Nat, NEW E \in SUBSET Nat, NEW w \in Nat, IsFiniteSet(A), IsFiniteSet(E), A \cap E = {},
         NEW b \in Nat
  PROVE  /\ Rank(A, b) \in Nat /\ Rank(E, b) \in Nat
         /\ Rank(Picked(A, E, w), b) = Rank(A, b) + Min({Rank(E, b), w})
<1> DEFINE Ab == {c \in A : c < b}
           Eb == {c \in E : c < b}
<1>1. Ab \in SUBSET A /\ Eb \in SUBSET E
  OBVIOUS
<1>2. IsFiniteSet(Ab) /\ IsFiniteSet(Eb)
  BY <1>1, FS_Subset
<1>3. ASSUME NEW c \in Eb PROVE Rank(Eb, c) = Rank(E, c)
  <2>1. {d \in Eb : d < c} = {d \in E : d < c}
    <3>1. c \in Nat /\ c < b /\ \A d \in E : d \in Nat
      OBVIOUS
    <3>2. \A d \in E : d < c => d < b
      BY <3>1
    <3> QED
      BY <3>2
  <2> QED
    BY <2>1 DEF Rank
<1>4. {c \in Picked(A, E, w) : c < b} = Picked(Ab, Eb, w)
  BY <1>3 DEF Picked
<1>5. Ab \cap Eb = {} /\ Ab \in SUBSET Nat /\ Eb \in SUBSET Nat
  OBVIOUS
<1>6. Rank(A, b) = Cardinality(Ab) /\ Rank(E, b) = Cardinality(Eb)
  BY DEF Rank
<1> HIDE DEF Ab, Eb
<1>7. /\ Cardinality(Ab) \in Nat /\ Cardinality(Eb) \in Nat
      /\ Cardinality(Picked(Ab, Eb, w)) = Cardinality(Ab) + (IF w <= Cardinality(Eb) THEN w ELSE Cardinality(Eb))
  BY <1>2, <1>5, PickedSize
<1>8. PICK e \in Nat : e = Cardinality(Eb) /\ Min({e, w}) = IF w <= e THEN w ELSE e
  <2>1. PICK e \in Nat : e = Cardinality(Eb)
    BY <1>7
  <2>2. Min({e, w}) = IF e <= w THEN e ELSE w
    BY MinOfTwo
  <2> QED
    BY <2>1, <2>2
<1> QED
  BY <1>4, <1>6, <1>7, <1>8 DEF Rank

LEMMA CutSets ==
  ASSUME NEW row, IsRow(row), NEW sel
  PROVE  /\ AboveCut(row, sel) \in SUBSET DOMAIN row /\ AtCut(row, sel) \in SUBSET DOMAIN row
         /\ IsFiniteSet(AboveCut(row, sel)) /\ IsFiniteSet(AtCut(row, sel))
<1>1. AboveCut(row, sel) \in SUBSET DOMAIN row /\ AtCut(row, sel) \in SUBSET DOMAIN row
  BY DEF AboveCut, AtCut
<1> QED
  BY <1>1, FloatRowIs, FS_Subset

LEMMA WritesAre ==
  ASSUME NEW row, IsRow(row), NEW sel, sel.want \in Nat, NEW A, NEW E, NEW Q,
         A = AboveCut(row, sel), E = AtCut(row, sel), A \cap E = {}, Q = Picked(A, E, sel.want)
  PROVE  UNION {Writes(row, sel, t) : t \in 0..Threads - 1} = {<<Rank(Q, b), b>> : b \in Q}
<1>0. PICK w \in Nat : w = sel.want
  OBVIOUS
<1>1. A \in SUBSET DOMAIN row /\ E \in SUBSET DOMAIN row /\ IsFiniteSet(A) /\ IsFiniteSet(E)
  BY CutSets
<1>2. A \in SUBSET Nat /\ E \in SUBSET Nat
  BY <1>1, FloatRowIs
<1>3. ASSUME NEW b \in Nat
      PROVE  /\ Rank(A, b) \in Nat /\ Rank(E, b) \in Nat
             /\ Rank(Q, b) = Rank(A, b) + Min({Rank(E, b), w})
             /\ Rank(E, b) < w => Rank(Q, b) = Rank(A, b) + Rank(E, b)
  <2>1. /\ Rank(A, b) \in Nat /\ Rank(E, b) \in Nat
        /\ Rank(Q, b) = Rank(A, b) + Min({Rank(E, b), w})
    BY <1>0, <1>1, <1>2, PickedRank
  <2>2. Min({Rank(E, b), w}) = IF Rank(E, b) <= w THEN Rank(E, b) ELSE w
    BY <2>1, MinOfTwo
  <2> QED
    BY <2>1, <2>2
<1> DEFINE fromA(t) == {<<Rank(A, b) + Min({Rank(E, b), w}), b>> : b \in A \cap RangeOf(row, t)}
           fromE(t) == {<<Rank(A, b) + Rank(E, b), b>> : b \in {c \in E \cap RangeOf(row, t) : Rank(E, c) < w}}
<1>4. ASSUME NEW t \in 0..Threads - 1 PROVE Writes(row, sel, t) = fromA(t) \cup fromE(t)
  <2>1. ASSUME NEW b \in RangeOf(row, t)
        PROVE  CountedBefore(A, row, t, b) = Rank(A, b) /\ CountedBefore(E, row, t, b) = Rank(E, b)
    BY <1>1, CountedBeforeIs
  <2>2. Writes(row, sel, t) =
          {<<CountedBefore(A, row, t, b) + Min({CountedBefore(E, row, t, b), w}), b>> : b \in A \cap RangeOf(row, t)}
          \cup {<<CountedBefore(A, row, t, b) + CountedBefore(E, row, t, b), b>> :
                  b \in {c \in E \cap RangeOf(row, t) : CountedBefore(E, row, t, c) < w}}
    BY <1>0 DEF Writes
  <2>3. {c \in E \cap RangeOf(row, t) : CountedBefore(E, row, t, c) < w} = {c \in E \cap RangeOf(row, t) : Rank(E, c) < w}
    BY <2>1
  <2>4. {<<CountedBefore(A, row, t, b) + Min({CountedBefore(E, row, t, b), w}), b>> : b \in A \cap RangeOf(row, t)} = fromA(t)
    BY <2>1
  <2>5. {<<CountedBefore(A, row, t, b) + CountedBefore(E, row, t, b), b>> :
           b \in {c \in E \cap RangeOf(row, t) : Rank(E, c) < w}} = fromE(t)
    BY <2>1
  <2> QED
    BY <2>2, <2>3, <2>4, <2>5
<1>5. ASSUME NEW b \in DOMAIN row PROVE \E t \in 0..Threads - 1 : b \in RangeOf(row, t)
  BY RangesAre
<1>6. ASSUME NEW z \in UNION {Writes(row, sel, t) : t \in 0..Threads - 1} PROVE \E b \in Q : z = <<Rank(Q, b), b>>
  <2>1. PICK t \in 0..Threads - 1 : z \in fromA(t) \cup fromE(t)
    BY <1>4, <1>6
  <2>2. CASE z \in fromA(t)
    <3>1. PICK b \in A : z = <<Rank(A, b) + Min({Rank(E, b), w}), b>>
      BY <2>2
    <3> QED
      BY <1>2, <1>3, <3>1 DEF Picked
  <2>3. CASE z \in fromE(t)
    <3>1. PICK b \in E : Rank(E, b) < w /\ z = <<Rank(A, b) + Rank(E, b), b>>
      BY <2>3
    <3> QED
      BY <1>0, <1>2, <1>3, <3>1 DEF Picked
  <2> QED
    BY <2>1, <2>2, <2>3
<1>7. ASSUME NEW b \in Q PROVE <<Rank(Q, b), b>> \in UNION {Writes(row, sel, t) : t \in 0..Threads - 1}
  <2>1. b \in A \/ (b \in E /\ Rank(E, b) < w)
    BY <1>0 DEF Picked
  <2>2. PICK t \in 0..Threads - 1 : b \in RangeOf(row, t)
    BY <1>1, <1>5, <2>1
  <2>3. <<Rank(Q, b), b>> \in fromA(t) \cup fromE(t)
    <3>1. CASE b \in A
      <4>1. <<Rank(Q, b), b>> \in fromA(t)
        BY <1>2, <1>3, <2>2, <3>1
      <4> QED
        BY <4>1
    <3>2. CASE b \in E /\ Rank(E, b) < w
      <4>1. <<Rank(Q, b), b>> \in fromE(t)
        BY <1>2, <1>3, <2>2, <3>2
      <4> QED
        BY <4>1
    <3> QED
      BY <2>1, <3>1, <3>2
  <2> QED
    BY <1>4, <2>3
<1> QED
  BY <1>6, <1>7

-----------------------------------------------------------------------------
(* Recurrences *)

LEMMA LeastOf ==
  ASSUME NEW T \in SUBSET Nat, T # {}
  PROVE  \E m \in T : \A i \in T : m <= i
<1>1. PICK m \in T : \A i \in T : <<i, m>> \notin OpToRel(<, Nat)
  BY Zenon, NatLessThanWellFounded, WFMin
<1>2. ASSUME NEW i \in T PROVE m <= i
  <2>1. <<i, m>> \in Nat \X Nat /\ m \in Nat /\ i \in Nat
    OBVIOUS
  <2> QED
    BY <1>1, <2>1 DEF OpToRel
<1> QED
  BY <1>2

LEMMA GreatestIs ==
  ASSUME NEW S \in SUBSET Nat, 0 \in S, NEW n \in Nat, \A y \in S : y <= n
  PROVE  Max(S) \in S /\ \A y \in S : Max(S) >= y
<1> DEFINE T == {m \in Nat : \A y \in S : y <= m}
<1>1. T \in SUBSET Nat /\ n \in T
  OBVIOUS
<1>2. PICK m \in T : \A i \in T : m <= i
  BY <1>1, LeastOf
<1>3. m \in Nat /\ \A y \in S : y <= m
  OBVIOUS
<1>4. m \in S
  <2>1. SUFFICES ASSUME m \notin S PROVE FALSE
    OBVIOUS
  <2>2. m # 0
    BY <2>1
  <2>3. \A y \in S : y <= m - 1
    <3>1. ASSUME NEW y \in S PROVE y <= m - 1
      <4>1. y \in Nat /\ y # m /\ y <= m
        BY <1>3, <2>1
      <4> QED
        BY <1>3, <4>1
    <3> QED
      BY <3>1
  <2>4. m - 1 \in T
    BY <1>3, <2>2, <2>3
  <2>5. m <= m - 1
    BY <1>2, <2>4
  <2> QED
    BY <1>3, <2>5
<1>5. \A y \in S : m >= y
  <2>1. ASSUME NEW y \in S PROVE m >= y
    <3>1. y \in Nat /\ y <= m
      BY <1>3
    <3> QED
      BY <1>3, <3>1
  <2> QED
    BY <2>1
<1> QED
  BY <1>4, <1>5 DEF Max

\* N steps, from x on; and what takes them
Steps(S, N, V, x) == N \in Nat /\ x \in V /\ S \in [1..N -> [V -> V]]
Takes(g, S, N, V, x) == g \in [0..N -> V] /\ g[0] = x /\ \A i \in 1..N : g[i] = S[i][g[i - 1]]
Within(h, S, N, V, x) == h[0] = x /\ \A i \in 1..N : h[i - 1] \in V => h[i] = S[i][h[i - 1]]

LEMMA Recurrence ==
  ASSUME NEW N, NEW V, NEW x, NEW S, Steps(S, N, V, x)
  PROVE  \E g : Takes(g, S, N, V, x)
<1>0. N \in Nat /\ x \in V /\ S \in [1..N -> [V -> V]]
  BY DEF Steps
<1> DEFINE Solved(n) == \E g \in [0..n -> V] : g[0] = x /\ \A i \in 1..n : g[i] = S[i][g[i - 1]]
           T == {n \in 0..N : ~Solved(n)}
<1>1. Solved(0)
  <2> DEFINE g == [i \in 0..0 |-> x]
  <2>1. g \in [0..0 -> V] /\ g[0] = x /\ \A i \in 1..0 : g[i] = S[i][g[i - 1]]
    BY <1>0
  <2> HIDE DEF g
  <2> QED
    BY <2>1
<1>2. ASSUME NEW n \in 1..N, Solved(n - 1) PROVE Solved(n)
  <2>1. PICK h \in [0..n - 1 -> V] : h[0] = x /\ \A i \in 1..n - 1 : h[i] = S[i][h[i - 1]]
    BY <1>2
  <2> DEFINE g == [i \in 0..n |-> IF i < n THEN h[i] ELSE S[n][h[n - 1]]]
  <2>2. h[n - 1] \in V /\ S[n] \in [V -> V]
    BY <1>0, <2>1
  <2>3. S[n][h[n - 1]] \in V
    BY <2>2
  <2>4. g \in [0..n -> V]
    <3>1. \A i \in 0..n : i < n => h[i] \in V
      BY <1>0, <2>1
    <3> QED
      BY <2>3, <3>1
  <2>5. g[0] = x
    BY <1>0, <2>1
  <2>6. ASSUME NEW i \in 1..n PROVE g[i] = S[i][g[i - 1]]
    <3>1. g[i - 1] = h[i - 1]
      BY <1>0
    <3>2. CASE i = n
      BY <3>1, <3>2
    <3>3. CASE i # n
      <4>1. i \in 1..n - 1 /\ g[i] = h[i]
        BY <1>0, <3>3
      <4> QED
        BY <2>1, <3>1, <4>1
    <3> QED
      BY <3>2, <3>3
  <2> HIDE DEF g
  <2> QED
    BY <2>4, <2>5, <2>6
<1>3. T = {}
  <2> HIDE DEF Solved
  <2>1. SUFFICES ASSUME T # {} PROVE FALSE
    OBVIOUS
  <2>2. PICK m \in T : \A i \in T : m <= i
    <3>1. T \in SUBSET Nat
      BY <1>0
    <3> QED
      BY <2>1, <3>1, LeastOf
  <2>3. m \in 0..N /\ ~Solved(m)
    OBVIOUS
  <2>4. m \in 1..N
    BY <1>0, <1>1, <2>3
  <2>5. m - 1 \in 0..N /\ ~(m <= m - 1)
    BY <1>0, <2>4
  <2>6. Solved(m - 1)
    BY <2>2, <2>5
  <2> QED
    BY <1>2, <2>3, <2>4, <2>6
<1> HIDE DEF Solved
<1>4. Solved(N)
  BY <1>0, <1>3
<1> QED
  BY <1>4 DEF Solved, Takes

\* There is but one.
LEMMA TakenOnce ==
  ASSUME NEW N, NEW V, NEW x, NEW S, NEW g, NEW h,
         Steps(S, N, V, x), Takes(g, S, N, V, x), Within(h, S, N, V, x)
  PROVE  \A i \in 0..N : h[i] = g[i]
<1>0. /\ N \in Nat /\ g \in [0..N -> V] /\ g[0] = x /\ \A i \in 1..N : g[i] = S[i][g[i - 1]]
      /\ h[0] = x /\ \A i \in 1..N : h[i - 1] \in V => h[i] = S[i][h[i - 1]]
  BY DEF Steps, Takes, Within
<1> DEFINE T == {i \in 0..N : h[i] # g[i]}
<1>1. SUFFICES ASSUME T # {} PROVE FALSE
  OBVIOUS
<1>2. PICK m \in T : \A i \in T : m <= i
  <2>1. T \in SUBSET Nat
    BY <1>0
  <2> QED
    BY <1>1, <2>1, LeastOf
<1>3. m \in 1..N
  BY <1>0
<1>4. m - 1 \in 0..N /\ ~(m <= m - 1)
  BY <1>0, <1>3
<1>5. h[m - 1] = g[m - 1] /\ g[m - 1] \in V
  BY <1>0, <1>2, <1>4
<1> QED
  BY <1>0, <1>3, <1>5

LEMMA PlaceIs ==
  /\ Place \in [0..Digits -> Nat \ {0}] /\ Place[0] = 1
  /\ \A i \in 1..Digits : Place[i] = Radix * Place[i - 1]
<1>0. Digits \in Nat \ {0} /\ Radix \in Nat \ {0}
  BY TopKAssumption
<1>1. PICK V : V = Nat \ {0}
  OBVIOUS
<1> DEFINE S == [i \in 1..Digits |-> [v \in V |-> Radix * v]]
<1>2. \A v \in V : Radix * v \in V
  BY <1>0, <1>1
<1>3. Steps(S, Digits, V, 1)
  BY <1>0, <1>1, <1>2 DEF Steps
<1>4. \A i \in 1..Digits : \A v \in V : S[i][v] = Radix * v
  OBVIOUS
<1> HIDE DEF S
<1>5. PICK g : Takes(g, S, Digits, V, 1)
  BY <1>3, Recurrence
<1>6. ASSUME NEW i \in 1..Digits PROVE g[i] = Radix * g[i - 1]
  <2>1. i - 1 \in 0..Digits
    BY <1>0
  <2>2. g[i - 1] \in V
    BY <1>5, <2>1 DEF Takes
  <2> QED
    BY <1>4, <1>5, <2>2 DEF Takes
<1>7. g = [i \in 0..Digits |-> IF i = 0 THEN 1 ELSE Radix * g[i - 1]]
  BY <1>0, <1>5, <1>6 DEF Takes
<1>8. Place = [i \in 0..Digits |-> IF i = 0 THEN 1 ELSE Radix * Place[i - 1]]
  BY <1>7 DEF Place
<1>9. Place[0] = 1 /\ \A i \in 1..Digits : Place[i] = Radix * Place[i - 1]
  BY <1>0, <1>8
<1>10. \A i \in 0..Digits : Place[i] = g[i]
  <2>1. Within(Place, S, Digits, V, 1)
    BY <1>4, <1>9 DEF Within
  <2> QED
    BY <1>3, <1>5, <2>1, TakenOnce
<1> QED
  BY <1>1, <1>5, <1>8, <1>9, <1>10 DEF Takes

-----------------------------------------------------------------------------
(* Keys *)

LEMMA SignIs == Sign \in Nat \ {0} /\ Place[Digits] = 2 * Sign
<1>0. Digits \in Nat \ {0} /\ Radix \in Nat \ {0} /\ Radix % 2 = 0
  BY TopKAssumption
<1>1. PICK p \in Nat \ {0} : p = Place[Digits - 1] /\ Place[Digits] = Radix * p
  <2>1. Digits - 1 \in 0..Digits /\ Digits \in 1..Digits
    BY <1>0
  <2> QED
    BY <2>1, PlaceIs
<1>2. PICK h \in Nat : Radix = 2 * h
  BY <1>0
<1>3. PICK s \in Nat : s = h * p
  BY <1>1, <1>2
<1>4. Place[Digits] = 2 * s
  BY <1>1, <1>2, <1>3
<1>5. Sign = s
  BY <1>3, <1>4 DEF Sign
<1>6. Place[Digits] \in Nat \ {0}
  <2>1. Digits \in 0..Digits
    BY <1>0
  <2> QED
    BY <2>1, PlaceIs
<1> QED
  BY <1>3, <1>4, <1>5, <1>6

\* The keys have the order of the floats.
LEMMA KeysAre ==
  ASSUME NEW f \in Floats, NEW g \in Floats
  PROVE  /\ order_key(f) \in Nat /\ order_key(f) < Place[Digits] /\ order_key(g) \in Nat
         /\ ValueOf(f) > ValueOf(g) <=> order_key(f) > order_key(g)
         /\ ValueOf(f) = ValueOf(g) <=> order_key(f) = order_key(g)
<1>1. PICK s \in Nat \ {0} : s = Sign /\ Place[Digits] = 2 * s
  BY SignIs
<1>2. f \in 0..2 * s - 1 /\ g \in 0..2 * s - 1 /\ f # s /\ g # s
  BY <1>1 DEF Floats
<1>3. /\ order_key(f) = (IF f >= s THEN 2 * s - 1 - f ELSE f + s) /\ order_key(g) = (IF g >= s THEN 2 * s - 1 - g ELSE g + s)
      /\ ValueOf(f) = (IF f < s THEN f ELSE s - f) /\ ValueOf(g) = (IF g < s THEN g ELSE s - g)
  BY <1>1 DEF order_key, ValueOf
<1> QED
  BY <1>1, <1>2, <1>3

\* The first equal ones of the keys at the cut, and all above it, are the K largest.
LEMMA PickedLargest ==
  ASSUME NEW row, IsRow(row), NEW sel, NEW k \in Nat, sel.prefix \in Nat, sel.want \in Nat,
         Cardinality(AboveCut(row, sel)) + sel.want = k, sel.want <= Cardinality(AtCut(row, sel))
  PROVE  Picked(AboveCut(row, sel), AtCut(row, sel), sel.want) = Largest(row, k)
<1> DEFINE A == AboveCut(row, sel)
           E == AtCut(row, sel)
           ahead(b) == {c \in DOMAIN row : Ahead(row, c, b)}
<1>0. PICK p \in Nat, w \in Nat : p = sel.prefix /\ w = sel.want
  OBVIOUS
<1>1. /\ A \in SUBSET DOMAIN row /\ E \in SUBSET DOMAIN row /\ IsFiniteSet(A) /\ IsFiniteSet(E)
      /\ IsFiniteSet(DOMAIN row) /\ DOMAIN row \in SUBSET Nat /\ A \cap E = {}
  <2>1. A \cap E = {}
    <3>1. SUFFICES ASSUME NEW b \in A \cap E PROVE FALSE
      OBVIOUS
    <3>2. order_key(row[b]) > p /\ order_key(row[b]) = p
      BY <1>0 DEF AboveCut, AtCut
    <3> QED
      BY <3>2
  <2> QED
    BY <2>1, CutSets, FloatRowIs
<1>2. PICK a \in Nat, e \in Nat : a = Cardinality(A) /\ e = Cardinality(E) /\ a + w = k /\ w <= e
  <2>1. Cardinality(A) \in Nat /\ Cardinality(E) \in Nat
    BY <1>1, FS_CardinalityType
  <2> QED
    BY <1>0, <2>1
<1>3. ASSUME NEW b \in DOMAIN row
      PROVE  order_key(row[b]) \in Nat /\ (b \in A <=> order_key(row[b]) > p) /\ (b \in E <=> order_key(row[b]) = p)
  <2>1. row[b] \in Floats
    BY FloatRowIs
  <2> QED
    BY <1>0, <2>1, KeysAre DEF AboveCut, AtCut
<1>4. ASSUME NEW b \in DOMAIN row, NEW c \in DOMAIN row
      PROVE  Ahead(row, c, b) <=> \/ order_key(row[c]) > order_key(row[b])
                                  \/ order_key(row[c]) = order_key(row[b]) /\ c < b
  <2>1. row[b] \in Floats /\ row[c] \in Floats
    BY FloatRowIs
  <2> QED
    BY <2>1, KeysAre DEF Ahead
<1>5. ASSUME NEW b \in DOMAIN row PROVE IsFiniteSet(ahead(b)) /\ Cardinality(ahead(b)) \in Nat
  <2>1. ahead(b) \in SUBSET DOMAIN row
    OBVIOUS
  <2> QED
    BY <1>1, <2>1, FS_Subset, FS_CardinalityType
<1> HIDE DEF A, E
<1>6. ASSUME NEW b \in A PROVE Cardinality(ahead(b)) < k
  <2>1. ahead(b) \in SUBSET (A \ {b})
    <3>1. SUFFICES ASSUME NEW c \in ahead(b) PROVE c \in A /\ c # b
      OBVIOUS
    <3>2. b \in DOMAIN row /\ c \in DOMAIN row /\ b \in Nat /\ c \in Nat
      BY <1>1
    <3> QED
      BY <1>3, <1>4, <3>2
  <2>2. IsFiniteSet(A \ {b}) /\ Cardinality(A \ {b}) = a - 1
    BY <1>1, <1>2, FS_RemoveElement
  <2>3. b \in DOMAIN row
    BY <1>1
  <2> HIDE DEF ahead
  <2>4. Cardinality(ahead(b)) <= a - 1
    BY <2>1, <2>2, FS_Subset
  <2> QED
    BY <1>2, <1>5, <2>3, <2>4
<1>7. ASSUME NEW b \in E PROVE Cardinality(ahead(b)) < k <=> Rank(E, b) < w
  <2> DEFINE low == {c \in E : c < b}
  <2>1. ahead(b) = A \cup low
    <3>1. b \in DOMAIN row
      BY <1>1
    <3>2. ASSUME NEW c \in DOMAIN row PROVE c \in ahead(b) <=> c \in A \cup low
      BY <1>3, <1>4, <3>1
    <3>3. A \cup low \subseteq DOMAIN row
      BY <1>1
    <3> QED
      BY <3>2, <3>3
  <2>2. low \in SUBSET E /\ A \cap low = {}
    BY <1>1
  <2>3. Rank(E, b) = Cardinality(low)
    BY DEF Rank
  <2> HIDE DEF ahead, low
  <2>4. IsFiniteSet(low) /\ Cardinality(low) \in Nat
    BY <1>1, <2>2, FS_Subset, FS_CardinalityType
  <2>5. Cardinality(A \cup low) = Cardinality(A) + Cardinality(low) - Cardinality(A \cap low)
    BY <1>1, <2>4, FS_Union
  <2>6. Cardinality(A \cap low) = 0
    BY <2>2, FS_EmptySet
  <2>7. Cardinality(ahead(b)) = a + Cardinality(low)
    BY <1>2, <2>1, <2>4, <2>5, <2>6
  <2> QED
    BY <1>2, <2>3, <2>4, <2>7
<1>8. ASSUME NEW b \in DOMAIN row, b \notin A, b \notin E PROVE ~(Cardinality(ahead(b)) < k)
  <2>1. A \cup E \in SUBSET ahead(b)
    <3>1. SUFFICES ASSUME NEW c \in A \cup E PROVE c \in ahead(b)
      OBVIOUS
    <3>2. c \in DOMAIN row
      BY <1>1
    <3> QED
      BY <1>3, <1>4, <1>8, <3>2
  <2> HIDE DEF ahead
  <2>2. Cardinality(A \cup E) = Cardinality(A) + Cardinality(E) - Cardinality(A \cap E)
    BY <1>1, FS_Union
  <2>3. Cardinality(A \cap E) = 0
    BY <1>1, FS_EmptySet
  <2>4. Cardinality(A \cup E) = a + e
    BY <1>2, <2>2, <2>3
  <2>5. Cardinality(A \cup E) <= Cardinality(ahead(b))
    BY <1>5, <2>1, FS_Subset
  <2> QED
    BY <1>2, <1>5, <2>4, <2>5
<1>9. Largest(row, k) = {b \in DOMAIN row : Cardinality(ahead(b)) < k}
  BY DEF Largest
<1>10. Picked(A, E, w) = {b \in DOMAIN row : Cardinality(ahead(b)) < k}
  <2> HIDE DEF ahead
  <2>1. ASSUME NEW b \in DOMAIN row PROVE b \in Picked(A, E, w) <=> Cardinality(ahead(b)) < k
    <3>1. b \in Picked(A, E, w) <=> b \in A \/ (b \in E /\ Rank(E, b) < w)
      BY DEF Picked
    <3> QED
      BY <1>1, <1>6, <1>7, <1>8, <3>1
  <2>2. Picked(A, E, w) \subseteq DOMAIN row
    BY <1>1 DEF Picked
  <2> QED
    BY <2>1, <2>2
<1> QED
  BY <1>0, <1>9, <1>10 DEF A, E

-----------------------------------------------------------------------------
(* The radix select *)

LEMMA QuotientTwice ==
  ASSUME NEW x \in Nat, NEW p \in Nat \ {0}, NEW r \in Nat \ {0}
  PROVE  x \div (r * p) = (x \div p) \div r
<1>1. PICK y \in Nat : y = x \div p /\ p * y <= x /\ x < p * y + p
  BY QuotientIs
<1>2. PICK z \in Nat, l \in Nat : z = y \div r /\ l = r * z /\ l <= y /\ y < l + r
  BY QuotientWith
<1>3. PICK m \in Nat \ {0} : m = r * p /\ m = p * r
  OBVIOUS
<1>4. p * l <= p * y /\ p * (y + 1) <= p * (l + r)
  <2>1. l \in Nat /\ y \in Nat /\ l <= y /\ y + 1 \in Nat /\ l + r \in Nat /\ y + 1 <= l + r
    BY <1>1, <1>2
  <2> QED
    BY <2>1, ProductGrows
<1>5. PICK a \in Nat : a = p * l
  BY <1>2
<1>6. p * (y + 1) = p * y + p /\ p * (l + r) = a + m
  BY <1>1, <1>2, <1>3, <1>5
<1>7. a = m * z
  <2>1. a = p * (r * z)
    BY <1>2, <1>5
  <2>2. p * (r * z) = (p * r) * z
    BY <1>2
  <2> QED
    BY <1>3, <2>1, <2>2
<1>8. PICK b \in Nat : b = p * y /\ b <= x /\ x < b + p
  BY <1>1
<1>9. a <= x /\ x < a + m
  BY <1>3, <1>4, <1>5, <1>6, <1>8
<1>10. x \div m = z
  BY <1>3, <1>7, <1>9, QuotientOf
<1> QED
  BY <1>1, <1>2, <1>3, <1>10

\* The key's top digits.
TopOf(row, b, digits) == order_key(row[b]) \div Place[Digits - digits]

LEMMA DigitIs ==
  ASSUME NEW row, IsRow(row), NEW b \in DOMAIN row, NEW j \in 0..Digits - 1
  PROVE  /\ TopOf(row, b, j) \in Nat /\ TopOf(row, b, j + 1) \in Nat
         /\ \E e \in 0..Radix - 1 : TopOf(row, b, j + 1) = TopOf(row, b, j) * Radix + e
<1>0. Digits \in Nat \ {0} /\ Radix \in Nat \ {0}
  BY TopKAssumption
<1>1. PICK x \in Nat : x = order_key(row[b])
  BY FloatRowIs, KeysAre
<1>2. PICK p \in Nat \ {0} : p = Place[Digits - (j + 1)] /\ Place[Digits - j] = Radix * p
  <2>1. Digits - j \in 1..Digits /\ Digits - (j + 1) \in 0..Digits /\ (Digits - j) - 1 = Digits - (j + 1)
    BY <1>0
  <2> QED
    BY <2>1, PlaceIs
<1>3. PICK y \in Nat : y = x \div p /\ TopOf(row, b, j + 1) = y
  BY <1>1, <1>2, QuotientIs DEF TopOf
<1>4. PICK z \in Nat, l \in Nat : z = y \div Radix /\ l = z * Radix /\ l <= y /\ y < l + Radix
  BY <1>0, QuotientWith
<1>5. TopOf(row, b, j) = z
  BY <1>0, <1>1, <1>2, <1>3, <1>4, QuotientTwice DEF TopOf
<1>6. y - l \in 0..Radix - 1 /\ y = z * Radix + (y - l)
  BY <1>0, <1>4
<1> QED
  BY <1>3, <1>5, <1>6

\* What is selected from the top j digits: the keys above the prefix are in, as are want of those with it.
CutAt(row, j, sel, k) ==
  /\ sel \in [prefix : Nat, want : Nat \ {0}]
  /\ Cardinality({b \in DOMAIN row : TopOf(row, b, j) > sel.prefix}) + sel.want = k
  /\ sel.want <= Cardinality({b \in DOMAIN row : TopOf(row, b, j) = sel.prefix})

\* A bin of the histogram that is found: it reaches what is wanted, and those above it do not.
LEMMA DigitFound ==
  ASSUME NEW row, IsRow(row), NEW j, NEW sel
  PROVE  /\ DigitOf(row, j, sel) \in 0..Radix - 1
         /\ DigitOf(row, j, sel) # 0 => AtLeast(row, j, sel.prefix, DigitOf(row, j, sel)) >= sel.want
         /\ \A d \in 1..Radix - 1 : AtLeast(row, j, sel.prefix, d) >= sel.want => d <= DigitOf(row, j, sel)
<1> DEFINE S == {0} \cup {d \in 1..Radix - 1 : AtLeast(row, j, sel.prefix, d) >= sel.want}
<1>0. Radix \in Nat \ {0}
  BY TopKAssumption
<1>1. S \in SUBSET Nat /\ 0 \in S /\ Radix \in Nat /\ \A y \in S : y <= Radix
  BY <1>0
<1>2. Max(S) \in S /\ \A y \in S : Max(S) >= y
  <2> HIDE DEF S
  <2> QED
    BY <1>1, GreatestIs
<1>3. DigitOf(row, j, sel) = Max(S)
  BY DEF DigitOf
<1>4. PICK m : m = Max(S)
  OBVIOUS
<1>5. m \in S /\ \A y \in S : m >= y
  BY <1>2, <1>4
<1>6. m \in 0..Radix - 1 /\ (m # 0 => AtLeast(row, j, sel.prefix, m) >= sel.want)
  BY <1>0, <1>5
<1>7. \A d \in 1..Radix - 1 : AtLeast(row, j, sel.prefix, d) >= sel.want => d <= m
  BY <1>0, <1>5, <1>6
<1> QED
  BY <1>3, <1>4, <1>6, <1>7

LEMMA AtLeastIs ==
  ASSUME NEW row, IsRow(row), NEW j, NEW p, NEW d
  PROVE  AtLeast(row, j, p, d) \in Nat
<1>1. {b \in DOMAIN row : \E e \in d..Radix - 1 : Holds(row, b, j + 1, p * Radix + e)} \in SUBSET DOMAIN row
  OBVIOUS
<1>2. IsFiniteSet(DOMAIN row)
  BY FloatRowIs
<1> QED
  BY <1>1, <1>2, FS_Subset, FS_CardinalityType DEF AtLeast

LEMMA DigitsCompare ==
  ASSUME NEW z \in Nat, NEW p \in Nat, NEW r \in Nat \ {0}, NEW e \in 0..r - 1, NEW y, y = z * r + e
  PROVE  /\ p * r \in Nat /\ y \in Nat
         /\ z > p => y >= p * r + r
         /\ z < p => y < p * r
         /\ z = p => y = p * r + e
<1>1. PICK a \in Nat, c \in Nat : a = r * p /\ a = p * r /\ c = r * z /\ c = z * r
  OBVIOUS
<1>2. ASSUME z > p PROVE c >= a + r
  <2>1. r * (p + 1) <= r * z
    BY <1>2, ProductGrows
  <2> QED
    BY <1>1, <2>1, ProductNext
<1>3. ASSUME z < p PROVE c + r <= a
  <2>1. r * (z + 1) <= r * p
    BY <1>3, ProductGrows
  <2> QED
    BY <1>1, <2>1, ProductNext
<1>4. e \in Nat /\ e < r /\ y = c + e
  BY <1>1
<1>5. y \in Nat /\ (z > p => y >= a + r) /\ (z < p => y < a) /\ (z = p => y = a + e)
  BY <1>1, <1>2, <1>3, <1>4
<1> QED
  BY <1>1, <1>5

LEMMA CutNext ==
  ASSUME NEW row, IsRow(row), NEW j \in 0..Digits - 1, NEW k \in Nat, NEW sel, CutAt(row, j, sel, k)
  PROVE  CutAt(row, j + 1, NextDigit(row, j, sel), k)
<1>0. Radix \in Nat \ {0} /\ IsFiniteSet(DOMAIN row)
  BY TopKAssumption, FloatRowIs
<1>1. PICK p \in Nat, w \in Nat \ {0} : p = sel.prefix /\ w = sel.want
  BY DEF CutAt
<1>2. PICK d \in 0..Radix - 1 : d = DigitOf(row, j, sel)
  BY DigitFound
<1>3. PICK q \in Nat : q = p * Radix /\ q + d = p * Radix + d
  BY <1>0
<1> DEFINE Ge(c)   == {b \in DOMAIN row : \E e \in c..Radix - 1 : Holds(row, b, j + 1, p * Radix + e)}
           high    == {b \in DOMAIN row : TopOf(row, b, j) > p}
           same    == {b \in DOMAIN row : TopOf(row, b, j) = p}
           higher  == {b \in DOMAIN row : TopOf(row, b, j + 1) > q + d}
           here    == {b \in DOMAIN row : TopOf(row, b, j + 1) = q + d}
<1>4. \A c : AtLeast(row, j, p, c) = Cardinality(Ge(c)) /\ AtLeast(row, j, p, c) \in Nat
  <2>1. \A c : AtLeast(row, j, p, c) \in Nat
    BY AtLeastIs
  <2>2. \A c : AtLeast(row, j, p, c) = Cardinality(Ge(c))
    BY DEF AtLeast
  <2> QED
    BY <2>1, <2>2
<1>5. ASSUME NEW b \in DOMAIN row
      PROVE  /\ \A c \in Nat : b \in Ge(c) <=> b \in same /\ TopOf(row, b, j + 1) >= q + c
             /\ b \in higher <=> b \in high \/ b \in Ge(d + 1)
             /\ ~(b \in high /\ b \in Ge(d + 1))
             /\ b \in same <=> b \in Ge(0)
             /\ b \in Ge(d) <=> b \in Ge(d + 1) \/ b \in here
             /\ ~(b \in Ge(d + 1) /\ b \in here)
  <2>1. PICK y \in Nat, z \in Nat, e \in 0..Radix - 1 :
          y = TopOf(row, b, j + 1) /\ z = TopOf(row, b, j) /\ y = z * Radix + e
    BY DigitIs
  <2>2. (z > p => y >= q + Radix) /\ (z < p => y < q) /\ (z = p => y = q + e)
    BY <1>0, <1>3, <2>1, DigitsCompare
  <2>3. \A c \in Nat : b \in Ge(c) <=> \E i \in c..Radix - 1 : y = q + i
    BY <1>3, <2>1 DEF Holds, TopOf
  <2>4. ASSUME NEW c \in Nat PROVE b \in Ge(c) <=> z = p /\ y >= q + c
    <3>1. ASSUME b \in Ge(c) PROVE z = p /\ y >= q + c
      <4>1. PICK i \in c..Radix - 1 : y = q + i
        BY <2>3, <3>1
      <4> QED
        BY <1>0, <1>3, <2>1, <2>2, <4>1
    <3>2. ASSUME z = p, y >= q + c PROVE b \in Ge(c)
      <4>1. e \in c..Radix - 1 /\ y = q + e
        BY <1>0, <1>3, <2>1, <2>2, <3>2
      <4> QED
        BY <2>3, <4>1
    <3> QED
      BY <3>1, <3>2
  <2>5. (b \in high <=> z > p) /\ (b \in same <=> z = p) /\ (b \in higher <=> y > q + d) /\ (b \in here <=> y = q + d)
    BY <2>1
  <2> HIDE DEF Ge, high, same, higher, here
  <2>6. d \in Nat /\ d < Radix /\ d + 1 \in Nat /\ q + (d + 1) = q + d + 1 /\ q + 0 = q
    BY <1>0, <1>3
  <2>7. b \in higher <=> b \in high \/ b \in Ge(d + 1)
    <3>1. b \in Ge(d + 1) <=> z = p /\ y >= q + d + 1
      BY <2>4, <2>6
    <3> QED
      BY <1>0, <1>3, <2>1, <2>2, <2>5, <2>6, <3>1
  <2>8. ~(b \in high /\ b \in Ge(d + 1))
    BY <2>1, <2>4, <2>5, <2>6
  <2>9. b \in same <=> b \in Ge(0)
    BY <1>0, <1>3, <2>1, <2>2, <2>4, <2>5
  <2>10. b \in Ge(d) <=> z = p /\ y >= q + d
    BY <2>4, <2>6
  <2>11. b \in Ge(d + 1) <=> z = p /\ y >= q + d + 1
    BY <2>4, <2>6
  <2>12. b \in here => z = p
    BY <1>0, <1>3, <2>1, <2>2, <2>5, <2>6
  <2>13. b \in Ge(d) <=> b \in Ge(d + 1) \/ b \in here
    BY <1>3, <2>1, <2>5, <2>6, <2>10, <2>11, <2>12
  <2>14. ~(b \in Ge(d + 1) /\ b \in here)
    BY <1>3, <2>1, <2>5, <2>6, <2>11
  <2> QED
    BY <2>1, <2>4, <2>5, <2>7, <2>8, <2>9, <2>13, <2>14
<1>6. /\ \A c : Ge(c) \in SUBSET DOMAIN row
      /\ {high, same, higher, here} \subseteq SUBSET DOMAIN row
  OBVIOUS
<1>7. Cardinality(high) + w = k /\ w <= Cardinality(same)
  BY <1>1 DEF CutAt
<1> HIDE DEF Ge, high, same, higher, here
<1>8. ASSUME NEW S \in SUBSET DOMAIN row PROVE IsFiniteSet(S) /\ Cardinality(S) \in Nat
  BY <1>0, FS_Subset, FS_CardinalityType
<1>9. higher = high \cup Ge(d + 1) /\ high \cap Ge(d + 1) = {} /\ same = Ge(0)
      /\ Ge(d) = Ge(d + 1) \cup here /\ Ge(d + 1) \cap here = {}
  BY <1>5, <1>6
<1>10. PICK above \in Nat, beyond \in Nat, among \in Nat :
         above = Cardinality(high) /\ beyond = Cardinality(Ge(d + 1)) /\ among = Cardinality(here)
  BY <1>6, <1>8
<1>11. Cardinality(higher) = above + beyond
  <2>1. Cardinality(high \cup Ge(d + 1)) = Cardinality(high) + Cardinality(Ge(d + 1)) - Cardinality(high \cap Ge(d + 1))
    BY <1>6, <1>8, FS_Union
  <2>2. Cardinality(high \cap Ge(d + 1)) = 0
    BY <1>9, FS_EmptySet
  <2>3. Cardinality(high \cup Ge(d + 1)) = above + beyond
    BY <1>10, <2>1, <2>2
  <2> QED
    BY <1>9, <2>3
<1>12. Cardinality(Ge(d)) = beyond + among
  <2>1. Cardinality(Ge(d + 1) \cup here) = Cardinality(Ge(d + 1)) + Cardinality(here) - Cardinality(Ge(d + 1) \cap here)
    BY <1>6, <1>8, FS_Union
  <2>2. Cardinality(Ge(d + 1) \cap here) = 0
    BY <1>9, FS_EmptySet
  <2>3. Cardinality(Ge(d + 1) \cup here) = beyond + among
    BY <1>10, <2>1, <2>2
  <2> QED
    BY <1>9, <2>3
\* the bin is reached
<1>13. w <= beyond + among
  <2>1. CASE d = 0
    BY <1>7, <1>9, <1>12, <2>1
  <2>2. CASE d # 0
    <3>1. AtLeast(row, j, p, d) >= w
      BY <1>1, <1>2, <2>2, DigitFound
    <3> QED
      BY <1>4, <1>12, <3>1
  <2> QED
    BY <2>1, <2>2
\* those above it are not
<1>14. beyond < w
  <2>1. CASE d = Radix - 1
    <3>1. d + 1..Radix - 1 = {}
      BY <1>0, <2>1
    <3>2. Ge(d + 1) = {}
      BY <3>1 DEF Ge
    <3>3. Cardinality(Ge(d + 1)) = 0
      BY <3>2, FS_EmptySet
    <3> QED
      BY <1>1, <1>10, <3>3
  <2>2. CASE d # Radix - 1
    <3>1. d + 1 \in 1..Radix - 1 /\ ~(d + 1 <= d)
      BY <1>0, <2>2
    <3>2. ~(AtLeast(row, j, p, d + 1) >= w)
      BY <1>1, <1>2, <3>1, DigitFound
    <3>3. AtLeast(row, j, p, d + 1) = beyond
      BY <1>4, <1>10
    <3> QED
      BY <1>1, <1>10, <3>2, <3>3
  <2> QED
    BY <2>1, <2>2
<1>15. PICK new : new = NextDigit(row, j, sel)
  OBVIOUS
<1>16. new = [prefix |-> q + d, want |-> w - beyond]
  BY <1>1, <1>2, <1>3, <1>4, <1>10, <1>15 DEF NextDigit
<1>17. q + d \in Nat /\ w - beyond \in Nat \ {0}
  BY <1>1, <1>3, <1>10, <1>14
<1>18. new.prefix = q + d /\ new.want = w - beyond /\ new \in [prefix : Nat, want : Nat \ {0}]
  BY <1>16, <1>17
<1>19. Cardinality(higher) + new.want = k
  BY <1>1, <1>7, <1>10, <1>11, <1>18
<1>20. new.want <= Cardinality(here)
  BY <1>1, <1>10, <1>13, <1>18
<1> QED
  BY <1>15, <1>18, <1>19, <1>20 DEF CutAt, higher, here

\* After every digit the K largest are those above the prefix and some of those with it.
LEMMA SelectedIs ==
  ASSUME NEW row, IsRow(row), NEW k \in 1..Cardinality(DOMAIN row)
  PROVE  /\ Selected(row, k).prefix \in Nat /\ Selected(row, k).want \in Nat
         /\ Cardinality(AboveCut(row, Selected(row, k))) + Selected(row, k).want = k
         /\ Selected(row, k).want <= Cardinality(AtCut(row, Selected(row, k)))
<1>0. Digits \in Nat \ {0} /\ Radix \in Nat \ {0}
  BY TopKAssumption
<1>1. PICK n \in Nat \ {0} : n = Cardinality(DOMAIN row) /\ k \in 1..n
  BY FloatRowIs
<1>2. PICK V : V = [prefix : Nat, want : Int]
  OBVIOUS
<1> DEFINE x == [prefix |-> 0, want |-> k]
           S == [i \in 1..Digits |-> [v \in V |-> NextDigit(row, i - 1, v)]]
<1>3. ASSUME NEW i \in 1..Digits, NEW v \in V PROVE NextDigit(row, i - 1, v) \in V
  <2>1. PICK p \in Nat, w \in Int : p = v.prefix /\ w = v.want
    BY <1>2
  <2>2. PICK d \in Nat : d = DigitOf(row, i - 1, v)
    BY DigitFound
  <2>3. PICK a \in Nat : a = AtLeast(row, i - 1, p, d + 1)
    BY AtLeastIs
  <2>4. NextDigit(row, i - 1, v) = [prefix |-> p * Radix + d, want |-> w - a]
    BY <2>1, <2>2, <2>3 DEF NextDigit
  <2>5. p * Radix + d \in Nat /\ w - a \in Int
    BY <1>0
  <2> QED
    BY <1>2, <2>4, <2>5
<1>4. x \in V
  BY <1>1, <1>2
<1>5. Steps(S, Digits, V, x)
  BY <1>0, <1>3, <1>4 DEF Steps
<1>6. \A i \in 1..Digits : \A v \in V : S[i][v] = NextDigit(row, i - 1, v)
  OBVIOUS
<1> HIDE DEF S, x
<1>7. PICK g : Takes(g, S, Digits, V, x)
  BY <1>5, Recurrence
<1>8. g \in [0..Digits -> V] /\ g[0] = x /\ \A i \in 1..Digits : g[i] = NextDigit(row, i - 1, g[i - 1])
  <2>1. g \in [0..Digits -> V] /\ g[0] = x /\ \A i \in 1..Digits : g[i] = S[i][g[i - 1]]
    BY <1>7 DEF Takes
  <2>2. \A i \in 1..Digits : g[i - 1] \in V
    BY <1>0, <2>1
  <2> QED
    BY <1>6, <2>1, <2>2
<1> DEFINE after == CHOOSE f : f = [i \in 0..Digits |-> IF i = 0 THEN [prefix |-> 0, want |-> k] ELSE NextDigit(row, i - 1, f[i - 1])]
<1>9. g = [i \in 0..Digits |-> IF i = 0 THEN [prefix |-> 0, want |-> k] ELSE NextDigit(row, i - 1, g[i - 1])]
  BY <1>0, <1>8 DEF x
<1>10. Selected(row, k) = after[Digits]
  BY DEF Selected
<1>11. after = [i \in 0..Digits |-> IF i = 0 THEN [prefix |-> 0, want |-> k] ELSE NextDigit(row, i - 1, after[i - 1])]
  BY <1>9
<1> HIDE DEF after
<1>12. after[0] = [prefix |-> 0, want |-> k] /\ \A i \in 1..Digits : after[i] = NextDigit(row, i - 1, after[i - 1])
  BY <1>0, <1>11
<1>13. \A i \in 0..Digits : CutAt(row, i, after[i], k)
  <2> DEFINE T == {i \in 0..Digits : ~CutAt(row, i, after[i], k)}
  <2>1. SUFFICES ASSUME T # {} PROVE FALSE
    OBVIOUS
  <2>2. PICK m \in T : \A i \in T : m <= i
    <3>1. T \in SUBSET Nat
      BY <1>0
    <3> QED
      BY <2>1, <3>1, LeastOf
  <2>3. CutAt(row, 0, after[0], k)
    <3>1. ASSUME NEW b \in DOMAIN row PROVE TopOf(row, b, 0) = 0
      <4>1. row[b] \in Floats
        BY FloatRowIs
      <4>2. PICK y \in Nat, s \in Nat \ {0} : y = order_key(row[b]) /\ s = Place[Digits] /\ y < s
        BY <4>1, KeysAre, SignIs
      <4>3. y \div s = 0
        BY <4>2, QuotientOf
      <4> QED
        BY <1>0, <4>2, <4>3 DEF TopOf
    <3>2. {b \in DOMAIN row : TopOf(row, b, 0) > 0} = {} /\ {b \in DOMAIN row : TopOf(row, b, 0) = 0} = DOMAIN row
      BY <3>1
    <3>3. Cardinality({b \in DOMAIN row : TopOf(row, b, 0) > 0}) = 0
          /\ Cardinality({b \in DOMAIN row : TopOf(row, b, 0) = 0}) = n
      BY <1>1, <3>2, FS_EmptySet
    <3>4. k \in Nat \ {0} /\ k <= n
      BY <1>1
    <3>5. after[0].prefix = 0 /\ after[0].want = k /\ after[0] \in [prefix : Nat, want : Nat \ {0}]
      BY <1>12, <3>4
    <3> QED
      BY <3>3, <3>4, <3>5 DEF CutAt
  <2>4. m \in 0..Digits /\ ~CutAt(row, m, after[m], k)
    OBVIOUS
  <2>5. m \in 1..Digits
    BY <1>0, <2>3, <2>4
  <2>6. m - 1 \in 0..Digits - 1 /\ m - 1 \in 0..Digits /\ ~(m <= m - 1) /\ (m - 1) + 1 = m
    BY <1>0, <2>5
  <2>7. CutAt(row, m - 1, after[m - 1], k)
    BY <2>2, <2>6
  <2>8. CutAt(row, m, NextDigit(row, m - 1, after[m - 1]), k)
    <3>1. k \in Nat
      BY <1>1
    <3>2. CutAt(row, (m - 1) + 1, NextDigit(row, m - 1, after[m - 1]), k)
      BY <2>6, <2>7, <3>1, CutNext
    <3> QED
      BY <2>6, <3>2
  <2> QED
    BY <1>12, <2>4, <2>5, <2>8
<1>14. CutAt(row, Digits, Selected(row, k), k)
  BY <1>0, <1>10, <1>13
<1>15. ASSUME NEW b \in DOMAIN row PROVE TopOf(row, b, Digits) = order_key(row[b])
  <2>1. row[b] \in Floats
    BY FloatRowIs
  <2>2. PICK y \in Nat : y = order_key(row[b])
    BY <2>1, KeysAre
  <2>3. y \div 1 = y
    BY <2>2
  <2>4. Place[Digits - Digits] = 1
    BY <1>0, PlaceIs
  <2> QED
    BY <2>2, <2>3, <2>4 DEF TopOf
<1>16. /\ AboveCut(row, Selected(row, k)) = {b \in DOMAIN row : TopOf(row, b, Digits) > Selected(row, k).prefix}
       /\ AtCut(row, Selected(row, k)) = {b \in DOMAIN row : TopOf(row, b, Digits) = Selected(row, k).prefix}
  BY <1>15 DEF AboveCut, AtCut
<1> QED
  BY <1>14, <1>16 DEF CutAt

-----------------------------------------------------------------------------
(* What the block writes *)

LEMMA TopKWrites ==
  ASSUME NEW row, IsRow(row), NEW k \in 1..Cardinality(DOMAIN row)
  PROVE  /\ Largest(row, k) \in SUBSET DOMAIN row /\ IsFiniteSet(Largest(row, k)) /\ Cardinality(Largest(row, k)) = k
         /\ topk_rows(row, k) = {<<Rank(Largest(row, k), b), b>> : b \in Largest(row, k)}
<1>1. PICK sel : sel = Selected(row, k)
  OBVIOUS
<1> DEFINE A == AboveCut(row, sel)
           E == AtCut(row, sel)
           Q == Largest(row, k)
<1>2. /\ sel.prefix \in Nat /\ sel.want \in Nat /\ Cardinality(A) + sel.want = k
      /\ sel.want <= Cardinality(E)
  BY <1>1, SelectedIs
<1>3. k \in Nat
  BY FloatRowIs
<1>4. Picked(A, E, sel.want) = Q
  BY <1>2, <1>3, PickedLargest
<1>5. /\ A \in SUBSET DOMAIN row /\ E \in SUBSET DOMAIN row /\ IsFiniteSet(A) /\ IsFiniteSet(E)
      /\ A \in SUBSET Nat /\ E \in SUBSET Nat
  BY CutSets, FloatRowIs
<1>6. A \cap E = {}
  <2>1. SUFFICES ASSUME NEW b \in A \cap E PROVE FALSE
    OBVIOUS
  <2>2. order_key(row[b]) > sel.prefix /\ order_key(row[b]) = sel.prefix
    BY DEF AboveCut, AtCut
  <2> QED
    BY <1>2, <2>2
<1> HIDE DEF A, E, Q
<1>7. IsFiniteSet(Q) /\ Cardinality(Q) = k
  <2>1. /\ IsFiniteSet(Q) /\ Cardinality(A) \in Nat /\ Cardinality(E) \in Nat
        /\ Cardinality(Q) = Cardinality(A) + (IF sel.want <= Cardinality(E) THEN sel.want ELSE Cardinality(E))
    BY <1>2, <1>4, <1>5, <1>6, PickedSize
  <2> QED
    BY <1>2, <2>1
<1>8. Q \in SUBSET DOMAIN row
  BY <1>4, <1>5 DEF Picked
<1>9. UNION {Writes(row, sel, t) : t \in 0..Threads - 1} = {<<Rank(Q, b), b>> : b \in Q}
  BY <1>2, <1>4, <1>6, WritesAre DEF A, E
<1> QED
  BY <1>1, <1>7, <1>8, <1>9 DEF Q, topk_rows

\* Whatever the row and its ties, the block of threads writes each of the K slots once, in the row's order, and what it
\* writes are the K largest, of equal ones the first (topk_rows_k of src/kernels/ops.cu, qsa_topk_k of src/kernels/qsa.cu).
THEOREM SelectsLargestHolds == \A row : IsRow(row) => SelectsLargest(row)
<1> SUFFICES ASSUME NEW row, IsRow(row), NEW k \in 1..Cardinality(DOMAIN row)
             PROVE  /\ Cardinality(topk_rows(row, k)) = k
                    /\ {x[1] : x \in topk_rows(row, k)} = 0..k - 1
                    /\ {x[2] : x \in topk_rows(row, k)} = Largest(row, k)
  BY DEF SelectsLargest
<1> DEFINE Q == Largest(row, k)
           W == topk_rows(row, k)
           f == [b \in Q |-> Rank(Q, b)]
           g == [b \in Q |-> <<f[b], b>>]
<1>1. /\ Q \in SUBSET DOMAIN row /\ IsFiniteSet(Q) /\ Cardinality(Q) = k
      /\ W = {<<Rank(Q, b), b>> : b \in Q}
  BY TopKWrites
<1>2. Q \in SUBSET Nat
  BY <1>1, FloatRowIs
<1> HIDE DEF Q, W
<1>3. f \in Bijection(Q, 0..k - 1)
  BY <1>1, <1>2, RanksAre DEF Rank
<1>4. f \in [Q -> 0..k - 1] /\ \A i \in 0..k - 1 : \E b \in Q : f[b] = i
  BY <1>3 DEF Bijection, Injection, Surjection
<1>5. W = {<<f[b], b>> : b \in Q}
  BY <1>1
<1> HIDE DEF f
<1>6. g \in Bijection(Q, W)
  <2>1. g \in [Q -> W] /\ (\A b, c \in Q : g[b] = g[c] => b = c) /\ \A z \in W : \E b \in Q : g[b] = z
    BY <1>5
  <2> HIDE DEF g
  <2> QED
    BY <2>1 DEF Bijection, Injection, Surjection, IsInjective
<1>7. Cardinality(W) = k
  BY <1>1, <1>6, FS_Bijection DEF ExistsBijection
<1>8. \A b \in Q : <<f[b], b>> \in W /\ <<f[b], b>>[1] = f[b] /\ <<f[b], b>>[2] = b
  BY <1>5
<1>9. \A x \in W : \E b \in Q : x[1] = f[b] /\ x[2] = b
  BY <1>5
<1>10. {x[1] : x \in W} = 0..k - 1
  <2>1. \A x \in W : x[1] \in 0..k - 1
    BY <1>4, <1>9
  <2>2. \A i \in 0..k - 1 : \E x \in W : x[1] = i
    BY <1>4, <1>8
  <2> QED
    BY <2>1, <2>2
<1>11. {x[2] : x \in W} = Q
  <2>1. \A x \in W : x[2] \in Q
    BY <1>9
  <2>2. \A b \in Q : \E x \in W : x[2] = b
    BY <1>8
  <2> QED
    BY <2>1, <2>2
<1> QED
  BY <1>7, <1>10, <1>11 DEF W, Q

-----------------------------------------------------------------------------
(* What is stored and scored *)

LEMMA AttentionConstants ==
  /\ Ratio \in Nat \ {0} /\ TopBlocks \in Nat \ {0} /\ Cells \in Nat \ {0} /\ MaxRows \in Nat \ {0} /\ Tile \in Nat \ {0}
  /\ KeyTile \in Nat \ {0} /\ Splits \in Nat \ {0} /\ MinKeys \in Nat \ {0} /\ Neighbours \subseteq Nat \ {0}
  /\ dense_cells \in Nat /\ max_blocks \in Nat
<1>1. /\ Ratio \in Nat \ {0} /\ TopBlocks \in Nat \ {0} /\ Cells \in Nat \ {0} /\ MaxRows \in Nat \ {0} /\ Tile \in Nat \ {0}
      /\ KeyTile \in Nat \ {0} /\ Splits \in Nat \ {0} /\ MinKeys \in Nat \ {0} /\ Neighbours \subseteq Nat \ {0}
  BY SparseAttentionAssumption
<1>2. PICK m \in Nat : m = TopBlocks * Ratio
  BY <1>1
<1>3. PICK k \in Nat : k = Cells \div Ratio
  BY <1>1, QuotientIs
<1> QED
  BY <1>1, <1>2, <1>3 DEF dense_cells, max_blocks

\* The blocks before the tail of row q of the context.
LEMMA CompleteIs ==
  ASSUME NEW q \in Nat
  PROVE  /\ Complete(q) \in Nat /\ \A b \in Nat : b < Complete(q) <=> Ratio * b + Ratio <= q + 1
         /\ \A b \in Nat : q < Cells /\ b < Complete(q) => b \in 0..max_blocks - 1
<1>1. Complete(q) \in Nat /\ \A b \in Nat : b < Complete(q) <=> Ratio * b + Ratio <= q + 1
  BY AttentionConstants, QuotientIs, QuotientAbove DEF Complete
<1>2. ASSUME NEW b \in Nat, q < Cells, b < Complete(q) PROVE b \in 0..max_blocks - 1
  <2>1. Ratio * b + Ratio <= Cells
    <3>1. PICK m \in Nat : m = Ratio * b
      BY AttentionConstants
    <3> QED
      BY <1>1, <1>2, <3>1, AttentionConstants
  <2>2. b < Cells \div Ratio
    BY <2>1, QuotientAbove, AttentionConstants
  <2>3. PICK k \in Nat : k = Cells \div Ratio
    BY QuotientIs, AttentionConstants
  <2> QED
    BY <2>2, <2>3 DEF max_blocks
<1> QED
  BY <1>1, <1>2

\* Of two rows the later one has no fewer.
LEMMA CompleteGrows ==
  ASSUME NEW p \in Nat, NEW q \in Nat, p <= q
  PROVE  Complete(p) <= Complete(q)
<1>1. SUFFICES ASSUME Complete(q) < Complete(p) PROVE FALSE
  BY CompleteIs
<1>2. PICK c \in Nat : c = Complete(q)
  BY CompleteIs
<1>3. Ratio * c + Ratio <= p + 1
  BY <1>1, <1>2, CompleteIs
<1>4. PICK m \in Nat : m = Ratio * c
  BY <1>2, AttentionConstants
<1>5. Ratio * c + Ratio <= q + 1
  BY <1>3, <1>4, AttentionConstants
<1> QED
  BY <1>2, <1>5, CompleteIs

-----------------------------------------------------------------------------
(* The scores of a launch *)

LEMMA ScoredByRow ==
  ASSUME NEW pos0 \in Nat, NEW T \in Nat \ {0}, pos0 + T <= Cells
  PROVE  qsa_score_k(pos0, T) = Scored(pos0, T)
<1>1. ASSUME NEW t \in 0..T - 1, NEW b \in Nat, b < Complete(pos0 + t) PROVE b \in 0..max_blocks - 1
  BY <1>1, CompleteIs, AttentionConstants
<1>2. \A t \in 0..T - 1 : Complete(pos0 + t) \in Nat
  BY CompleteIs
<1>3. ASSUME NEW x \in qsa_score_k(pos0, T) PROVE x \in Scored(pos0, T)
  <2>1. PICK t \in 0..T - 1 : ~Dense(pos0 + t) /\ x \in {<<t, b>> : b \in 0..Complete(pos0 + t) - 1}
    BY <1>3 DEF qsa_score_k
  <2>2. PICK b \in 0..Complete(pos0 + t) - 1 : x = <<t, b>>
    BY <2>1
  <2>3. b \in Nat /\ b < Complete(pos0 + t)
    BY <1>2, <2>2
  <2> QED
    BY <1>1, <2>1, <2>2, <2>3 DEF Scored, Selectable
<1>4. ASSUME NEW x \in Scored(pos0, T) PROVE x \in qsa_score_k(pos0, T)
  <2>1. PICK t \in 0..T - 1, b \in 0..max_blocks - 1 : x = <<t, b>> /\ ~Dense(pos0 + t) /\ b < Complete(pos0 + t)
    BY <1>4 DEF Scored, Selectable
  <2>2. b \in 0..Complete(pos0 + t) - 1
    BY <1>2, <2>1, AttentionConstants
  <2> QED
    BY <2>1, <2>2 DEF qsa_score_k
<1> QED
  BY <1>3, <1>4

LEMMA ScoredByWindow ==
  ASSUME NEW pos0 \in Nat, NEW T \in Nat \ {0}, pos0 + T <= Cells
  PROVE  qsa_score_win_k(pos0, T) = Scored(pos0, T)
<1> DEFINE last == (pos0 + T) \div Ratio
<1>0. pos0 + T - 1 \in Nat /\ (pos0 + T - 1) + 1 = pos0 + T
  OBVIOUS
<1>1. last = Complete(pos0 + T - 1) /\ last \in Nat
  BY <1>0, QuotientIs, AttentionConstants DEF Complete
<1> HIDE DEF last
<1>2. ASSUME NEW t \in 0..T - 1, NEW b \in Nat, b < Complete(pos0 + t) PROVE b \in 0..max_blocks - 1 /\ b \in 0..last - 1
  <2>1. b \in 0..max_blocks - 1
    BY <1>2, CompleteIs, AttentionConstants
  <2>2. Complete(pos0 + t) <= last /\ Complete(pos0 + t) \in Nat
    BY <1>1, CompleteGrows, CompleteIs
  <2> QED
    BY <1>1, <1>2, <2>1, <2>2
<1>3. ASSUME NEW x, NEW t \in 0..T - 1, NEW b \in Nat, x = <<t, b>>
      PROVE  x \in qsa_score_win_k(pos0, T) <=> x \in Scored(pos0, T)
  BY <1>2, <1>3 DEF qsa_score_win_k, Scored, Selectable, last
<1>4. ASSUME NEW x \in qsa_score_win_k(pos0, T) PROVE x \in Scored(pos0, T)
  <2>1. PICK t \in 0..T - 1, b \in 0..last - 1 : x = <<t, b>>
    BY DEF qsa_score_win_k, last
  <2>2. b \in Nat
    BY <1>1
  <2> QED
    BY <1>3, <2>1, <2>2
<1>5. ASSUME NEW x \in Scored(pos0, T) PROVE x \in qsa_score_win_k(pos0, T)
  <2>1. PICK t \in 0..T - 1, b \in 0..max_blocks - 1 : x = <<t, b>>
    BY DEF Scored
  <2>2. b \in Nat
    BY AttentionConstants
  <2> QED
    BY <1>3, <2>1, <2>2
<1> QED
  BY <1>4, <1>5

\* A number and the first of its tile.
LEMMA TileOf ==
  ASSUME NEW t \in Nat
  PROVE  \E i \in 0..t : Tile * i <= t /\ t <= Tile * i + Tile - 1
<1>1. PICK i \in Nat : i = t \div Tile /\ Tile * i <= t /\ t < Tile * i + Tile
  BY QuotientIs, AttentionConstants
<1>2. i <= Tile * i
  BY <1>1, AttentionConstants
<1>3. PICK m \in Nat : m = Tile * i
  BY <1>1, AttentionConstants
<1>4. i \in Nat /\ i <= m /\ m <= t /\ t < m + Tile
  BY <1>1, <1>2, <1>3
<1>5. i \in 0..t /\ m <= t /\ t <= m + Tile - 1
  BY <1>3, <1>4, AttentionConstants
<1> QED
  BY <1>3, <1>5

LEMMA ScoredByTiles ==
  ASSUME NEW pos0 \in Nat, NEW T \in Nat \ {0}, pos0 + T <= Cells
  PROVE  qsa_score_tiled_k(pos0, T) = Scored(pos0, T)
<1> DEFINE tiles == {m \in Tiles(T) : m[2] < Complete(pos0 + Min({T, m[1] + Tile}) - 1)}
<1>1. qsa_score_tiled_k(pos0, T) = TileWrites(tiles, pos0, T)
  BY DEF qsa_score_tiled_k
<1>2. ASSUME NEW x \in TileWrites(tiles, pos0, T) PROVE x \in Scored(pos0, T)
  <2>1. PICK m \in tiles : x \in (m[1]..Min({T, m[1] + Tile}) - 1) \X (m[2]..m[2] + Tile - 1) /\ Selectable(pos0, x)
    BY <1>2 DEF TileWrites
  <2>2. m \in {Tile * i : i \in 0..T} \X {Tile * i : i \in 0..max_blocks}
    BY <2>1 DEF Tiles
  <2>3. PICK i \in 0..T, j \in 0..max_blocks : m[1] = Tile * i /\ m[2] = Tile * j
    BY <2>2
  <2>4. m[1] \in Nat /\ m[2] \in Nat
    BY <2>3, AttentionConstants
  <2>5. PICK t \in m[1]..Min({T, m[1] + Tile}) - 1, b \in m[2]..m[2] + Tile - 1 : x = <<t, b>>
    BY <2>1
  <2>6. Min({T, m[1] + Tile}) \in Nat /\ Min({T, m[1] + Tile}) <= T
    BY <2>4, MinOfTwo, AttentionConstants
  <2>7. t \in 0..T - 1 /\ b \in Nat
    BY <2>4, <2>5, <2>6, AttentionConstants
  <2>8. ~Dense(pos0 + t) /\ b < Complete(pos0 + t)
    BY <2>1, <2>5 DEF Selectable
  <2>9. b \in 0..max_blocks - 1
    BY <2>7, <2>8, CompleteIs, AttentionConstants
  <2> QED
    BY <2>1, <2>5, <2>7, <2>9 DEF Scored
<1>3. ASSUME NEW x \in Scored(pos0, T) PROVE x \in TileWrites(tiles, pos0, T)
  <2>1. PICK t \in 0..T - 1, b \in 0..max_blocks - 1 : x = <<t, b>> /\ Selectable(pos0, x) /\ b < Complete(pos0 + t)
    BY <1>3 DEF Scored, Selectable
  <2>2. t \in Nat /\ b \in Nat
    BY <2>1, AttentionConstants
  <2>3. PICK i \in 0..t : Tile * i <= t /\ t <= Tile * i + Tile - 1
    BY <2>2, TileOf
  <2>4. PICK j \in 0..b : Tile * j <= b /\ b <= Tile * j + Tile - 1
    BY <2>2, TileOf
  <2>5. PICK m1 \in Nat, m2 \in Nat : m1 = Tile * i /\ m2 = Tile * j
    BY <2>3, <2>4, AttentionConstants
  <2>6. i \in 0..T /\ j \in 0..max_blocks
    BY <2>1, <2>3, <2>4, AttentionConstants
  <2>7. <<m1, m2>> \in Tiles(T)
    BY <2>1, <2>2, <2>3, <2>4, <2>5, <2>6, AttentionConstants DEF Tiles
  <2>8. PICK n \in Nat : n = Min({T, m1 + Tile}) /\ t < n /\ n <= T
    BY <2>1, <2>2, <2>3, <2>5, MinOfTwo, AttentionConstants
  <2>9. Complete(pos0 + t) <= Complete(pos0 + n - 1) /\ Complete(pos0 + t) \in Nat /\ Complete(pos0 + n - 1) \in Nat
    BY <2>2, <2>8, CompleteGrows, CompleteIs
  <2>10. m2 < Complete(pos0 + n - 1)
    BY <2>1, <2>2, <2>4, <2>5, <2>9
  <2>11. <<m1, m2>> \in tiles
    BY <2>7, <2>8, <2>10
  <2>12. x \in (m1..n - 1) \X (m2..m2 + Tile - 1)
    BY <2>1, <2>2, <2>3, <2>4, <2>5, <2>8, AttentionConstants
  <2> HIDE DEF tiles
  <2>13. PICK m \in tiles : m = <<m1, m2>>
    BY <2>11
  <2>14. x \in (m[1]..Min({T, m[1] + Tile}) - 1) \X (m[2]..m[2] + Tile - 1)
    BY <2>8, <2>12, <2>13
  <2> DEFINE Wrote(o) == {y \in (o[1]..Min({T, o[1] + Tile}) - 1) \X (o[2]..o[2] + Tile - 1) : Selectable(pos0, y)}
  <2>15. x \in Wrote(m)
    BY <2>1, <2>14
  <2>16. TileWrites(tiles, pos0, T) = UNION {Wrote(o) : o \in tiles}
    BY DEF TileWrites
  <2> HIDE DEF Wrote
  <2> QED
    BY <2>13, <2>15, <2>16
<1> QED
  BY <1>1, <1>2, <1>3

-----------------------------------------------------------------------------
(* What is stored *)

LEMMA StoredIs ==
  ASSUME NEW pos0 \in Nat, NEW T \in Nat \ {0}
  PROVE  /\ Stored(pos0, T).kraw = 0..pos0 + T - 1
         /\ \A b \in Nat : Ratio * b + Ratio <= pos0 + T => b \in Stored(pos0, T).pooled
<1> DEFINE below == pos0 \div Ratio
           kraw  == (0..pos0 - 1) \cup (pos0..pos0 + T - 1)
           grid  == T \div Ratio + 2
           ending == {b \in below..below + grid - 1 : b * Ratio + Ratio - 1 \in pos0..pos0 + T - 1}
           right  == {b \in ending : b * Ratio .. b * Ratio + Ratio - 1 \subseteq kraw}
<1>1. Stored(pos0, T).kraw = kraw /\ Stored(pos0, T).pooled = ((0..below - 1) \ ending) \cup right
  BY DEF Stored, qsa_pool, PoolOf, qsa_store_keys, Below
<1>2. below \in Nat /\ Ratio * below <= pos0 /\ pos0 < Ratio * below + Ratio
  BY QuotientIs, AttentionConstants
<1>3. PICK k \in Nat : k = T \div Ratio /\ T < Ratio * k + Ratio /\ grid = k + 2
  BY QuotientIs, AttentionConstants
<1> HIDE DEF below, grid
<1>4. kraw = 0..pos0 + T - 1
  OBVIOUS
<1>5. ASSUME NEW b \in Nat, Ratio * b + Ratio <= pos0 + T PROVE b \in ((0..below - 1) \ ending) \cup right
  <2>1. PICK m \in Nat : m = Ratio * b /\ b * Ratio = m
    BY AttentionConstants
  <2>2. b * Ratio .. b * Ratio + Ratio - 1 \subseteq kraw
    BY <1>4, <1>5, <2>1, AttentionConstants
  <2>3. CASE b < below
    BY <2>2, <2>3, <1>2
  <2>4. CASE below <= b
    <3>1. Ratio * below <= Ratio * b
      BY <1>2, <2>4, ProductGrows, AttentionConstants
    <3>2. b * Ratio + Ratio - 1 \in pos0..pos0 + T - 1
      <4>1. PICK l \in Nat : l = Ratio * below
        BY <1>2, AttentionConstants
      <4> QED
        BY <1>2, <1>5, <2>1, <3>1, <4>1, AttentionConstants
    <3>3. b <= below + k
      <4>1. SUFFICES ASSUME below + k + 1 <= b PROVE FALSE
        BY <1>2, <1>3
      <4>2. Ratio * (below + k + 1) <= Ratio * b
        BY <1>2, <1>3, <4>1, ProductGrows, AttentionConstants
      <4>3. PICK l \in Nat, r \in Nat : l = Ratio * below /\ r = Ratio * k
        BY <1>2, <1>3, AttentionConstants
      <4>4. Ratio * (below + k + 1) = l + r + Ratio
        BY <1>2, <1>3, <4>3, AttentionConstants
      <4> QED
        BY <1>2, <1>3, <1>5, <2>1, <4>2, <4>3, <4>4, AttentionConstants
    <3>4. b \in ending
      BY <1>2, <1>3, <2>4, <3>2, <3>3
    <3> QED
      BY <2>2, <3>4
  <2> QED
    BY <1>2, <2>3, <2>4
<1> QED
  BY <1>1, <1>4, <1>5

LEMMA DenseFirst ==
  ASSUME NEW pos0 \in Nat, NEW T \in Nat \ {0}, NEW t \in 0..T - 1
  PROVE  Dense(pos0 + t) <=> t < FirstSparse(pos0, T)
<1>1. PICK d \in Int : d = dense_cells - pos0
  BY AttentionConstants
<1>2. PICK m \in Int : m = Min({T, d}) /\ m = IF T <= d THEN T ELSE d
  BY <1>1, MinOfTwo
<1>3. FirstSparse(pos0, T) = Max({0, m})
  BY <1>1, <1>2 DEF FirstSparse
<1>4. FirstSparse(pos0, T) = IF 0 >= m THEN 0 ELSE m
  BY <1>2, <1>3, MaxOfTwo
<1> QED
  BY <1>1, <1>2, <1>4, AttentionConstants DEF Dense

\* Whatever window of the context stores its keys (qsa_store_keys, qsa_pool of src/kernels/qsa.cu): its rows select by
\* scores of this launch, of pooled keys of the text before them, and nothing refused stays in a block.
THEOREM SeesItsTextHolds ==
  ASSUME NEW pos0 \in Nat, NEW T \in Nat \ {0}, pos0 + T <= Cells
  PROVE  SeesItsText(pos0, T)
<1> DEFINE kept == Stored(pos0, T)
<1>1. \A kernel \in {qsa_score_k(pos0, T), qsa_score_win_k(pos0, T), qsa_score_tiled_k(pos0, T)} : kernel = Scored(pos0, T)
  BY ScoredByRow, ScoredByWindow, ScoredByTiles
<1>2. kept.kraw = 0..pos0 + T - 1 /\ \A b \in Nat : Ratio * b + Ratio <= pos0 + T => b \in kept.pooled
  BY StoredIs
<1> HIDE DEF kept
<1>3. ASSUME NEW t \in 0..T - 1
      PROVE  /\ 0..Complete(pos0 + t) - 1 \subseteq kept.pooled
             /\ Below(pos0 + t + 1).kraw \subseteq kept.kraw /\ Below(pos0 + t + 1).pooled \subseteq kept.pooled
             /\ Dense(pos0 + t) <=> t < FirstSparse(pos0, T)
  <2>1. ASSUME NEW b \in 0..Complete(pos0 + t) - 1 PROVE b \in kept.pooled
    <3>1. b \in Nat /\ b < Complete(pos0 + t)
      BY <2>1, CompleteIs
    <3>2. Ratio * b + Ratio <= pos0 + t + 1
      BY <3>1, CompleteIs
    <3>3. PICK m \in Nat : m = Ratio * b
      BY <3>1, AttentionConstants
    <3> QED
      BY <1>2, <3>1, <3>2, <3>3, AttentionConstants
  <2>2. Below(pos0 + t + 1).pooled = 0..Complete(pos0 + t) - 1 /\ Below(pos0 + t + 1).kraw = 0..pos0 + t
    BY DEF Below, Complete
  <2>3. Below(pos0 + t + 1).kraw \subseteq kept.kraw
    BY <1>2, <2>2
  <2> QED
    BY <2>1, <2>2, <2>3, DenseFirst
<1> QED
  BY <1>1, <1>3 DEF SeesItsText, kept
-----------------------------------------------------------------------------
(* Every cell once *)

\* Reads of different cells, and one of each of some cells.
LEMMA OncePerCell ==
  ASSUME NEW cells, IsFiniteSet(cells), NEW reads, \A x \in reads : x[3] \in cells,
         \A x, y \in reads : x[3] = y[3] => x = y, \A c \in cells : \E x \in reads : x[3] = c
  PROVE  Once(reads, cells)
<1> DEFINE f == [c \in cells |-> CHOOSE x \in reads : x[3] = c]
<1>1. \A c \in cells : f[c] \in reads /\ f[c][3] = c
  OBVIOUS
<1>2. f \in [cells -> reads]
  BY <1>1
<1> HIDE DEF f
<1>3. f \in Bijection(cells, reads)
  <2>1. \A c, d \in cells : f[c] = f[d] => c = d
    BY <1>1
  <2>2. \A x \in reads : \E c \in cells : f[c] = x
    BY <1>1
  <2>3. f \in Injection(cells, reads)
    BY <1>2, <2>1 DEF Injection, IsInjective
  <2>4. f \in Surjection(cells, reads)
    BY <1>2, <2>2 DEF Surjection
  <2> QED
    BY <2>3, <2>4 DEF Bijection
<1>4. Cardinality(reads) = Cardinality(cells)
  BY <1>3, FS_Bijection, FS_CardinalityType DEF ExistsBijection
<1>5. {x[3] : x \in reads} = cells
  OBVIOUS
<1> QED
  BY <1>4, <1>5 DEF Once

LEMMA ContainsIs ==
  ASSUME NEW n \in Nat, NEW sel \in Selections(n), NEW b \in Nat
  PROVE  contains(sel, b) <=> b \in Range(sel)
<1>1. sel \in [1..TopBlocks -> 0..n - 1] /\ \A i, j \in 1..TopBlocks : i < j => sel[i] < sel[j]
  BY DEF Selections
<1>2. DOMAIN sel = 1..TopBlocks /\ \A i \in 1..TopBlocks : sel[i] \in Nat
  BY <1>1
<1> DEFINE below == {i \in DOMAIN sel : sel[i] < b}
           lo    == Cardinality(below) + 1
<1>3. contains(sel, b) <=> lo \in DOMAIN sel /\ sel[lo] = b
  BY DEF contains
<1>4. contains(sel, b) => b \in Range(sel)
  BY <1>3 DEF Range
<1>5. ASSUME b \in Range(sel) PROVE contains(sel, b)
  <2>1. PICK k \in 1..TopBlocks : sel[k] = b
    BY <1>2, <1>5 DEF Range
  <2>2. \A i \in 1..TopBlocks : sel[i] < b <=> i < k
    BY <1>1, <1>2, <2>1, AttentionConstants
  <2>3. below = 1..k - 1 /\ k \in Nat \ {0}
    BY <1>2, <2>1, <2>2, AttentionConstants
  <2>4. PICK j \in Nat : j = k - 1
    BY <2>3
  <2>5. Cardinality(1..j) = j
    BY <2>4, FS_Interval
  <2>6. Cardinality(below) = k - 1
    BY <2>3, <2>4, <2>5
  <2> QED
    BY <1>2, <1>3, <2>1, <2>3, <2>6
<1> QED
  BY <1>4, <1>5

LEMMA SelectionRange ==
  ASSUME NEW n \in Nat, NEW sel \in Selections(n)
  PROVE  DOMAIN sel = 1..TopBlocks /\ Range(sel) \subseteq 0..n - 1
<1>1. sel \in [1..TopBlocks -> 0..n - 1]
  BY DEF Selections
<1> QED
  BY <1>1 DEF Range

\* The cells of block b.
LEMMA CellsOf ==
  ASSUME NEW b \in Nat, NEW c \in Nat
  PROVE  /\ c \div Ratio \in Nat
         /\ c \div Ratio = b <=> Ratio * b <= c /\ c < Ratio * b + Ratio
<1>1. PICK k \in Nat : k = c \div Ratio /\ Ratio * k <= c /\ c < Ratio * k + Ratio
  BY QuotientIs, AttentionConstants
<1>2. Ratio * b <= c /\ c < Ratio * b + Ratio => c \div Ratio = b
  BY QuotientOf, AttentionConstants
<1> QED
  BY <1>1, <1>2

\* The blocks before every row's tail are those before the first row's.
LEMMA NbMinIs ==
  ASSUME NEW q0 \in Nat, NEW R \in Nat \ {0}, NEW sels, DOMAIN sels = 1..R
  PROVE  NbMin(sels, q0) = Complete(q0)
<1> DEFINE S == {Complete(q0 + rr - 1) : rr \in DOMAIN sels}
<1>1. Complete(q0) \in S
  <2>1. 1 \in DOMAIN sels /\ q0 + 1 - 1 = q0
    OBVIOUS
  <2>2. Complete(q0 + 1 - 1) \in S
    BY <2>1
  <2> QED
    BY <2>1, <2>2
<1>2. ASSUME NEW y \in S PROVE y \in Nat /\ Complete(q0) <= y
  <2>1. PICK rr \in 1..R : y = Complete(q0 + rr - 1)
    OBVIOUS
  <2>2. q0 + rr - 1 \in Nat /\ q0 <= q0 + rr - 1
    OBVIOUS
  <2> QED
    BY <2>1, <2>2, CompleteGrows, CompleteIs
<1>0. Complete(q0) \in Nat
  BY CompleteIs
<1> HIDE DEF S
<1>3. ASSUME NEW x \in S, \A y \in S : x <= y PROVE x = Complete(q0)
  <2>1. x \in Nat /\ Complete(q0) <= x /\ x <= Complete(q0)
    BY <1>1, <1>2, <1>3
  <2> QED
    BY <1>0, <2>1
<1>4. Min(S) = Complete(q0)
  BY <1>1, <1>2, <1>3 DEF Min
<1> QED
  BY <1>4 DEF NbMin, S

\* Row rr of a launch of qsa_attn_prefill_multi_k for R neighbours, whatever blocks each selected.
LEMMA RowOnce ==
  ASSUME NEW q0 \in Nat, NEW R \in Nat \ {0}, NEW sels, DOMAIN sels = 1..R,
         \A rr \in 1..R : sels[rr] \in Selections(Complete(q0 + rr - 1)),
         NEW rr \in 1..R
  PROVE  Once(qsa_attention_prefill_multi(sels, q0)[rr], Attended(sels[rr], q0 + rr - 1))
<1> DEFINE q     == q0 + rr - 1
           sel   == sels[rr]
           mine  == Range(sel)
           first == Complete(q0)
           last  == Complete(q)
           cells == Attended(sel, q)
           reads == qsa_attention_prefill_multi(sels, q0)[rr]
           f     == [c \in cells |-> <<IF c < first * Ratio THEN 0 ELSE 1, c \div Ratio, c>>]
           blocks == UNION {{b \in Range(sels[r]) : b < first} : r \in DOMAIN sels}
           FromUnion == {<<0, b, b * Ratio + i>> : b \in {x \in blocks : contains(sel, x)}, i \in 0..Ratio - 1}
           FromTails == {<<1, c \div Ratio, c>> :
                           c \in {d \in first * Ratio .. q :
                                    \/ d >= TailStart(q)
                                    \/ d \div Ratio < last /\ contains(sel, d \div Ratio)}}
<1>1. q \in Nat /\ q0 <= q
  OBVIOUS
<1>2. first \in Nat /\ last \in Nat /\ first <= last
  BY <1>1, CompleteIs, CompleteGrows
<1>3. sel \in Selections(last) /\ mine \subseteq 0..last - 1
  <2>1. sel \in Selections(last)
    OBVIOUS
  <2> HIDE DEF sel, last
  <2> QED
    BY <1>2, <2>1, SelectionRange
<1>4. \A b \in Nat : contains(sel, b) <=> b \in mine
  BY <1>2, <1>3, ContainsIs
<1>5. reads = FromUnion \cup FromTails
  <2> DEFINE tails == {<<1, c \div Ratio, c>> :
                         c \in {d \in NbMin(sels, q0) * Ratio .. q :
                                  \/ d >= TailStart(q)
                                  \/ d \div Ratio < last /\ contains(sel, d \div Ratio)}}
  <2>1. NbMin(sels, q0) = first
    BY NbMinIs
  <2>2. tails = FromTails
    BY <2>1
  <2>3. qsa_attention_prefill_multi(sels, q0) = UnionAndTails(sels, q0, first)
    BY <2>1 DEF qsa_attention_prefill_multi
  <2>4. UnionAndTails(sels, q0, first)[rr] = FromUnion \cup tails
    BY DEF UnionAndTails
  <2>5. reads = UnionAndTails(sels, q0, first)[rr]
    BY <2>3
  <2> HIDE DEF reads, FromUnion, FromTails, tails
  <2> QED
    BY <2>2, <2>4, <2>5
<1>6. PICK start \in Nat, tail \in Nat : start = first * Ratio /\ start = Ratio * first /\ tail = TailStart(q) /\ tail = Ratio * last /\ start <= tail
  <2>1. Ratio * first \in Nat /\ Ratio * last \in Nat /\ Ratio * first <= Ratio * last
    BY <1>2, ProductGrows, AttentionConstants
  <2>2. Ratio * first = first * Ratio /\ Ratio * last = last * Ratio
    BY <1>2, ProductNext, AttentionConstants
  <2>3. TailStart(q) = last * Ratio
    BY DEF TailStart
  <2> HIDE DEF first, last
  <2> QED
    BY <2>1, <2>2, <2>3
<1>7. ASSUME NEW b \in Nat
      PROVE  /\ b < first => Ratio * b + Ratio <= start
             /\ b < last => Ratio * b + Ratio <= tail
  <2> HIDE DEF first, last
  <2>1. ASSUME b < first PROVE Ratio * (b + 1) <= Ratio * first
    <3>1. b + 1 \in Nat /\ b + 1 <= first
      BY <1>2, <2>1
    <3> QED
      BY <1>2, <3>1, ProductGrows, AttentionConstants
  <2>2. ASSUME b < last PROVE Ratio * (b + 1) <= Ratio * last
    <3>1. b + 1 \in Nat /\ b + 1 <= last
      BY <1>2, <2>2
    <3> QED
      BY <1>2, <3>1, ProductGrows, AttentionConstants
  <2> QED
    BY <1>6, <2>1, <2>2, ProductNext, AttentionConstants
<1>8. tail <= q + 1
  BY <1>1, <1>2, <1>6, QuotientIs, AttentionConstants DEF Complete
<1>9. \A b \in mine : b \in Nat /\ b < last
  BY <1>2, <1>3
<1>10. \A c : c \in cells <=> c \in 0..q /\ (c >= tail \/ c \div Ratio \in mine)
  <2>1. sel # <<>>
    BY <1>2, <1>3, SelectionRange, AttentionConstants
  <2> QED
    BY <1>6, <2>1 DEF Attended
<1>11. \A b : b \in blocks <=> \E r \in 1..R : b \in Range(sels[r]) /\ b < first
  OBVIOUS
<1>12. \A b \in mine : b < first => b \in blocks
  BY <1>11
<1>13. \A b \in blocks : b \in Nat /\ b < first
  <2> TAKE b \in blocks
  <2>1. PICK r \in 1..R : b \in Range(sels[r]) /\ b < first
    BY <1>11
  <2>2. q0 + r - 1 \in Nat
    OBVIOUS
  <2>3. Range(sels[r]) \subseteq 0..Complete(q0 + r - 1) - 1
    <3>1. Complete(q0 + r - 1) \in Nat
      BY <2>2, CompleteIs
    <3>2. sels[r] \in Selections(Complete(q0 + r - 1))
      OBVIOUS
    <3> QED
      BY <3>1, <3>2, SelectionRange
  <2> QED
    BY <2>1, <2>3
<1> HIDE DEF q, sel, mine, first, last, cells, reads, blocks
\* A read is of a cell the row attends to, and where that cell is read.
<1>14. ASSUME NEW x \in reads PROVE x[3] \in cells /\ x = <<IF x[3] < first * Ratio THEN 0 ELSE 1, x[3] \div Ratio, x[3]>>
  <2>1. CASE x \in FromUnion
    <3>1. PICK b \in {y \in blocks : contains(sel, y)}, i \in 0..Ratio - 1 : x = <<0, b, b * Ratio + i>>
      BY <2>1
    <3>2. b \in Nat /\ b < first /\ b \in mine /\ b < last
      BY <1>4, <1>9, <1>13, <3>1
    <3>3. PICK m \in Nat : m = Ratio * b /\ m = b * Ratio
      BY <3>2, AttentionConstants
    <3>4. PICK c \in Nat : c = b * Ratio + i
      BY <3>1, <3>3, AttentionConstants
    <3>5. m <= c /\ c < m + Ratio
      BY <3>1, <3>3, <3>4, AttentionConstants
    <3>6. c \div Ratio = b
      BY <3>2, <3>3, <3>5, CellsOf
    <3>7. m + Ratio <= start /\ m + Ratio <= tail
      BY <1>7, <3>2, <3>3
    <3>8. c < start /\ c \in 0..q
      BY <1>1, <1>8, <3>4, <3>5, <3>7, AttentionConstants
    <3>9. c \in cells
      BY <1>10, <3>2, <3>6, <3>8
    <3> QED
      BY <1>6, <3>1, <3>4, <3>6, <3>8, <3>9
  <2>2. CASE x \in FromTails
    <3>1. PICK c \in {d \in first * Ratio .. q :
                        \/ d >= TailStart(q)
                        \/ d \div Ratio < last /\ contains(sel, d \div Ratio)} : x = <<1, c \div Ratio, c>>
      BY <2>2
    <3>2. c \in Nat /\ c \in 0..q /\ start <= c /\ c \div Ratio \in Nat
      BY <1>1, <1>6, <3>1, CellsOf
    <3>3. c \in cells
      BY <1>4, <1>6, <1>10, <3>1, <3>2
    <3> QED
      BY <1>6, <3>1, <3>2, <3>3
  <2> QED
    BY <1>5, <2>1, <2>2
\* And each of those cells is read.
<1>15. ASSUME NEW c \in cells PROVE f[c] \in reads
  <2>1. c \in Nat /\ c \in 0..q /\ (c >= tail \/ c \div Ratio \in mine)
    BY <1>1, <1>10
  <2>2. PICK b \in Nat : b = c \div Ratio /\ Ratio * b <= c /\ c < Ratio * b + Ratio
    BY <2>1, CellsOf
  <2>3. CASE c < start
    <3>1. b < first
      <4>1. SUFFICES ASSUME first <= b PROVE FALSE
        BY <1>2
      <4>2. Ratio * first <= Ratio * b
        BY <1>2, <2>2, <4>1, ProductGrows, AttentionConstants
      <4>3. PICK m \in Nat : m = Ratio * b
        BY AttentionConstants
      <4> QED
        BY <1>6, <2>1, <2>2, <2>3, <4>2, <4>3
    <3>2. b \in mine
      BY <1>6, <2>1, <2>2, <2>3
    <3>3. b \in {y \in blocks : contains(sel, y)}
      BY <1>4, <1>12, <3>1, <3>2
    <3>4. PICK m \in Nat : m = Ratio * b /\ m = b * Ratio
      BY AttentionConstants
    <3>5. PICK i \in 0..Ratio - 1 : c = b * Ratio + i
      <4>1. c - m \in 0..Ratio - 1 /\ c = m + (c - m)
        BY <2>1, <2>2, <3>4, AttentionConstants
      <4> QED
        BY <3>4, <4>1
    <3>6. f[c] = <<0, b, b * Ratio + i>>
      BY <1>6, <2>2, <2>3, <3>5
    <3>7. f[c] \in FromUnion
      BY <3>3, <3>6
    <3> QED
      BY <1>5, <3>7
  <2>4. CASE start <= c
    <3>1. c \in first * Ratio .. q
      BY <1>1, <1>6, <2>1, <2>4
    <3>2. c >= TailStart(q) \/ (c \div Ratio < last /\ contains(sel, c \div Ratio))
      BY <1>4, <1>6, <1>9, <2>1
    <3>3. f[c] = <<1, c \div Ratio, c>>
      BY <1>6, <2>1, <2>4
    <3>4. f[c] \in FromTails
      BY <3>1, <3>2, <3>3
    <3> QED
      BY <1>5, <3>4
  <2> QED
    BY <1>6, <2>1, <2>3, <2>4
<1>16. IsFiniteSet(cells)
  <2>1. cells \subseteq 0..q /\ IsFiniteSet(0..q)
    BY <1>1, <1>10, FS_Interval
  <2> QED
    BY <2>1, FS_Subset
<1>17. \A c \in cells : f[c][3] = c
  OBVIOUS
<1>18. \A x \in reads : x[3] \in cells /\ x = f[x[3]]
  BY <1>14
<1> HIDE DEF f
<1>19. \A x, y \in reads : x[3] = y[3] => x = y
  BY <1>18
<1>20. \A c \in cells : \E x \in reads : x[3] = c
  BY <1>15, <1>17
<1>21. Once(reads, cells)
  BY <1>16, <1>18, <1>19, <1>20, OncePerCell
<1> QED
  BY <1>21 DEF reads, cells, sel, q

\* Neighbouring rows that share a launch of qsa_attn_prefill_multi_k (src/kernels/qsa.cu) read, each, every cell of the
\* blocks they selected and of their tail, and none twice, however the selections overlap.
THEOREM SharedReadOnceHolds == \A q0 \in Nat : SharedReadOnce(q0)
<1> TAKE q0 \in Nat
<1>1. ASSUME NEW R \in Neighbours, NEW sels \in [1..R -> Selections(Complete(q0 + R - 1))],
             \A rr \in 1..R : sels[rr] \in Selections(Complete(q0 + rr - 1)), NEW rr \in 1..R
      PROVE  Once(qsa_attention_prefill_multi(sels, q0)[rr], Attended(sels[rr], q0 + rr - 1))
  <2>1. R \in Nat \ {0} /\ DOMAIN sels = 1..R
    BY AttentionConstants
  <2> QED
    BY <1>1, <2>1, RowOnce
<1> QED
  BY <1>1 DEF SharedReadOnce

-----------------------------------------------------------------------------
(* A row on its own *)

\* Key i of the first Ratio * TopBlocks ones of a row that selected sel.
LEMMA SelectedKey ==
  ASSUME NEW q \in Nat, NEW sel \in Selections(Complete(q)), NEW i \in Nat, i < Ratio * TopBlocks
  PROVE  /\ i \div Ratio + 1 \in 1..TopBlocks /\ sel[i \div Ratio + 1] \in Nat /\ sel[i \div Ratio + 1] \in Range(sel)
         /\ qsa_cell(i, sel, TailStart(q)) \in Nat
         /\ qsa_cell(i, sel, TailStart(q)) = Ratio * sel[i \div Ratio + 1] + i - Ratio * (i \div Ratio)
         /\ qsa_cell(i, sel, TailStart(q)) \div Ratio = sel[i \div Ratio + 1]
         /\ qsa_cell(i, sel, TailStart(q)) < TailStart(q)
<1>1. sel \in [1..TopBlocks -> 0..Complete(q) - 1] /\ TopBlocks \in Nat
  BY AttentionConstants DEF Selections
<1>2. Len(sel) = TopBlocks
  BY <1>1
<1>0. PICK k \in Nat, l \in Nat :
             k = i \div Ratio /\ l = Ratio * k /\ l = k * Ratio /\ l <= i /\ i < l + Ratio /\ i % Ratio = i - l
  BY QuotientWith, AttentionConstants
<1>3. PICK off \in Nat : off = i % Ratio /\ off = i - l
  BY <1>0
<1>4. k < TopBlocks
  <2>1. SUFFICES ASSUME TopBlocks <= k PROVE FALSE
    BY AttentionConstants
  <2>2. Ratio * TopBlocks <= Ratio * k
    BY <2>1, ProductGrows, AttentionConstants
  <2>3. PICK m \in Nat : m = Ratio * TopBlocks
    BY AttentionConstants
  <2> QED
    BY <1>0, <2>2, <2>3
<1>5. k + 1 \in 1..TopBlocks
  BY <1>4, AttentionConstants
<1>6. PICK b \in Nat : b = sel[k + 1] /\ b < Complete(q)
  <2>1. Complete(q) \in Nat
    BY CompleteIs
  <2> QED
    BY <1>1, <1>5, <2>1
<1>7. b \in Range(sel)
  BY <1>1, <1>5, <1>6 DEF Range
<1>8. PICK m \in Nat, e \in Nat : m = Ratio * b /\ m = b * Ratio /\ e = Ratio * Complete(q) /\ e = Complete(q) * Ratio
  <2>1. Complete(q) \in Nat
    BY CompleteIs
  <2>2. PICK m \in Nat : m = Ratio * b /\ m = b * Ratio
    BY AttentionConstants
  <2>3. PICK e \in Nat : e = Ratio * Complete(q) /\ e = Complete(q) * Ratio
    BY <2>1, AttentionConstants
  <2> QED
    BY <2>2, <2>3
<1>9. m + Ratio <= e
  <2>1. Ratio * (b + 1) <= Ratio * Complete(q)
    BY <1>6, CompleteIs, ProductGrows, AttentionConstants
  <2> QED
    BY <1>8, <2>1, ProductNext, AttentionConstants
<1>10. Len(sel) * Ratio = Ratio * TopBlocks
  BY <1>2, AttentionConstants, ProductNext
<1>11. qsa_cell(i, sel, TailStart(q)) = sel[i \div Ratio + 1] * Ratio + (i % Ratio)
  BY <1>10 DEF qsa_cell
<1>12. PICK c \in Nat : c = qsa_cell(i, sel, TailStart(q)) /\ c = m + off
  BY <1>0, <1>3, <1>6, <1>8, <1>11
<1>13. c < m + Ratio /\ m <= c
  BY <1>3, <1>8, <1>12, AttentionConstants
<1>14. c \div Ratio = b
  BY <1>8, <1>13, CellsOf
<1>15. TailStart(q) = e
  BY <1>8 DEF TailStart
<1>16. c < e /\ c = m + i - l
  BY <1>0, <1>3, <1>8, <1>9, <1>12, <1>13, AttentionConstants
<1> QED
  BY <1>0, <1>5, <1>6, <1>7, <1>8, <1>12, <1>14, <1>15, <1>16

\* The keys of a row are the cells it attends to.
LEMMA KeysAreCells ==
  ASSUME NEW q \in Nat, NEW sel \in {<<>>} \cup Selections(Complete(q))
  PROVE  /\ Keys(sel, q) \in Nat \ {0}
         /\ \A i \in 0..Keys(sel, q) - 1 : CellOf(i, sel, q) \in Attended(sel, q)
         /\ \A i, j \in 0..Keys(sel, q) - 1 : CellOf(i, sel, q) = CellOf(j, sel, q) => i = j
         /\ \A c \in Attended(sel, q) : \E i \in 0..Keys(sel, q) - 1 : CellOf(i, sel, q) = c
<1>1. CASE sel = <<>>
  BY <1>1 DEF Keys, CellOf, Attended
<1>2. CASE sel \in Selections(Complete(q)) /\ sel # <<>>
  <2> DEFINE n == Keys(sel, q)
             cells == Attended(sel, q)
  <2>1. sel \in [1..TopBlocks -> 0..Complete(q) - 1] /\ TopBlocks \in Nat /\ \A i, j \in 1..TopBlocks : i < j => sel[i] < sel[j]
    BY <1>2, AttentionConstants DEF Selections
  <2>2. Len(sel) = TopBlocks
    BY <2>1
  <2>3. PICK nsc \in Nat \ {0} : nsc = Ratio * TopBlocks /\ nsc = Len(sel) * Ratio
    BY <2>2, AttentionConstants, ProductNext
  <2>4. PICK tail \in Nat : tail = TailStart(q) /\ tail <= q + 1
    BY CompleteIs, QuotientIs, AttentionConstants, ProductNext DEF TailStart, Complete
  <2>5. n = nsc + (q + 1 - tail) /\ n \in Nat \ {0}
    BY <1>2, <2>3, <2>4 DEF Keys
  <2> HIDE DEF n
  <2>6. \A c : c \in cells <=> c \in 0..q /\ (c >= tail \/ c \div Ratio \in Range(sel))
    BY <1>2, <2>4 DEF Attended
  <2>7. ASSUME NEW i \in Nat, i < nsc
        PROVE  /\ CellOf(i, sel, q) \in Nat /\ CellOf(i, sel, q) < tail /\ CellOf(i, sel, q) \in cells
               /\ i \div Ratio + 1 \in 1..TopBlocks /\ CellOf(i, sel, q) \div Ratio = sel[i \div Ratio + 1]
               /\ CellOf(i, sel, q) = Ratio * sel[i \div Ratio + 1] + i - Ratio * (i \div Ratio)
    <3>1. CellOf(i, sel, q) = qsa_cell(i, sel, TailStart(q))
      BY <1>2 DEF CellOf
    <3>2. sel[i \div Ratio + 1] \in Range(sel)
      BY <1>2, <2>3, <2>7, SelectedKey
    <3>3. i \div Ratio + 1 \in 1..TopBlocks
      BY <1>2, <2>3, <2>7, SelectedKey
    <3>4. CellOf(i, sel, q) \in Nat /\ CellOf(i, sel, q) < tail /\ CellOf(i, sel, q) \div Ratio = sel[i \div Ratio + 1]
      BY <1>2, <2>3, <2>4, <2>7, <3>1, SelectedKey
    <3>5. CellOf(i, sel, q) = Ratio * sel[i \div Ratio + 1] + i - Ratio * (i \div Ratio)
      BY <1>2, <2>3, <2>7, <3>1, SelectedKey
    <3>6. CellOf(i, sel, q) \in 0..q
      BY <2>4, <3>4
    <3>7. CellOf(i, sel, q) \in cells
      BY <2>6, <3>2, <3>4, <3>6
    <3> QED
      BY <3>3, <3>4, <3>5, <3>7
  <2>8. ASSUME NEW i \in 0..n - 1, nsc <= i
        PROVE  CellOf(i, sel, q) = tail + i - nsc /\ CellOf(i, sel, q) \in tail..q /\ CellOf(i, sel, q) \in cells
    <3>1. CellOf(i, sel, q) = tail + i - nsc
      BY <1>2, <2>3, <2>4, <2>5, <2>8 DEF CellOf, qsa_cell
    <3>2. PICK x \in Int : x = CellOf(i, sel, q) /\ x = tail + i - nsc
      BY <2>4, <2>3, <2>5, <2>8, <3>1
    <3>3. PICK last \in Int : last = n - 1 /\ last = nsc + q - tail
      <4>1. n = nsc + (q + 1 - tail) /\ n \in Int /\ nsc \in Int /\ tail \in Int
        BY <2>3, <2>4, <2>5
      <4> QED
        BY <4>1
    <3>4. i \in Int /\ i <= last
      BY <3>3
    <3>5. nsc <= i /\ nsc \in Int /\ tail \in Int
      BY <2>3, <2>4, <2>8
    <3>6. x \in tail..q
      BY <3>2, <3>3, <3>4, <3>5
    <3> QED
      BY <2>4, <2>6, <3>2, <3>6
  <2>9. \A i \in 0..n - 1 : i \in Nat /\ (i < nsc \/ nsc <= i)
    BY <2>3, <2>5
  <2>10. ASSUME NEW i \in 0..n - 1 PROVE CellOf(i, sel, q) \in cells
    BY <2>7, <2>8, <2>9
  <2>11. ASSUME NEW i \in 0..n - 1, NEW j \in 0..n - 1, CellOf(i, sel, q) = CellOf(j, sel, q) PROVE i = j
    <3>1. CASE i < nsc /\ j < nsc
      <4>1. PICK k \in 1..TopBlocks, l \in 1..TopBlocks :
                   k = i \div Ratio + 1 /\ l = j \div Ratio + 1 /\ sel[k] = sel[l]
        BY <2>7, <2>9, <2>11, <3>1
      <4>2. \A b \in 1..TopBlocks : sel[b] \in Nat
        BY <2>1
      <4>3. k = l
        BY <2>1, <4>1, <4>2
      <4>4. PICK x \in Nat, y \in Nat : x = i \div Ratio /\ y = j \div Ratio
        BY <2>9, CellsOf
      <4>5. x = y
        BY <4>1, <4>3, <4>4
      <4>a. PICK m \in Nat : m = Ratio * sel[k]
        BY <4>2, ProductGrows, AttentionConstants
      <4>6. PICK o \in Nat : o = Ratio * x
        BY <4>4, ProductGrows, AttentionConstants
      <4>b. m \in Nat /\ o \in Nat
        BY <4>a, <4>6
      <4>7. CellOf(i, sel, q) = m + i - o /\ CellOf(j, sel, q) = m + j - o
        BY <2>7, <2>9, <3>1, <4>1, <4>3, <4>4, <4>5, <4>6, <4>a
      <4>8. m + i - o = m + j - o /\ i \in Nat /\ j \in Nat
        BY <2>9, <2>11, <4>7
      <4> QED
        BY <4>b, <4>8
    <3>2. CASE nsc <= i /\ nsc <= j
      <4>1. CellOf(i, sel, q) = tail + i - nsc /\ CellOf(j, sel, q) = tail + j - nsc
        BY <2>8, <3>2
      <4>2. i \in Nat /\ j \in Nat /\ tail \in Nat /\ nsc \in Nat
        BY <2>3, <2>4, <2>9
      <4>3. tail + i - nsc = tail + j - nsc
        BY <2>11, <4>1
      <4> QED
        BY <4>2, <4>3
    <3>3. CASE i < nsc /\ nsc <= j
      BY <2>4, <2>7, <2>8, <2>9, <2>11, <3>3
    <3>4. CASE nsc <= i /\ j < nsc
      BY <2>4, <2>7, <2>8, <2>9, <2>11, <3>4
    <3> QED
      BY <2>9, <3>1, <3>2, <3>3, <3>4
  <2>12. ASSUME NEW c \in cells PROVE \E i \in 0..n - 1 : CellOf(i, sel, q) = c
    <3>1. c \in 0..q /\ c \in Nat /\ (c >= tail \/ c \div Ratio \in Range(sel))
      BY <2>6
    <3>2. CASE c >= tail
      <4>1. nsc + (c - tail) \in 0..n - 1 /\ nsc <= nsc + (c - tail)
        <5>1. n = nsc + (q + 1 - tail) /\ nsc \in Nat /\ tail \in Nat /\ c \in Nat /\ c <= q
          BY <2>3, <2>4, <2>5, <3>1
        <5> QED
          BY <3>2, <5>1
      <4>2. CellOf(nsc + (c - tail), sel, q) = tail + (nsc + (c - tail)) - nsc
        BY <2>8, <4>1
      <4>3. tail \in Nat /\ nsc \in Nat /\ c \in Nat
        BY <2>3, <2>4, <3>1
      <4>4. tail + (nsc + (c - tail)) - nsc = c
        BY <4>3
      <4>5. CellOf(nsc + (c - tail), sel, q) = c
        BY <4>2, <4>4
      <4> QED
        BY <4>1, <4>5
    <3>3. CASE c \div Ratio \in Range(sel)
      <4>1. PICK k \in 1..TopBlocks : c \div Ratio = sel[k]
        BY <2>1, <3>3 DEF Range
      <4>2. PICK b \in Nat : b = sel[k] /\ Ratio * b <= c /\ c < Ratio * b + Ratio
        BY <3>1, <4>1, CellsOf
      <4>3. PICK j \in Nat : j = k - 1 /\ j + 1 = k /\ j + 1 <= TopBlocks
        BY <2>1, <4>1
      <4>4. PICK m \in Nat, o \in Nat : m = Ratio * b /\ o = Ratio * j
        BY <4>2, <4>3, AttentionConstants
      <4>5. PICK i \in Nat : i = o + (c - m) /\ o <= i /\ i < o + Ratio
        <5>1. m <= c /\ c < m + Ratio
          BY <4>2, <4>4
        <5>2. o + (c - m) \in Nat /\ o <= o + (c - m) /\ o + (c - m) < o + Ratio
          BY <3>1, <4>4, <5>1, AttentionConstants
        <5> QED
          BY <5>2
      <4>6. Ratio * (j + 1) <= Ratio * TopBlocks /\ Ratio * (j + 1) = o + Ratio
        BY <2>1, <4>3, <4>4, ProductGrows, ProductNext, AttentionConstants
      <4>7. i < nsc
        BY <2>3, <4>4, <4>5, <4>6, AttentionConstants
      <4>8. i \div Ratio = j
        BY <4>3, <4>4, <4>5, CellsOf
      <4>9. CellOf(i, sel, q) = m + i - o
        BY <2>7, <4>2, <4>3, <4>4, <4>7, <4>8
      <4>10. CellOf(i, sel, q) = c
        <5>1. i = o + (c - m) /\ i \in Nat /\ o \in Nat /\ m \in Nat /\ c \in Nat
          BY <3>1, <4>4, <4>5
        <5> QED
          BY <4>9, <5>1
      <4>11. i \in 0..n - 1
        <5>1. nsc <= n /\ n \in Nat
          BY <2>3, <2>4, <2>5
        <5> QED
          BY <2>3, <4>5, <4>7, <5>1
      <4> QED
        BY <4>10, <4>11
    <3> QED
      BY <3>1, <3>2, <3>3
  <2> QED
    BY <2>5, <2>10, <2>11, <2>12 DEF n
<1> QED
  BY <1>1, <1>2

LEMMA AttendedFinite == ASSUME NEW q \in Nat, NEW sel PROVE IsFiniteSet(Attended(sel, q))
<1>1. Attended(sel, q) \subseteq 0..q /\ IsFiniteSet(0..q)
  BY FS_Interval DEF Attended
<1> QED
  BY <1>1, FS_Subset

\* The splits of a decode row.
LEMMA SplitsOnce ==
  ASSUME NEW q \in Nat, NEW sel \in {<<>>} \cup Selections(Complete(q))
  PROVE  Once(qsa_attention(sel, q), Attended(sel, q))
<1> DEFINE n     == Keys(sel, q)
           kps   == Max({MinKeys, (n + Splits - 1) \div Splits})
           reads == qsa_attention(sel, q)
           Split(s) == {<<s, i, CellOf(i, sel, q)>> : i \in s * kps .. Min({n, s * kps + kps}) - 1}
<1>1. n \in Nat \ {0}
  BY KeysAreCells
<1> HIDE DEF n
<1>2. kps \in Nat \ {0} /\ n <= Splits * kps
  <2>1. n + Splits - 1 \in Nat
    BY <1>1, AttentionConstants
  <2>2. PICK k \in Nat : k = (n + Splits - 1) \div Splits /\ n + Splits - 1 < Splits * k + Splits
    BY <2>1, QuotientIs, AttentionConstants
  <2>3. kps = IF MinKeys >= k THEN MinKeys ELSE k
    BY <2>2, MaxOfTwo, AttentionConstants
  <2>4. kps \in Nat \ {0} /\ k <= kps
    BY <2>2, <2>3, AttentionConstants
  <2>5. Splits * k <= Splits * kps
    BY <2>2, <2>4, ProductGrows, AttentionConstants
  <2>6. PICK x \in Nat, y \in Nat : x = Splits * k /\ y = Splits * kps
    BY <2>2, <2>4, AttentionConstants
  <2> QED
    BY <1>1, <2>2, <2>4, <2>5, <2>6, AttentionConstants
<1>3. reads = UNION {Split(s) : s \in 0..Splits - 1}
  BY DEF qsa_attention, n
<1> HIDE DEF kps, reads
\* A read is one of the n keys, in the split that holds it.
<1>4. ASSUME NEW x \in reads PROVE \E i \in 0..n - 1 : x = <<i \div kps, i, CellOf(i, sel, q)>>
  <2>1. PICK s \in 0..Splits - 1 : x \in Split(s)
    BY <1>3
  <2>2. PICK i \in s * kps .. Min({n, s * kps + kps}) - 1 : x = <<s, i, CellOf(i, sel, q)>>
    BY <2>1
  <2>3. PICK m \in Nat : m = s * kps /\ m = kps * s
    BY <1>2, <2>1, AttentionConstants
  <2>4. Min({n, m + kps}) = IF n <= m + kps THEN n ELSE m + kps
    BY <1>1, <1>2, <2>3, MinOfTwo
  <2>5. i \in 0..n - 1 /\ m <= i /\ i < m + kps
    BY <1>1, <1>2, <2>2, <2>3, <2>4
  <2>6. i \div kps = s
    BY <1>2, <2>1, <2>3, <2>5, QuotientOf, AttentionConstants
  <2> QED
    BY <2>2, <2>5, <2>6
<1>5. ASSUME NEW i \in 0..n - 1 PROVE <<i \div kps, i, CellOf(i, sel, q)>> \in reads
  <2>1. i \in Nat /\ i < n
    BY <1>1
  <2>2. PICK s \in Nat, m \in Nat : s = i \div kps /\ m = kps * s /\ m = s * kps /\ m <= i /\ i < m + kps
    BY <1>2, <2>1, QuotientWith
  <2>3. s < Splits
    <3>1. SUFFICES ASSUME Splits <= s PROVE FALSE
      BY <2>2, AttentionConstants
    <3>2. kps * Splits <= kps * s
      BY <1>2, <2>2, <3>1, ProductGrows, AttentionConstants
    <3>3. PICK y \in Nat : y = kps * Splits /\ y = Splits * kps
      BY <1>2, ProductNext, AttentionConstants
    <3> QED
      BY <1>1, <1>2, <2>1, <2>2, <3>2, <3>3
  <2>4. Min({n, m + kps}) = IF n <= m + kps THEN n ELSE m + kps
    BY <1>1, <1>2, <2>2, MinOfTwo
  <2>5. i \in s * kps .. Min({n, s * kps + kps}) - 1
    <3>1. i \in m .. Min({n, m + kps}) - 1
      BY <1>1, <1>2, <2>1, <2>2, <2>4
    <3> QED
      BY <2>2, <3>1
  <2>6. <<s, i, CellOf(i, sel, q)>> \in Split(s) /\ s \in 0..Splits - 1
    BY <2>2, <2>3, <2>5, AttentionConstants
  <2> HIDE DEF Split
  <2> QED
    BY <1>3, <2>2, <2>6
<1>6. \A x \in reads : x[3] \in Attended(sel, q)
  BY <1>4, KeysAreCells DEF n
<1>7. ASSUME NEW x \in reads, NEW y \in reads, x[3] = y[3] PROVE x = y
  <2>1. PICK i \in 0..n - 1, j \in 0..n - 1 : x = <<i \div kps, i, CellOf(i, sel, q)>> /\ y = <<j \div kps, j, CellOf(j, sel, q)>>
    BY <1>4
  <2>2. CellOf(i, sel, q) = CellOf(j, sel, q)
    BY <1>7, <2>1
  <2>3. i = j
    BY <2>2, KeysAreCells DEF n
  <2> QED
    BY <2>1, <2>3
<1>8. ASSUME NEW c \in Attended(sel, q) PROVE \E x \in reads : x[3] = c
  <2>1. PICK i \in 0..n - 1 : CellOf(i, sel, q) = c
    BY KeysAreCells DEF n
  <2> QED
    BY <1>5, <2>1
<1>9. Once(reads, Attended(sel, q))
  BY <1>6, <1>7, <1>8, AttendedFinite, OncePerCell
<1> QED
  BY <1>9 DEF reads

\* The tiles of keys of a prompt row on its own.
LEMMA TilesOnce ==
  ASSUME NEW q \in Nat, NEW sel \in {<<>>} \cup Selections(Complete(q))
  PROVE  Once(qsa_attention_prefill(sel, q), Attended(sel, q))
<1> DEFINE n      == Keys(sel, q)
           starts == {k \in 0..n - 1 : k % KeyTile = 0}
           reads  == qsa_attention_prefill(sel, q)
           Keyed(k0) == {<<k0, k, CellOf(k0 + k, sel, q)>> : k \in 0..Min({KeyTile, n - k0}) - 1}
<1>1. n \in Nat \ {0}
  BY KeysAreCells
<1>2. reads = UNION {Keyed(k0) : k0 \in starts}
  BY DEF qsa_attention_prefill
<1> HIDE DEF n, reads
<1>3. ASSUME NEW k0 \in 0..n - 1 PROVE Min({KeyTile, n - k0}) = IF KeyTile <= n - k0 THEN KeyTile ELSE n - k0
  <2>1. PICK d \in Int : d = n - k0
    BY <1>1
  <2> QED
    BY <2>1, MinOfTwo, AttentionConstants
\* A read is one of the n keys, in the tile that holds it.
<1>4. ASSUME NEW x \in reads
      PROVE  \E i \in 0..n - 1 : \E m \in Nat : m = KeyTile * (i \div KeyTile) /\ x = <<m, i - m, CellOf(i, sel, q)>>
  <2>1. PICK k0 \in starts : x \in Keyed(k0)
    BY <1>2
  <2>2. PICK k \in 0..Min({KeyTile, n - k0}) - 1 : x = <<k0, k, CellOf(k0 + k, sel, q)>>
    BY <2>1
  <2>3. k0 \in Nat /\ k \in Nat /\ k < KeyTile /\ k0 + k < n /\ k0 % KeyTile = 0
    <3>1. k0 \in 0..n - 1 /\ k0 % KeyTile = 0
      BY <2>1
    <3>2. PICK d \in Nat : d = n - k0
      BY <1>1, <3>1
    <3>3. k \in 0..(IF KeyTile <= d THEN KeyTile ELSE d) - 1
      BY <1>3, <2>2, <3>1, <3>2
    <3> QED
      BY <1>1, <3>1, <3>2, <3>3, AttentionConstants
  <2>4. PICK t \in Nat : t = k0 \div KeyTile /\ k0 = KeyTile * t
    <3>1. PICK t \in Nat, m \in Nat :
                 t = k0 \div KeyTile /\ m = KeyTile * t /\ m = t * KeyTile /\ m <= k0 /\ k0 < m + KeyTile /\ k0 % KeyTile = k0 - m
      BY <2>3, QuotientWith, AttentionConstants
    <3> QED
      BY <2>3, <3>1
  <2>5. PICK i \in Nat : i = k0 + k
    BY <2>3
  <2>6. i \div KeyTile = t
    <3>1. KeyTile * t <= i /\ i < KeyTile * t + KeyTile
      BY <2>3, <2>4, <2>5, AttentionConstants
    <3> QED
      BY <2>4, <2>5, <3>1, QuotientOf, AttentionConstants
  <2>7. i \in 0..n - 1 /\ i - k0 = k
    BY <1>1, <2>3, <2>5
  <2> QED
    BY <2>2, <2>3, <2>4, <2>5, <2>6, <2>7
<1>5. ASSUME NEW i \in 0..n - 1 PROVE \E x \in reads : x[3] = CellOf(i, sel, q)
  <2>1. i \in Nat /\ i < n
    BY <1>1
  <2>2. PICK t \in Nat, m \in Nat :
               t = i \div KeyTile /\ m = KeyTile * t /\ m = t * KeyTile /\ m <= i /\ i < m + KeyTile /\ i % KeyTile = i - m
    BY <2>1, QuotientWith, AttentionConstants
  <2>3. m \in 0..n - 1
    BY <1>1, <2>1, <2>2
  <2>4. m \div KeyTile = t
    BY <2>2, QuotientOf, AttentionConstants
  <2>5. m % KeyTile = 0
    <3>1. m % KeyTile = m - KeyTile * (m \div KeyTile)
      BY <2>2, QuotientIs, AttentionConstants
    <3> QED
      BY <2>2, <2>4, <3>1
  <2>6. i - m \in 0..Min({KeyTile, n - m}) - 1
    <3>1. PICK d \in Nat, e \in Nat : d = n - m /\ e = i - m /\ e < d /\ e < KeyTile
      <4>1. n - m \in Nat /\ i - m \in Nat /\ i - m < n - m /\ i - m < KeyTile
        BY <1>1, <2>1, <2>2, AttentionConstants
      <4> QED
        BY <4>1
    <3>2. Min({KeyTile, d}) = IF KeyTile <= d THEN KeyTile ELSE d
      BY <3>1, MinOfTwo, AttentionConstants
    <3> QED
      BY <3>1, <3>2, AttentionConstants
  <2>7. m \in starts
    BY <2>3, <2>5
  <2>8. <<m, i - m, CellOf(m + (i - m), sel, q)>> \in Keyed(m)
    BY <2>6
  <2>9. m + (i - m) = i
    BY <2>1, <2>2
  <2>10. <<m, i - m, CellOf(i, sel, q)>> \in reads
    BY <1>2, <2>7, <2>8, <2>9
  <2> QED
    BY <2>10
<1>6. \A x \in reads : x[3] \in Attended(sel, q)
  BY <1>4, KeysAreCells DEF n
<1>7. ASSUME NEW x \in reads, NEW y \in reads, x[3] = y[3] PROVE x = y
  <2>1. PICK i \in 0..n - 1 : \E m \in Nat : m = KeyTile * (i \div KeyTile) /\ x = <<m, i - m, CellOf(i, sel, q)>>
    BY <1>4
  <2>2. PICK j \in 0..n - 1 : \E m \in Nat : m = KeyTile * (j \div KeyTile) /\ y = <<m, j - m, CellOf(j, sel, q)>>
    BY <1>4
  <2>3. CellOf(i, sel, q) = CellOf(j, sel, q)
    BY <1>7, <2>1, <2>2
  <2>4. i = j
    BY <2>3, KeysAreCells DEF n
  <2> QED
    BY <2>1, <2>2, <2>4
<1>8. ASSUME NEW c \in Attended(sel, q) PROVE \E x \in reads : x[3] = c
  <2>1. PICK i \in 0..n - 1 : CellOf(i, sel, q) = c
    BY KeysAreCells DEF n
  <2> QED
    BY <1>5, <2>1
<1>9. Once(reads, Attended(sel, q))
  BY <1>6, <1>7, <1>8, AttendedFinite, OncePerCell
<1> QED
  BY <1>9 DEF reads

\* A row that attends on its own, to everything or to whatever blocks it selected and its tail, has a key for each of its
\* cells, and reads each key once: in one split of a decode row (qsa_attn_partial_k, qsa_attn_combine_k), in one tile of
\* keys of a prompt row (qsa_attn_prefill_tc_k of src/kernels/qsa.cu).
THEOREM EveryKeyOnce ==
  \A q \in Nat : \A sel \in {<<>>} \cup Selections(Complete(q)) :
    Once(qsa_attention(sel, q), Attended(sel, q)) /\ Once(qsa_attention_prefill(sel, q), Attended(sel, q))
BY SplitsOnce, TilesOnce

-----------------------------------------------------------------------------
(* The selection, and the run's launches *)

\* The selection of a sparse row: its best blocks, in block order.
LEMMA SelectionIs ==
  ASSUME NEW q \in Nat, NEW scores \in AllScores(q), ~Dense(q)
  PROVE  /\ qsa_topk(scores, q) \in Selections(Complete(q))
         /\ Range(qsa_topk(scores, q)) = Largest([b \in 0..Complete(q) - 1 |-> scores[b]], TopBlocks)
<1>1. PICK n \in Nat \ {0} : n = Complete(q) /\ TopBlocks \in 1..n
  <2>1. PICK n \in Nat : n = Complete(q)
    BY CompleteIs
  <2>2. PICK t \in Nat : t + 1 = TopBlocks
    BY AttentionConstants
  <2>3. Ratio * t + Ratio = Ratio * TopBlocks /\ Ratio * TopBlocks = TopBlocks * Ratio
    BY <2>2, ProductNext, AttentionConstants
  <2>4. PICK m \in Nat : m = TopBlocks * Ratio /\ q + 1 > m + Ratio - 1
    BY AttentionConstants DEF Dense, dense_cells
  <2>5. t < n
    BY <2>1, <2>2, <2>3, <2>4, CompleteIs, AttentionConstants
  <2> QED
    BY <2>1, <2>2, <2>5
<1> DEFINE row == [b \in 0..Complete(q) - 1 |-> scores[b]]
           Q   == Largest(row, TopBlocks)
           f   == [b \in Q |-> Rank(Q, b)]
           sel == qsa_topk(scores, q)
<1>2. DOMAIN row = 0..n - 1 /\ Cardinality(0..n - 1) = n /\ IsFiniteSet(0..n - 1)
  <2>1. DOMAIN row = 0..n - 1
    BY <1>1
  <2>2. Cardinality(0..n - 1) = n /\ IsFiniteSet(0..n - 1)
    BY FS_Interval
  <2> QED
    BY <2>1, <2>2
<1>3. IsRow(row)
  <2>1. \A b \in 0..n - 1 : row[b] \in Floats
    <3>1. Max({0, n - 1}) = n - 1
      BY MaxOfTwo
    <3>2. scores \in [0..n - 1 -> Scores]
      BY <1>1, <3>1 DEF AllScores
    <3>3. Scores \subseteq 0..Sign - 1 /\ Sign \in Nat
      BY SparseAttentionAssumption, SignIs
    <3>4. 0..Sign - 1 \subseteq Floats
      BY <3>3 DEF Floats
    <3> QED
      BY <1>1, <3>2, <3>3, <3>4
  <2> QED
    BY <1>1, <1>2, <2>1 DEF IsRow
<1> HIDE DEF row
<1>4. /\ Q \in SUBSET (0..n - 1) /\ IsFiniteSet(Q) /\ Cardinality(Q) = TopBlocks
      /\ topk_rows(row, TopBlocks) = {<<Rank(Q, b), b>> : b \in Q}
  BY <1>1, <1>2, <1>3, TopKWrites
<1> HIDE DEF Q
<1>5. f \in Bijection(Q, 0..TopBlocks - 1) /\ \A b, d \in Q : b < d => f[b] < f[d]
  <2>1. Q \in SUBSET Nat
    BY <1>4
  <2> QED
    BY <1>4, <2>1, RanksAre DEF Rank
<1>6. /\ f \in [Q -> 0..TopBlocks - 1] /\ \A i \in 0..TopBlocks - 1 : \E b \in Q : f[b] = i
      /\ \A b, d \in Q : f[b] = f[d] => b = d
  BY <1>5 DEF Bijection, Injection, Surjection, IsInjective
<1>7. sel = [s \in 1..TopBlocks |-> CHOOSE b \in 0..Complete(q) - 1 : <<s - 1, b>> \in topk_rows(row, TopBlocks)]
  BY DEF qsa_topk, row
<1>8. ASSUME NEW s \in 1..TopBlocks PROVE sel[s] \in Q /\ f[sel[s]] = s - 1
  <2>1. s - 1 \in 0..TopBlocks - 1
    BY AttentionConstants
  <2>2. PICK c \in Q : f[c] = s - 1
    BY <1>6, <2>1
  <2>3. <<s - 1, c>> \in {<<Rank(Q, b), b>> : b \in Q} /\ c \in 0..n - 1
    BY <1>4, <2>2
  <2>4. <<s - 1, sel[s]>> \in topk_rows(row, TopBlocks)
    <3>1. c \in 0..Complete(q) - 1 /\ <<s - 1, c>> \in topk_rows(row, TopBlocks)
      BY <1>1, <1>4, <2>3
    <3>2. sel[s] = CHOOSE b \in 0..Complete(q) - 1 : <<s - 1, b>> \in topk_rows(row, TopBlocks)
      BY <1>7
    <3> QED
      BY <3>1, <3>2
  <2>5. PICK b \in Q : <<s - 1, sel[s]>> = <<Rank(Q, b), b>>
    BY <1>4, <2>4
  <2> QED
    BY <2>5
<1> HIDE DEF f
<1>9. DOMAIN sel = 1..TopBlocks /\ sel = [s \in 1..TopBlocks |-> sel[s]]
  BY <1>7
<1> HIDE DEF sel
<1>10. ASSUME NEW i \in 1..TopBlocks, NEW j \in 1..TopBlocks, i < j PROVE sel[i] < sel[j]
  <2>1. sel[i] \in Q /\ sel[j] \in Q /\ f[sel[i]] = i - 1 /\ f[sel[j]] = j - 1
    BY <1>8
  <2>2. i \in Nat /\ j \in Nat /\ sel[i] \in Nat /\ sel[j] \in Nat
    <3>1. Q \subseteq 0..n - 1
      BY <1>4
    <3>2. sel[i] \in 0..n - 1 /\ sel[j] \in 0..n - 1
      BY <2>1, <3>1
    <3>3. sel[i] \in Nat /\ sel[j] \in Nat
      BY <3>2
    <3>4. i \in Nat /\ j \in Nat
      BY AttentionConstants
    <3> QED
      BY <3>3, <3>4
  <2>3. sel[i] # sel[j]
    BY <1>10, <2>1, <2>2
  <2>4. ~(sel[j] < sel[i])
    <3>1. SUFFICES ASSUME sel[j] < sel[i] PROVE FALSE
      OBVIOUS
    <3>2. j - 1 < i - 1
      BY <1>5, <2>1, <3>1
    <3> QED
      BY <1>10, <2>2, <3>2
  <2> QED
    BY <2>2, <2>3, <2>4
<1>11. sel \in [1..TopBlocks -> 0..n - 1]
  BY <1>4, <1>8, <1>9
<1>12. sel \in Selections(n)
  BY <1>10, <1>11 DEF Selections
<1>13. Range(sel) = Q
  <2>1. \A b \in Q : \E s \in 1..TopBlocks : sel[s] = b
    <3>1. SUFFICES ASSUME NEW b \in Q PROVE \E s \in 1..TopBlocks : sel[s] = b
      OBVIOUS
    <3>2. f[b] + 1 \in 1..TopBlocks /\ (f[b] + 1) - 1 = f[b]
      BY <1>6, AttentionConstants
    <3>3. sel[f[b] + 1] \in Q /\ f[sel[f[b] + 1]] = f[b]
      BY <1>8, <3>2
    <3> QED
      BY <1>6, <3>2, <3>3
  <2> QED
    BY <1>8, <1>9, <2>1 DEF Range
<1> QED
  BY <1>1, <1>12, <1>13 DEF sel, Q, row

\* Every row that attends reads its context once, whatever the scores: all of it near the start, else the cells of its best
\* blocks and its tail (qsa_topk_k, qsa_attn_partial_k and qsa_attn_prefill_tc_k of src/kernels/qsa.cu).
THEOREM ReadsOnceHolds == \A q \in Nat : ReadsOnce(q)
<1> SUFFICES ASSUME NEW q \in Nat, NEW scores \in AllScores(q)
             PROVE  /\ Once(qsa_attention(qsa_topk(scores, q), q), Context(scores, q))
                    /\ Once(qsa_attention_prefill(qsa_topk(scores, q), q), Context(scores, q))
  BY DEF ReadsOnce
<1>1. PICK sel : sel = qsa_topk(scores, q)
  OBVIOUS
<1>2. sel \in {<<>>} \cup Selections(Complete(q)) /\ Attended(sel, q) = Context(scores, q)
  <2>1. CASE Dense(q)
    <3>1. sel = <<>>
      BY <1>1, <2>1 DEF qsa_topk
    <3> QED
      BY <2>1, <3>1 DEF Attended, Context
  <2>2. CASE ~Dense(q)
    <3>1. sel \in Selections(Complete(q)) /\ Range(sel) = Largest([b \in 0..Complete(q) - 1 |-> scores[b]], TopBlocks)
      BY <1>1, <2>2, SelectionIs
    <3>2. sel # <<>>
      <4>1. DOMAIN sel = 1..TopBlocks
        BY <3>1 DEF Selections
      <4> QED
        BY <4>1, AttentionConstants
    <3> QED
      BY <2>2, <3>1, <3>2 DEF Attended, Context
  <2> QED
    BY <2>1, <2>2
<1> QED
  BY <1>1, <1>2, EveryKeyOnce

-----------------------------------------------------------------------------
(* What a row adds up of its experts: the routed experts *)

\* Ranks in a finite set of numbers say which of it they are.
LEMMA RankIs ==
  ASSUME NEW S \in SUBSET Nat, IsFiniteSet(S)
  PROVE  /\ \A i \in S : Rank(S, i) \in 0..Cardinality(S) - 1
         /\ \A i, j \in S : Rank(S, i) = Rank(S, j) => i = j
         /\ \A i, j \in S : i < j => Rank(S, i) < Rank(S, j)
         /\ \A r \in 0..Cardinality(S) - 1 : \E i \in S : Rank(S, i) = r
<1>1. PICK f : f = [i \in S |-> Cardinality({k \in S : k < i})]
  OBVIOUS
<1>2. f \in Bijection(S, 0..Cardinality(S) - 1) /\ \A i, j \in S : i < j => f[i] < f[j]
  BY <1>1, RanksAre
<1>3. \A i \in S : f[i] = Rank(S, i)
  BY <1>1 DEF Rank
<1> QED
  BY <1>2, <1>3 DEF Bijection, Injection, Surjection, IsInjective

\* Numbers that keep their order keep their ranks.
Rising(f, S) == \A i, j \in S : i < j => f[i] < f[j]

LEMMA RankKept ==
  ASSUME NEW S \in SUBSET Nat, IsFiniteSet(S), NEW f \in [S -> Nat], Rising(f, S), NEW i \in S
  PROVE  Rank({f[k] : k \in S}, f[i]) = Rank(S, i)
<1> DEFINE low  == {k \in S : k < i}
           high == {p \in {f[k] : k \in S} : p < f[i]}
           g    == [k \in low |-> f[k]]
<1>1. \A k \in S : f[k] < f[i] <=> k < i
  <2>1. SUFFICES ASSUME NEW k \in S PROVE f[k] < f[i] <=> k < i
    OBVIOUS
  <2>2. k \in Nat /\ i \in Nat /\ f[k] \in Nat /\ f[i] \in Nat
    OBVIOUS
  <2>3. k < i => f[k] < f[i]
    BY DEF Rising
  <2>4. i < k => f[i] < f[k]
    BY DEF Rising
  <2>5. k = i => f[k] = f[i]
    OBVIOUS
  <2> QED
    BY <2>2, <2>3, <2>4, <2>5
<1>2. high = {f[k] : k \in low}
  BY <1>1
<1>3. g \in Bijection(low, high)
  <2>1. g \in [low -> high]
    BY <1>2
  <2>2. ASSUME NEW k \in low, NEW l \in low, g[k] = g[l] PROVE k = l
    <3>1. k \in Nat /\ l \in Nat /\ k \in S /\ l \in S /\ f[k] = f[l] /\ f[k] \in Nat
      BY <2>2
    <3>2. ~(k < l) /\ ~(l < k)
      BY <3>1 DEF Rising
    <3> QED
      BY <3>1, <3>2
  <2>3. \A p \in high : \E k \in low : g[k] = p
    BY <1>2
  <2> HIDE DEF g, low, high
  <2> QED
    BY <2>1, <2>2, <2>3 DEF Bijection, Injection, Surjection, IsInjective
<1>4. IsFiniteSet(low)
  <2>1. low \in SUBSET S
    OBVIOUS
  <2> QED
    BY <2>1, FS_Subset
<1>5. ExistsBijection(low, high)
  BY <1>3 DEF ExistsBijection
<1> HIDE DEF low, high
<1>6. Cardinality(high) = Cardinality(low)
  BY <1>4, <1>5, FS_Bijection
<1> USE DEF low, high
<1> QED
  BY <1>6 DEF Rank

LEMMA RoutedConstants ==
  /\ n_expert \in Nat \ {0} /\ Used \in Nat \ {0} /\ WindowRows \in Nat \ {0} /\ WindowRows <= 8 /\ Pass \in Nat \ {0}
  /\ Experts = 0..n_expert - 1 /\ IsFiniteSet(Experts) /\ n_expert = Cardinality(Experts)
  /\ Bands \in Seq(SUBSET Experts)
  /\ \A g, h \in DOMAIN Bands : g # h => Bands[g] \cap Bands[h] = {}
<1>1. n_expert \in Nat
  BY RoutedExpertsAssumption, FS_CardinalityType DEF n_expert
<1>2. Used \in 1..n_expert /\ WindowRows \in 1..8 /\ Pass \in Nat \ {0}
  BY RoutedExpertsAssumption
<1> QED
  BY <1>1, <1>2, RoutedExpertsAssumption DEF n_expert

\* A band's experts have the band's slots.
LEMMA ColdSlotIs ==
  ASSUME NEW e \in Cold
  PROVE  \E g \in DOMAIN Bands : /\ g \in Nat \ {0} /\ e \in Bands[g]
                                 /\ Rank(Bands[g], e) \in 0..Cardinality(Bands[g]) - 1 /\ Cardinality(Bands[g]) \in 0..n_expert
                                 /\ ColdSlot(e) = n_expert * g + Rank(Bands[g], e)
<1>1. PICK g \in DOMAIN Bands : g = CHOOSE h \in DOMAIN Bands : e \in Bands[h]
  BY DEF Cold
<1>2. e \in Bands[g]
  BY <1>1 DEF Cold
<1>3. g \in Nat \ {0} /\ Bands[g] \in SUBSET Experts
  BY RoutedConstants
<1>4. IsFiniteSet(Bands[g]) /\ Cardinality(Bands[g]) \in 0..n_expert
  <2>1. IsFiniteSet(Bands[g]) /\ Cardinality(Bands[g]) <= Cardinality(Experts)
    BY <1>3, RoutedConstants, FS_Subset
  <2> QED
    BY <2>1, RoutedConstants, FS_CardinalityType
<1>5. Rank(Bands[g], e) \in 0..Cardinality(Bands[g]) - 1
  <2>1. Bands[g] \in SUBSET Nat
    BY <1>3, RoutedConstants
  <2> QED
    BY <1>2, <1>4, <2>1, RankIs
<1>6. ColdSlot(e) = n_expert * g + Rank(Bands[g], e)
  BY <1>1 DEF ColdSlot
<1> QED
  BY <1>2, <1>3, <1>4, <1>5, <1>6

\* A slot lies in a region, unless its band has none, and holds one expert: a cold one's slot is behind the hot ones'.
LEMMA SlotsAre ==
  ASSUME NEW slot_of \in SlotMaps
  PROVE  /\ slot_of \in [Experts -> Int]
         /\ \A e \in Experts : slot_of[e] # NoSlot => (slot_of[e] < n_expert <=> e \notin Cold)
         /\ \A e \in Experts : slot_of[e] # NoSlot => (region_of(slot_of[e]) = NoSlot <=> e \in Lost)
         /\ \A e \in Experts : slot_of[e] = NoSlot => e \notin Cold
         /\ \A e, d \in Experts : slot_of[e] # NoSlot /\ slot_of[e] = slot_of[d] => e = d
<1>1. PICK hot \in [Experts \ Cold -> {NoSlot} \cup 0..n_expert - 1] :
         /\ \A e, d \in Experts \ Cold : e # d /\ hot[e] # NoSlot => hot[e] # hot[d]
         /\ slot_of = [e \in Experts |-> IF e \in Cold THEN ColdSlot(e) ELSE hot[e]]
  BY DEF SlotMaps
<1>2. Cold \in SUBSET Experts
  BY RoutedConstants DEF Cold
<1>3. \A e \in Experts \ Cold : slot_of[e] = hot[e] /\ (slot_of[e] = NoSlot \/ slot_of[e] \in 0..n_expert - 1)
  BY <1>1
<1>4. \A e \in Cold : slot_of[e] = ColdSlot(e)
  BY <1>1, <1>2
<1>5. NoSlot = -1
  BY DEF NoSlot
<1>6. ASSUME NEW e \in Cold PROVE slot_of[e] \in Nat /\ n_expert <= slot_of[e]
  <2>1. PICK g \in Nat \ {0}, r \in Nat : ColdSlot(e) = n_expert * g + r
    BY ColdSlotIs
  <2>2. n_expert * 1 <= n_expert * g /\ n_expert * g \in Nat /\ n_expert * 1 = n_expert
    <3>1. 1 <= g /\ n_expert \in Nat
      BY RoutedConstants
    <3> QED
      BY <3>1, ProductGrows
  <2>3. PICK m \in Nat : m = n_expert * g
    BY <2>2
  <2> QED
    BY <1>4, <2>1, <2>2, <2>3, RoutedConstants
<1>7. slot_of \in [Experts -> Int]
  <2>1. \A e \in Experts : slot_of[e] \in Int
    BY <1>3, <1>5, <1>6, RoutedConstants
  <2> QED
    BY <1>1, <2>1
<1>8. \A e \in Experts : slot_of[e] # NoSlot => (slot_of[e] < n_expert <=> e \notin Cold)
  BY <1>3, <1>6, RoutedConstants
<1>9. \A e \in Experts : slot_of[e] = NoSlot => e \notin Cold
  BY <1>5, <1>6
<1>10. ASSUME NEW e \in Cold, NEW d \in Cold, slot_of[e] = slot_of[d] PROVE e = d
  <2>1. PICK g \in DOMAIN Bands : /\ g \in Nat \ {0} /\ e \in Bands[g]
                                  /\ Rank(Bands[g], e) \in 0..Cardinality(Bands[g]) - 1 /\ Cardinality(Bands[g]) \in 0..n_expert
                                  /\ ColdSlot(e) = n_expert * g + Rank(Bands[g], e)
    BY ColdSlotIs
  <2>2. PICK h \in DOMAIN Bands : /\ h \in Nat \ {0} /\ d \in Bands[h]
                                  /\ Rank(Bands[h], d) \in 0..Cardinality(Bands[h]) - 1 /\ Cardinality(Bands[h]) \in 0..n_expert
                                  /\ ColdSlot(d) = n_expert * h + Rank(Bands[h], d)
    BY ColdSlotIs
  <2>3. PICK s \in Nat : s = ColdSlot(e) /\ s = ColdSlot(d)
    BY <1>4, <1>6, <1>10
  <2>4. PICK r \in Nat : r = Rank(Bands[g], e) /\ r < n_expert /\ s = n_expert * g + r
    BY <2>1, <2>3, RoutedConstants
  <2>5. PICK q \in Nat : q = Rank(Bands[h], d) /\ q < n_expert /\ s = n_expert * h + q
    BY <2>2, <2>3, RoutedConstants
  <2>6. s \div n_expert = g
    <3>1. PICK m \in Nat : m = n_expert * g
      BY <2>1, RoutedConstants, ProductGrows
    <3>2. m <= s /\ s < m + n_expert
      BY <2>4, <3>1, RoutedConstants
    <3> QED
      BY <2>1, <3>1, <3>2, RoutedConstants, QuotientOf
  <2>7. s \div n_expert = h
    <3>1. PICK m \in Nat : m = n_expert * h
      BY <2>2, RoutedConstants, ProductGrows
    <3>2. m <= s /\ s < m + n_expert
      BY <2>5, <3>1, RoutedConstants
    <3> QED
      BY <2>2, <3>1, <3>2, RoutedConstants, QuotientOf
  <2>8. r = q
    <3>1. PICK m \in Int : m = n_expert * g
      BY <2>1, RoutedConstants, ProductGrows
    <3>2. s = m + r /\ s = m + q
      BY <2>4, <2>5, <2>6, <2>7, <3>1
    <3> QED
      BY <3>1, <3>2
  <2>9. Bands[g] \in SUBSET Experts
    BY RoutedConstants
  <2>10. IsFiniteSet(Bands[g]) /\ Bands[g] \in SUBSET Nat
    BY <2>9, RoutedConstants, FS_Subset
  <2>11. d \in Bands[g] /\ Rank(Bands[g], d) = Rank(Bands[g], e)
    BY <2>2, <2>4, <2>5, <2>6, <2>7, <2>8
  <2> QED
    BY <2>1, <2>10, <2>11, RankIs
<1>11. \A e, d \in Experts : slot_of[e] # NoSlot /\ slot_of[e] = slot_of[d] => e = d
  <2>1. SUFFICES ASSUME NEW e \in Experts, NEW d \in Experts, slot_of[e] # NoSlot, slot_of[e] = slot_of[d] PROVE e = d
    OBVIOUS
  <2>2. e \in Cold <=> d \in Cold
    BY <1>8, <2>1
  <2>3. CASE e \in Cold
    BY <1>10, <2>1, <2>2, <2>3
  <2>4. CASE e \notin Cold
    BY <1>1, <1>3, <2>1, <2>2, <2>4
  <2> QED
    BY <2>3, <2>4
<1>12. ASSUME NEW e \in Experts, slot_of[e] # NoSlot PROVE region_of(slot_of[e]) = NoSlot <=> e \in Lost
  <2> DEFINE inside == {i \in DOMAIN regions : slot_of[e] >= regions[i].lo /\ slot_of[e] < regions[i].hi}
  <2>0. kMaxRegions = 4
    BY DEF kMaxRegions
  <2>1. Len(Bands) \in Nat /\ DOMAIN Bands = 1..Len(Bands)
    BY RoutedConstants
  <2>2. /\ DOMAIN regions \in SUBSET Nat /\ 0 \in DOMAIN regions
        /\ \A g \in DOMAIN Bands : g \in DOMAIN regions <=> g < 4
        /\ \A g \in DOMAIN regions : g < 4 /\ (g # 0 => g \in DOMAIN Bands)
    <3>1. DOMAIN regions = 0..Min({Len(Bands), 3})
      BY <2>0 DEF regions
    <3>2. Min({Len(Bands), 3}) = IF Len(Bands) <= 3 THEN Len(Bands) ELSE 3
      BY <2>1, MinOfTwo
    <3>3. PICK m \in Nat : m = Min({Len(Bands), 3})
      BY <2>1, <3>2
    <3> QED
      BY <2>1, <3>1, <3>2, <3>3
  <2>3. \A g \in DOMAIN regions : /\ regions[g].lo = n_expert * g
                                  /\ regions[g].hi = n_expert * g + IF g = 0 THEN n_expert ELSE Cardinality(Bands[g])
    BY DEF regions
  <2>4. e \notin Lost => inside # {}
    <3> SUFFICES ASSUME e \notin Lost PROVE inside # {}
      OBVIOUS
    <3>1. CASE e \in Cold
      <4>1. PICK g \in DOMAIN Bands : /\ g \in Nat \ {0} /\ Cardinality(Bands[g]) \in 0..n_expert /\ e \in Bands[g]
                                      /\ Rank(Bands[g], e) \in 0..Cardinality(Bands[g]) - 1
                                      /\ ColdSlot(e) = n_expert * g + Rank(Bands[g], e)
        BY <3>1, ColdSlotIs
      <4>2. g \in DOMAIN regions
        <5>1. ~(g >= kMaxRegions)
          BY <4>1 DEF Lost
        <5> QED
          BY <2>0, <2>2, <4>1, <5>1
      <4>3. PICK m \in Nat : m = n_expert * g
        BY <4>1, RoutedConstants, ProductGrows
      <4>4. PICK c \in Nat : c = Cardinality(Bands[g])
        BY <4>1
      <4>5. PICK r \in 0..c - 1 : r = Rank(Bands[g], e)
        BY <4>1, <4>4
      <4>6. regions[g].lo = n_expert * g /\ regions[g].hi = n_expert * g + Cardinality(Bands[g])
        BY <2>3, <4>1, <4>2
      <4>7. slot_of[e] = m + r /\ regions[g].lo = m /\ regions[g].hi = m + c
        BY <1>4, <3>1, <4>1, <4>3, <4>4, <4>5, <4>6
      <4>8. g \in inside
        BY <4>2, <4>3, <4>4, <4>5, <4>7
      <4> QED
        BY <4>8
    <3>2. CASE e \notin Cold
      <4>1. slot_of[e] \in 0..n_expert - 1
        BY <1>3, <1>12, <3>2
      <4>2. regions[0].lo = n_expert * 0 /\ regions[0].hi = n_expert * 0 + n_expert
        BY <2>2, <2>3
      <4>3. n_expert * 0 = 0 /\ n_expert \in Nat
        BY RoutedConstants
      <4>4. 0 \in inside
        BY <2>2, <4>1, <4>2, <4>3
      <4> QED
        BY <4>4
    <3> QED
      BY <3>1, <3>2
  <2>5. e \in Lost => inside = {}
    <3> SUFFICES ASSUME e \in Lost PROVE inside = {}
      OBVIOUS
    <3>1. PICK h \in DOMAIN Bands : h >= 4 /\ e \in Bands[h]
      BY <2>0 DEF Lost
    <3>2. e \in Cold
      BY <3>1 DEF Cold
    <3>3. PICK g \in DOMAIN Bands : /\ g \in Nat \ {0} /\ Cardinality(Bands[g]) \in 0..n_expert /\ e \in Bands[g]
                                    /\ Rank(Bands[g], e) \in 0..Cardinality(Bands[g]) - 1
                                    /\ ColdSlot(e) = n_expert * g + Rank(Bands[g], e)
      BY <3>2, ColdSlotIs
    <3>4. g = h
      BY <3>1, <3>3, RoutedConstants
    <3>5. PICK r \in Nat : r = Rank(Bands[g], e)
      BY <3>3
    <3>6. PICK U \in Nat \ {0} : U = n_expert
      BY RoutedConstants
    <3>7. PICK m \in Nat : m = U * g
      BY <3>3, <3>6, ProductGrows
    <3>8. slot_of[e] = m + r
      BY <1>4, <3>2, <3>3, <3>5, <3>6, <3>7
    <3>9. ASSUME NEW i \in DOMAIN regions PROVE ~(slot_of[e] < regions[i].hi)
      <4>1. i \in Nat /\ i + 1 <= g
        BY <2>2, <3>1, <3>3, <3>4
      <4>2. PICK l \in Nat : l = U * i
        BY <3>6, <4>1, ProductGrows
      <4>3. U * (i + 1) <= U * g /\ U * (i + 1) = l + U
        BY <3>3, <3>6, <4>1, <4>2, ProductGrows, ProductNext
      <4>4. l + U <= m
        BY <3>7, <4>3
      <4>5. PICK w \in 0..U : regions[i].hi = l + w
        <5>1. CASE i = 0
          BY <2>3, <3>6, <4>2, <5>1
        <5>2. CASE i # 0
          <6>1. i \in DOMAIN Bands
            BY <2>2, <5>2
          <6>2. Bands[i] \in SUBSET Experts
            BY <6>1, RoutedConstants
          <6>3. Cardinality(Bands[i]) \in Nat /\ Cardinality(Bands[i]) <= Cardinality(Experts)
            BY <6>2, RoutedConstants, FS_Subset, FS_CardinalityType
          <6>4. regions[i].hi = l + Cardinality(Bands[i])
            BY <2>3, <3>6, <4>2, <5>2
          <6> QED
            BY <3>6, <6>3, <6>4, RoutedConstants
        <5> QED
          BY <5>1, <5>2
      <4> QED
        BY <3>5, <3>6, <3>7, <3>8, <4>2, <4>4, <4>5
    <3> QED
      BY <3>9
  <2>6. inside \in SUBSET Nat
    BY <2>2
  <2>7. region_of(slot_of[e]) = IF inside = {} THEN NoSlot ELSE Min(inside)
    BY DEF region_of
  <2> HIDE DEF inside
  <2>8. CASE e \in Lost
    BY <2>5, <2>7, <2>8
  <2>9. CASE e \notin Lost
    <3>1. inside # {}
      BY <2>4, <2>9
    <3>2. \E m \in inside : \A i \in inside : m <= i
      BY <2>6, <3>1, LeastOf
    <3>3. Min(inside) \in inside
      BY <3>2 DEF Min
    <3>4. Min(inside) # NoSlot
      BY <1>5, <2>6, <3>3
    <3>5. region_of(slot_of[e]) = Min(inside)
      BY <2>7, <3>1
    <3> QED
      BY <2>9, <3>4, <3>5
  <2> QED
    BY <2>8, <2>9
<1> QED
  BY <1>7, <1>8, <1>9, <1>11, <1>12

\* The passes over an entry's packed rows compute every row of its mask.
LEMMA PassesCompute ==
  ASSUME NEW mask \in SUBSET Nat, IsFiniteSet(mask), Cardinality(mask) <= 8, NEW t \in mask
  PROVE  \E p0 \in {p \in 0..Cardinality(mask) - 1 : p % Pass = 0} :
           \E i \in 0..Min({Pass, Cardinality(mask) - p0}) - 1 : pack_tokens(mask)[p0 + i] = t
<1>1. PICK n \in Nat : n = Cardinality(mask)
  BY FS_CardinalityType
<1>2. PICK r \in 0..n - 1 : r = Rank(mask, t)
  BY <1>1, RankIs
<1>3. r \in Nat /\ r < n /\ r \in 0..7 /\ n <= 8
  BY <1>1, <1>2
<1>4. pack_tokens(mask)[r] = t
  <2>1. Min({r, n - 1}) = r
    BY <1>1, <1>2, MinOfTwo
  <2>2. pack_tokens(mask)[r] = CHOOSE u \in mask : Rank(mask, u) = r
    BY <1>1, <1>3, <2>1 DEF pack_tokens
  <2>3. \A u \in mask : Rank(mask, u) = r => u = t
    BY <1>2, RankIs
  <2> HIDE DEF pack_tokens
  <2> QED
    BY <1>2, <2>2, <2>3
<1>5. PICK k \in Nat, m \in Nat : k = r \div Pass /\ m = Pass * k /\ m <= r /\ r < m + Pass
  BY <1>3, RoutedConstants, QuotientWith
<1>6. m % Pass = 0
  <2>0. m \in Nat /\ Pass \in Nat \ {0}
    BY <1>5, RoutedConstants
  <2>1. m \div Pass = k
    BY <1>5, RoutedConstants, QuotientOf
  <2>2. PICK l \in Nat, o \in Nat : l = m \div Pass /\ o = Pass * l /\ m % Pass = m - o
    BY <2>0, QuotientWith
  <2> QED
    BY <1>5, <2>1, <2>2
<1>7. m \in {p \in 0..n - 1 : p % Pass = 0}
  BY <1>3, <1>5, <1>6
<1>8. Min({Pass, n - m}) = IF Pass <= n - m THEN Pass ELSE n - m
  <2>1. Pass \in Int /\ n - m \in Int
    BY <1>1, <1>5, RoutedConstants
  <2> QED
    BY <2>1, MinOfTwo
<1>9. r - m \in 0..Min({Pass, n - m}) - 1 /\ m + (r - m) = r
  BY <1>3, <1>5, <1>8, RoutedConstants
<1> QED
  BY <1>1, <1>4, <1>7, <1>9

\* What an entry with the slot of expert e leaves for a row of its mask is that expert's, from its own blob, or nothing.
LEMMA PartIs ==
  ASSUME NEW slot_of \in SlotMaps, NEW e \in Experts, slot_of[e] # NoSlot,
         NEW hits, NEW ent, hits.e[ent].slot = slot_of[e],
         hits.e[ent].mask \in SUBSET (0..WindowRows - 1), NEW t \in hits.e[ent].mask, NEW lpr
  PROVE  part(hits, slot_of, ent, t, lpr) = Own(slot_of, e, t, lpr)
<1>1. PICK mask : mask = hits.e[ent].mask
  OBVIOUS
<1>2. IsFiniteSet(mask) /\ Cardinality(mask) <= 8 /\ mask \in SUBSET Nat /\ t \in mask
  <2>1. IsFiniteSet(0..WindowRows - 1) /\ Cardinality(0..WindowRows - 1) = WindowRows
    <3>1. 0 \in Int /\ WindowRows - 1 \in Int /\ ~(0 > WindowRows - 1) /\ WindowRows - 1 - 0 + 1 = WindowRows
      BY RoutedConstants
    <3> QED
      BY <3>1, FS_Interval
  <2>2. mask \in SUBSET (0..WindowRows - 1) /\ t \in mask
    BY <1>1
  <2>3. IsFiniteSet(mask) /\ Cardinality(mask) <= Cardinality(0..WindowRows - 1) /\ Cardinality(mask) \in Nat
    BY <2>1, <2>2, FS_Subset, FS_CardinalityType
  <2> QED
    BY <2>1, <2>2, <2>3, RoutedConstants
<1> DEFINE n        == Cardinality(mask)
           packed   == pack_tokens(mask)
           starts   == {p \in 0..n - 1 : p % Pass = 0}
           run(p0)  == {packed[p0 + i] : i \in 0..Min({Pass, n - p0}) - 1}
           computed == UNION {run(p0) : p0 \in starts}
<1>3. t \in computed
  <2>1. PICK p0 \in starts : \E i \in 0..Min({Pass, n - p0}) - 1 : packed[p0 + i] = t
    BY <1>2, PassesCompute
  <2>2. t \in run(p0)
    BY <2>1
  <2> HIDE DEF starts, run
  <2> QED
    BY <2>1, <2>2
<1>4. (region_of(slot_of[e]) = NoSlot <=> e \in Lost) /\ (slot_of[e] < n_expert <=> e \notin Cold)
  BY SlotsAre
<1>5. (CHOOSE d \in Experts : slot_of[d] = slot_of[e]) = e
  BY SlotsAre
<1>6. part(hits, slot_of, ent, t, lpr)
        = IF e \in Lost THEN Old ELSE <<CHOOSE d \in Experts : slot_of[d] = hits.e[ent].slot, t, scaled(hits, ent), lpr>>
  BY <1>1, <1>3, <1>4 DEF part
<1>7. scaled(hits, ent) = (e \notin Cold)
  BY <1>4 DEF scaled
<1>8. Own(slot_of, e, t, lpr) = IF e \in Lost THEN Old ELSE <<e, t, e \notin Cold, lpr>>
  BY DEF Own
<1>9. hits.e[ent].slot = slot_of[e]
  OBVIOUS
<1> QED
  BY <1>5, <1>6, <1>7, <1>8, <1>9

\* The entries of the plan are the experts with a slot, in the order of their first pair.
SameEntry(ids, slot_of) ==
  \A i, j \in DOMAIN ids : HasSlot(ids, slot_of, i) /\ HasSlot(ids, slot_of, j) =>
    (EntryOf(ids, slot_of, i) = EntryOf(ids, slot_of, j) <=> ids[i] = ids[j])

LEMMA EntriesAre ==
  ASSUME NEW N \in Nat, NEW ids \in [0..N - 1 -> Experts], NEW slot_of
  PROVE  /\ Cardinality(FirstHits(ids, slot_of)) \in 0..N
         /\ \A j \in DOMAIN ids : HasSlot(ids, slot_of, j) =>
              EntryOf(ids, slot_of, j) \in 0..Cardinality(FirstHits(ids, slot_of)) - 1
         /\ SameEntry(ids, slot_of)
<1>1. PICK First : First = FirstHits(ids, slot_of)
  OBVIOUS
<1>2. First = {j \in 0..N - 1 : HasSlot(ids, slot_of, j) /\ \A q \in 0..j - 1 : ids[q] # ids[j]}
  BY <1>1 DEF FirstHits
<1>3. First \in SUBSET (0..N - 1)
  BY <1>2
<1>4. IsFiniteSet(First) /\ Cardinality(First) \in 0..N /\ First \in SUBSET Nat
  <2>1. IsFiniteSet(0..N - 1) /\ Cardinality(0..N - 1) = N
    BY FS_Interval
  <2>2. IsFiniteSet(First) /\ Cardinality(First) <= N
    <3>1. First \in SUBSET (0..N - 1) /\ IsFiniteSet(0..N - 1)
      BY <1>3, <2>1
    <3>2. IsFiniteSet(First) /\ Cardinality(First) <= Cardinality(0..N - 1)
      BY <3>1, FS_Subset
    <3> QED
      BY <2>1, <3>2
  <2> QED
    BY <1>3, <2>2, FS_CardinalityType
<1>5. ASSUME NEW j \in 0..N - 1, HasSlot(ids, slot_of, j) PROVE \E q \in First : ids[q] = ids[j]
  <2> DEFINE T == {q \in 0..N - 1 : ids[q] = ids[j]}
  <2>1. T \in SUBSET Nat /\ T # {}
    OBVIOUS
  <2>2. PICK m \in T : \A i \in T : m <= i
    <3> HIDE DEF T
    <3> QED
      BY <2>1, LeastOf
  <2>3. m \in 0..N - 1 /\ ids[m] = ids[j]
    OBVIOUS
  <2>4. HasSlot(ids, slot_of, m)
    BY <1>5, <2>3 DEF HasSlot
  <2>5. \A q \in 0..m - 1 : ids[q] # ids[m]
    <3>1. SUFFICES ASSUME NEW q \in 0..m - 1, ids[q] = ids[m] PROVE FALSE
      OBVIOUS
    <3>2. q \in T /\ q < m
      BY <2>3, <3>1
    <3> QED
      BY <2>2, <2>3, <3>1, <3>2
  <2> QED
    BY <1>2, <2>3, <2>4, <2>5
<1>6. ASSUME NEW p \in First, NEW q \in First, ids[p] = ids[q] PROVE p = q
  <2>1. p \in Nat /\ q \in Nat
    BY <1>4
  <2>2. ~(p < q)
    BY <1>2, <1>6, <2>1
  <2>3. ~(q < p)
    BY <1>2, <1>6, <2>1
  <2> QED
    BY <2>1, <2>2, <2>3
<1>7. ASSUME NEW j \in 0..N - 1, HasSlot(ids, slot_of, j)
      PROVE  \E q \in First : ids[q] = ids[j] /\ EntryOf(ids, slot_of, j) = Rank(First, q)
  <2>1. PICK q : q = CHOOSE p \in First : ids[p] = ids[j]
    OBVIOUS
  <2>2. q \in First /\ ids[q] = ids[j]
    BY <1>5, <1>7, <2>1
  <2>3. EntryOf(ids, slot_of, j) = Rank(First, q)
    BY <1>1, <2>1 DEF EntryOf
  <2> QED
    BY <2>2, <2>3
<1>8. ASSUME NEW j \in 0..N - 1, HasSlot(ids, slot_of, j) PROVE EntryOf(ids, slot_of, j) \in 0..Cardinality(First) - 1
  <2>1. PICK q \in First : EntryOf(ids, slot_of, j) = Rank(First, q)
    BY <1>7, <1>8
  <2> QED
    BY <1>4, <2>1, RankIs
<1>9. ASSUME NEW i \in 0..N - 1, NEW j \in 0..N - 1, HasSlot(ids, slot_of, i), HasSlot(ids, slot_of, j)
      PROVE  EntryOf(ids, slot_of, i) = EntryOf(ids, slot_of, j) <=> ids[i] = ids[j]
  <2>1. PICK p \in First : ids[p] = ids[i] /\ EntryOf(ids, slot_of, i) = Rank(First, p)
    BY <1>7, <1>9
  <2>2. PICK q \in First : ids[q] = ids[j] /\ EntryOf(ids, slot_of, j) = Rank(First, q)
    BY <1>7, <1>9
  <2>3. Rank(First, p) = Rank(First, q) => p = q
    BY <1>4, RankIs
  <2>4. ids[p] = ids[q] => p = q
    BY <1>6
  <2> QED
    BY <2>1, <2>2, <2>3, <2>4
<1> QED
  BY <1>1, <1>4, <1>8, <1>9 DEF SameEntry

\* Pair t * Used + q of a window is the q-th choice of its row t.
LEMMA PairsAre ==
  ASSUME NEW window \in RoutedWindows
  PROVE  \E T \in 1..WindowRows, N \in Nat :
           /\ Len(window) = T /\ window \in [1..T -> Routings] /\ N <= kMaxRouted
           /\ Pairs(window) \in [0..N - 1 -> Experts]
           /\ \A j \in 0..N - 1 : \E t \in 0..T - 1, q \in 0..Used - 1 : j = t * Used + q /\ j \div Used = t
           /\ \A t \in 0..T - 1, q \in 0..Used - 1 :
                /\ t * Used + q \in 0..N - 1 /\ (t * Used + q) \div Used = t
                /\ Pairs(window)[t * Used + q] = window[t + 1][q]
<1>1. PICK T \in 1..WindowRows : window \in [1..T -> Routings]
  BY DEF RoutedWindows
<1>2. Len(window) = T /\ T \in Nat \ {0} /\ T <= WindowRows
  BY <1>1, RoutedConstants
<1>3. PICK U \in Nat \ {0} : U = Used
  BY RoutedConstants
<1>4. PICK N \in Nat : N = U * T /\ N = T * Used
  BY <1>2, <1>3, ProductGrows, ProductNext
<1>5. N <= kMaxRouted
  <2>1. U * T <= U * WindowRows /\ U * WindowRows = WindowRows * U
    BY <1>2, <1>3, RoutedConstants, ProductGrows, ProductNext
  <2> QED
    BY <1>3, <1>4, <2>1 DEF kMaxRouted
<1>6. ASSUME NEW j \in 0..N - 1
      PROVE  \E t \in 0..T - 1, q \in 0..Used - 1 : j = t * Used + q /\ j \div Used = t /\ j % Used = q
  <2>0. j \in Nat /\ j < N
    BY <1>6
  <2>1. PICK k \in Nat, m \in Nat : k = j \div U /\ m = U * k /\ m = k * U /\ m <= j /\ j < m + U /\ j % U = j - m
    BY <1>3, <2>0, QuotientWith
  <2>2. ~(T <= k)
    <3>1. T <= k => U * T <= U * k
      BY <1>2, <1>3, <2>1, ProductGrows
    <3>2. j < N /\ m = U * k /\ N = U * T
      BY <1>4, <2>0, <2>1
    <3> QED
      BY <1>4, <2>1, <3>1, <3>2
  <2>3. PICK x \in Int : x = j % U /\ x = j - m
    BY <2>0, <2>1
  <2>4. x \in 0..U - 1 /\ k \in 0..T - 1 /\ j = m + x
    <3>1. m <= j /\ j < m + U /\ k \in Nat /\ m \in Nat
      BY <2>1
    <3> QED
      BY <1>2, <1>3, <2>0, <2>2, <2>3, <3>1
  <2>5. m = k * Used /\ j \div Used = k /\ j % Used = x
    <3>1. m = k * U /\ k = j \div U
      BY <2>1
    <3> QED
      BY <1>3, <2>3, <3>1
  <2>6. x \in 0..Used - 1 /\ j = k * Used + x
    BY <1>3, <2>4, <2>5
  <2> QED
    BY <2>4, <2>5, <2>6
<1>7. ASSUME NEW t \in 0..T - 1, NEW q \in 0..Used - 1
      PROVE  t * Used + q \in 0..N - 1 /\ (t * Used + q) \div Used = t /\ (t * Used + q) % Used = q
  <2>1. t \in Nat /\ q \in Nat /\ q < U /\ t + 1 <= T
    BY <1>2, <1>3
  <2>2. PICK m \in Nat : m = U * t /\ m = t * U
    BY <1>3, <2>1, ProductGrows, ProductNext
  <2>3. U * (t + 1) <= U * T /\ U * (t + 1) = m + U
    BY <1>2, <1>3, <2>1, <2>2, ProductGrows, ProductNext
  <2>4. PICK j \in Nat : j = m + q
    BY <2>1, <2>2
  <2>5. m <= j /\ j < m + U
    BY <1>3, <2>1, <2>2, <2>4
  <2>6. j \in 0..N - 1
    <3>1. m + U <= N
      BY <1>4, <2>3
    <3> QED
      BY <1>3, <1>4, <2>2, <2>4, <2>5, <3>1
  <2>7. j \div U = t
    BY <1>3, <2>1, <2>2, <2>4, <2>5, QuotientOf
  <2>8. j % U = q
    <3>1. PICK k \in Nat, l \in Nat : k = j \div U /\ l = U * k /\ j % U = j - l
      BY <1>3, <2>4, QuotientWith
    <3>2. l = m
      BY <2>2, <2>7, <3>1
    <3> QED
      BY <2>1, <2>2, <2>4, <3>1, <3>2
  <2>9. t * Used + q = j
    BY <1>3, <2>2, <2>4
  <2> QED
    BY <1>3, <2>6, <2>7, <2>8, <2>9
<1>8. DOMAIN Pairs(window) = 0..N - 1 /\ \A j \in 0..N - 1 : Pairs(window)[j] = window[j \div Used + 1][j % Used]
  BY <1>2, <1>4 DEF Pairs
<1>9. \A t \in 0..T - 1, q \in 0..Used - 1 : window[t + 1][q] \in Experts
  <2>1. SUFFICES ASSUME NEW t \in 0..T - 1, NEW q \in 0..Used - 1 PROVE window[t + 1][q] \in Experts
    OBVIOUS
  <2>2. t + 1 \in 1..T
    BY <1>2
  <2>3. window[t + 1] \in [0..Used - 1 -> Experts]
    BY <1>1, <2>2 DEF Routings
  <2> QED
    BY <2>3
<1>10. Pairs(window) \in [0..N - 1 -> Experts]
  <2>1. ASSUME NEW j \in 0..N - 1 PROVE Pairs(window)[j] \in Experts
    <3>1. PICK t \in 0..T - 1, q \in 0..Used - 1 : j \div Used = t /\ j % Used = q
      BY <1>6
    <3>2. Pairs(window)[j] = window[t + 1][q]
      BY <1>8, <3>1
    <3> QED
      BY <1>9, <3>2
  <2>2. Pairs(window) = [j \in 0..N - 1 |-> window[j \div Used + 1][j % Used]]
    BY <1>2, <1>4 DEF Pairs
  <2> QED
    BY <1>8, <2>1, <2>2
<1>11. \A t \in 0..T - 1, q \in 0..Used - 1 : Pairs(window)[t * Used + q] = window[t + 1][q]
  BY <1>7, <1>8
<1>12. \A j \in 0..N - 1 : \E t \in 0..T - 1, q \in 0..Used - 1 : j = t * Used + q /\ j \div Used = t
  BY <1>6
<1>14. \A t \in 0..T - 1, q \in 0..Used - 1 :
         /\ t * Used + q \in 0..N - 1 /\ (t * Used + q) \div Used = t
         /\ Pairs(window)[t * Used + q] = window[t + 1][q]
  BY Zenon, <1>7, <1>11
<1> QED
  BY Zenon, <1>1, <1>2, <1>5, <1>10, <1>12, <1>14

\* A pair with a slot has an entry: its expert's slot, a mask with the pair's row, and the row's weight.
EntryServes(hits, slot_of, ent, e, t) ==
  /\ ent \in Nat /\ hits.e[ent].slot = slot_of[e] /\ hits.e[ent].mask \in SUBSET (0..WindowRows - 1)
  /\ t \in hits.e[ent].mask /\ hits.e[ent].w[t] = Weight(e, t)

LEMMA PlanServes ==
  ASSUME NEW N \in Nat, NEW ids \in [0..N - 1 -> Experts], N <= kMaxRouted, NEW slot_of,
         NEW j \in 0..N - 1, \A i \in 0..N - 1 : i \div Used \in 0..WindowRows - 1, NEW plan, plan = moe_plan(ids, slot_of)
  PROVE  IF HasSlot(ids, slot_of, j) THEN EntryServes(plan.hits, slot_of, plan.hits.pair_ent[j], ids[j], j \div Used)
         ELSE plan.hits.pair_ent[j] = NoSlot
<1>0. SameEntry(ids, slot_of)
  BY EntriesAre
<1> DEFINE hit          == {i \in DOMAIN ids : HasSlot(ids, slot_of, i)}
           n            == Cardinality(FirstHits(ids, slot_of))
           OfEntry(ent) == {i \in hit : EntryOf(ids, slot_of, i) = ent}
           RowOf(i)     == i \div Used
           Entry(ent)   ==
             LET e == ids[CHOOSE i \in OfEntry(ent) : TRUE]
                 mask == {RowOf(i) : i \in OfEntry(ent)}
             IN [expert |-> e, slot |-> slot_of[e], mask |-> mask,
                 w |-> [t \in 0..WindowRows - 1 |-> IF t \in mask THEN Weight(e, t) ELSE OldHits.e[ent].w[t]]]
           hits         == plan.hits
<1>1. /\ hits.e = [ent \in 0..kMaxRouted - 1 |-> IF ent < n THEN Entry(ent) ELSE OldHits.e[ent]]
      /\ hits.pair_ent = [i \in 0..kMaxRouted - 1 |->
                            IF i \in hit THEN EntryOf(ids, slot_of, i)
                            ELSE IF i \in DOMAIN ids THEN NoSlot ELSE OldHits.pair_ent[i]]
  BY DEF moe_plan
<1>2. kMaxRouted \in Nat /\ j \in 0..kMaxRouted - 1 /\ j \in DOMAIN ids
  <2>1. kMaxRouted \in Nat
    <3>1. Used * WindowRows \in Nat /\ Used * WindowRows = WindowRows * Used
      BY RoutedConstants, ProductGrows, ProductNext
    <3> QED
      BY <3>1 DEF kMaxRouted
  <2> QED
    BY <2>1
<1>3. CASE ~HasSlot(ids, slot_of, j)
  <2>1. j \notin hit
    BY <1>3
  <2>2. hits.pair_ent[j] = NoSlot
    BY <1>1, <1>2, <2>1
  <2> QED
    BY <1>3, <2>2
<1>4. CASE HasSlot(ids, slot_of, j)
  <2>1. PICK ent : ent = EntryOf(ids, slot_of, j)
    OBVIOUS
  <2>2. j \in hit /\ hits.pair_ent[j] = ent
    BY <1>1, <1>2, <1>4, <2>1
  <2>3. n \in 0..N /\ ent \in 0..n - 1
    BY <1>2, <1>4, <2>1, EntriesAre
  <2>4. ent \in 0..kMaxRouted - 1 /\ ent \in Nat /\ ent < n
    BY <1>2, <2>3
  <2>5. hits.e[ent] = Entry(ent)
    <3> HIDE DEF Entry, n, hits
    <3>1. hits.e = [d \in 0..kMaxRouted - 1 |-> IF d < n THEN Entry(d) ELSE OldHits.e[d]]
      BY <1>1
    <3> QED
      BY <2>4, <3>1
  <2>6. j \in OfEntry(ent)
    BY <2>1, <2>2
  <2>7. \A i \in OfEntry(ent) : i \in 0..N - 1 /\ ids[i] = ids[j]
    <3>1. \A i \in OfEntry(ent) : i \in DOMAIN ids /\ HasSlot(ids, slot_of, i) /\ EntryOf(ids, slot_of, i) = ent
      OBVIOUS
    <3> HIDE DEF OfEntry
    <3> QED
      BY <1>0, <1>2, <1>4, <2>1, <3>1 DEF SameEntry
  <2>8. PICK mask : mask = {RowOf(i) : i \in OfEntry(ent)}
    OBVIOUS
  <2>9. ids[CHOOSE i \in OfEntry(ent) : TRUE] = ids[j]
    <3> HIDE DEF OfEntry
    <3> QED
      BY <2>6, <2>7
  <2>10. RowOf(j) \in mask /\ mask \in SUBSET (0..WindowRows - 1)
    <3>1. \A i \in OfEntry(ent) : RowOf(i) \in 0..WindowRows - 1
      BY <2>7
    <3> HIDE DEF OfEntry, RowOf
    <3> QED
      BY <2>6, <2>8, <3>1
  <2>11. /\ Entry(ent).slot = slot_of[ids[j]] /\ Entry(ent).mask = mask
         /\ Entry(ent).w = [t \in 0..WindowRows - 1 |-> IF t \in mask THEN Weight(ids[j], t) ELSE OldHits.e[ent].w[t]]
    <3> HIDE DEF OfEntry, RowOf
    <3> QED
      BY <2>8, <2>9
  <2> HIDE DEF Entry, hits, OfEntry
  <2>12. hits.e[ent].w[RowOf(j)] = Weight(ids[j], RowOf(j))
    BY <2>5, <2>10, <2>11
  <2>13. EntryServes(hits, slot_of, ent, ids[j], RowOf(j))
    BY <2>4, <2>5, <2>10, <2>11, <2>12 DEF EntryServes
  <2> USE DEF hits
  <2> QED
    BY <1>4, <2>2, <2>13
<1> QED
  BY <1>3, <1>4

\* Of N pairs, those of row t are t * Used and the Used - 1 after it.
PairsOfRow(N, t) ==
  /\ \A j \in 0..N - 1 : j \div Used = t => \E q \in 0..Used - 1 : j = t * Used + q
  /\ \A q \in 0..Used - 1 : t * Used + q \in 0..N - 1 /\ (t * Used + q) \div Used = t

\* The misses of a row are its choices without a slot, in their order.
MissedChoices(ids, slot_of, t) == {q \in 0..Used - 1 : ~HasSlot(ids, slot_of, t * Used + q)}
MissOf(ids, f, t, q) == [pos |-> f[q], t |-> t, e |-> ids[t * Used + q]]
MissesRise(plan, ids, t, M, f) ==
  Rising(f, M) /\ {m \in plan.miss : m.t = t} = {MissOf(ids, f, t, q) : q \in M}

LEMMA MissesAre ==
  ASSUME NEW N \in Nat, NEW ids \in [0..N - 1 -> Experts], NEW slot_of, NEW t \in Nat,
         NEW M, NEW plan, M = MissedChoices(ids, slot_of, t), plan = moe_plan(ids, slot_of), PairsOfRow(N, t)
  PROVE  \E f \in [M -> Nat] : MissesRise(plan, ids, t, M, f)
<1>0. /\ M = {q \in 0..Used - 1 : ~HasSlot(ids, slot_of, t * Used + q)}
      /\ \A j \in 0..N - 1 : j \div Used = t => \E q \in 0..Used - 1 : j = t * Used + q
      /\ \A q \in 0..Used - 1 : t * Used + q \in 0..N - 1 /\ (t * Used + q) \div Used = t
  BY DEF MissedChoices, PairsOfRow
<1>1. PICK missed : missed = {j \in 0..N - 1 : ~HasSlot(ids, slot_of, j)}
  OBVIOUS
<1>2. plan.miss = {[pos |-> Rank(missed, j), t |-> j \div Used, e |-> ids[j]] : j \in missed}
  <2>1. missed = DOMAIN ids \ {j \in DOMAIN ids : HasSlot(ids, slot_of, j)}
    BY <1>1
  <2> QED
    BY <2>1 DEF moe_plan
<1>3. missed \in SUBSET Nat /\ IsFiniteSet(missed)
  <2>1. missed \in SUBSET (0..N - 1) /\ IsFiniteSet(0..N - 1)
    BY <1>1, FS_Interval
  <2>2. IsFiniteSet(missed)
    BY <2>1, FS_Subset
  <2> QED
    BY <2>1, <2>2
<1> DEFINE PairOf(q) == t * Used + q
           f         == [q \in M |-> Rank(missed, PairOf(q))]
<1>4. \A q \in M : q \in Nat /\ PairOf(q) \in missed /\ PairOf(q) \div Used = t
  BY <1>0, <1>1, RoutedConstants
<1>5. \A j \in missed : j \div Used = t => \E q \in M : j = PairOf(q)
  BY <1>0, <1>1
<1>6. f \in [M -> Nat]
  <2>0. \A j \in missed : Rank(missed, j) \in Nat
    BY <1>3, RankIs
  <2>1. \A q \in M : Rank(missed, PairOf(q)) \in Nat
    BY Zenon, <1>4, <2>0
  <2> HIDE DEF PairOf
  <2> QED
    BY <2>1
<1>7. Rising(f, M)
  <2>1. ASSUME NEW p \in M, NEW q \in M, p < q PROVE f[p] < f[q]
    <3>1. PairOf(p) < PairOf(q)
      <4>1. PICK m \in Nat : m = t * Used
        BY RoutedConstants, ProductGrows
      <4> QED
        BY <1>4, <2>1, <4>1
    <3> HIDE DEF PairOf
    <3> QED
      BY <1>3, <1>4, <3>1, RankIs
  <2> HIDE DEF f
  <2> QED
    BY <2>1 DEF Rising
<1> HIDE DEF PairOf
<1>8. {m \in plan.miss : m.t = t} = {[pos |-> f[q], t |-> t, e |-> ids[PairOf(q)]] : q \in M}
  <2> DEFINE Miss(j) == [pos |-> Rank(missed, j), t |-> j \div Used, e |-> ids[j]]
             own     == {m \in {Miss(j) : j \in missed} : m.t = t}
  <2>1. \A j \in missed : Miss(j).t = j \div Used
    OBVIOUS
  <2>2. \A q \in M : Miss(PairOf(q)) = [pos |-> f[q], t |-> t, e |-> ids[PairOf(q)]]
    BY <1>4
  <2>3. own = {Miss(PairOf(q)) : q \in M}
    <3> HIDE DEF Miss
    <3>1. ASSUME NEW m \in own PROVE \E q \in M : m = Miss(PairOf(q))
      <4>1. PICK j \in missed : m = Miss(j) /\ m.t = t
        BY <3>1
      <4> QED
        BY <1>5, <2>1, <4>1
    <3>2. ASSUME NEW q \in M PROVE Miss(PairOf(q)) \in own
      BY <1>4, <2>1
    <3> QED
      BY <3>1, <3>2
  <2>4. own = {[pos |-> f[q], t |-> t, e |-> ids[PairOf(q)]] : q \in M}
    <3> HIDE DEF Miss, own, f
    <3> QED
      BY <2>2, <2>3
  <2> QED
    BY <1>2, <2>4
<1>9. \A q \in M : MissOf(ids, f, t, q) = [pos |-> f[q], t |-> t, e |-> ids[PairOf(q)]]
  BY DEF MissOf, PairOf
<1> HIDE DEF f
<1>10. MissesRise(plan, ids, t, M, f)
  BY <1>7, <1>8, <1>9 DEF MissesRise
<1> QED
  BY <1>6, <1>10

\* Of a window of rows, the lanes are those of a window of its own with BNK_EXACT, and without those of its kind.
LEMMA LanesAre ==
  ASSUME NEW T \in Nat \ {0}, NEW exact \in BOOLEAN
  PROVE  lanes(T, exact) = lanes(IF exact THEN 1 ELSE Min({2, T}), exact)
<1>1. Min({2, T}) = IF 2 <= T THEN 2 ELSE T
  BY MinOfTwo
<1>2. CASE exact
  BY <1>2 DEF lanes
<1>3. CASE ~exact /\ T = 1
  BY <1>1, <1>3 DEF lanes
<1>4. CASE ~exact /\ T # 1
  <2>1. Min({2, T}) = 2 /\ 2 # 1
    BY <1>1, <1>4
  <2> QED
    BY <1>4, <2>1 DEF lanes
<1> QED
  BY <1>2, <1>3, <1>4

\* Whatever else the window holds and whatever the last one left in the hit list, every row adds each of its experts once,
\* with its own weight, from that expert's own blob (what an earlier launch left, if the expert's band is one more than a
\* launch has regions for), in an order that depends on the row alone, on lanes that depend on whether the window has
\* several rows, with BNK_EXACT not even on that (moe_plan_body, gu_r_body, moe_act_k, down_r_body, regions_launch,
\* moe_regions and moe_reduce_k of src/kernels/moe.cu).
THEOREM AddsUpAloneHolds == \A window \in RoutedWindows : AddsUpAlone(window)
<1> SUFFICES ASSUME NEW window \in RoutedWindows, NEW slot_of \in SlotMaps, NEW exact \in BOOLEAN, NEW t \in 0..Len(window) - 1
             PROVE  moe_reduce(moe_plan(Pairs(window), slot_of), slot_of, t, lanes(Len(window), exact))
                      = RowSum(slot_of, window[t + 1], t, lanes(IF exact THEN 1 ELSE Min({2, Len(window)}), exact))
  BY DEF AddsUpAlone
<1>1. PICK T \in 1..WindowRows, N \in Nat :
           /\ Len(window) = T /\ window \in [1..T -> Routings] /\ N <= kMaxRouted
           /\ Pairs(window) \in [0..N - 1 -> Experts]
           /\ \A j \in 0..N - 1 : \E r \in 0..T - 1, q \in 0..Used - 1 : j = r * Used + q /\ j \div Used = r
           /\ \A r \in 0..T - 1, q \in 0..Used - 1 :
                /\ r * Used + q \in 0..N - 1 /\ (r * Used + q) \div Used = r
                /\ Pairs(window)[r * Used + q] = window[r + 1][q]
  BY PairsAre
<1>2. PICK ids \in [0..N - 1 -> Experts] : ids = Pairs(window)
  BY <1>1
<1>0. N \in Nat /\ N <= kMaxRouted /\ ids \in [0..N - 1 -> Experts]
  BY <1>1, <1>2
<1>1a. PICK lpr : lpr = lanes(Len(window), exact) /\ lpr = lanes(IF exact THEN 1 ELSE Min({2, Len(window)}), exact)
  <2>1. Len(window) \in Nat \ {0}
    BY <1>1
  <2>2. lanes(Len(window), exact) = lanes(IF exact THEN 1 ELSE Min({2, Len(window)}), exact)
    BY <2>1, LanesAre
  <2> QED
    BY <2>2
<1>3. PICK row : row = window[t + 1]
  OBVIOUS
<1>4. PICK plan : plan = moe_plan(ids, slot_of)
  OBVIOUS
<1>5. t \in 0..T - 1 /\ t \in Nat
  BY <1>1
<1> DEFINE Pair(q) == t * Used + q
           hits    == {q \in 0..Used - 1 : slot_of[row[q]] # NoSlot}
           misses  == (0..Used - 1) \ hits
           ent(q)  == plan.hits.pair_ent[Pair(q)]
           Part(q) == Own(slot_of, row[q], t, lpr)
<1>6. \A q \in 0..Used - 1 : /\ Pair(q) \in 0..N - 1 /\ Pair(q) \div Used = t /\ ids[Pair(q)] = row[q] /\ row[q] \in Experts
                             /\ (HasSlot(ids, slot_of, Pair(q)) <=> slot_of[row[q]] # NoSlot)
  BY <1>1, <1>2, <1>3, <1>5 DEF HasSlot
<1>7. \A j \in 0..N - 1 : j \div Used \in 0..WindowRows - 1
  <2>1. SUFFICES ASSUME NEW j \in 0..N - 1 PROVE j \div Used \in 0..WindowRows - 1
    OBVIOUS
  <2>2. PICK r \in 0..T - 1 : j \div Used = r
    BY <1>1
  <2>3. r \in 0..WindowRows - 1
    BY <1>1, RoutedConstants
  <2> QED
    BY <2>2, <2>3
<1>8. \A q \in 0..Used - 1 : IF q \in hits THEN EntryServes(plan.hits, slot_of, ent(q), row[q], t) ELSE ent(q) = NoSlot
  <2>1. SUFFICES ASSUME NEW q \in 0..Used - 1
                 PROVE  IF q \in hits THEN EntryServes(plan.hits, slot_of, ent(q), row[q], t) ELSE ent(q) = NoSlot
    OBVIOUS
  <2>2. PICK j \in 0..N - 1 : j = Pair(q) /\ j \div Used = t /\ ids[j] = row[q] /\ (HasSlot(ids, slot_of, j) <=> q \in hits)
    BY <1>6
  <2>3. IF HasSlot(ids, slot_of, j) THEN EntryServes(plan.hits, slot_of, plan.hits.pair_ent[j], ids[j], j \div Used)
        ELSE plan.hits.pair_ent[j] = NoSlot
    BY <1>0, <1>4, <1>7, PlanServes
  <2> QED
    BY <2>2, <2>3
<1>9. {q \in 0..Used - 1 : ent(q) >= 0} = hits
  <2>1. ASSUME NEW q \in 0..Used - 1 PROVE ent(q) >= 0 <=> q \in hits
    <3>1. CASE q \in hits
      BY <1>8, <3>1 DEF EntryServes
    <3>2. CASE q \notin hits
      BY <1>8, <3>2 DEF NoSlot
    <3> QED
      BY <3>1, <3>2
  <2> HIDE DEF ent
  <2> QED
    BY <2>1
<1>10. ASSUME NEW q \in hits
       PROVE  plan.hits.e[ent(q)].w[t] = Weight(row[q], t) /\ part(plan.hits, slot_of, ent(q), t, lpr) = Part(q)
  <2>1. PICK k : k = ent(q)
    OBVIOUS
  <2>2. EntryServes(plan.hits, slot_of, k, row[q], t) /\ row[q] \in Experts /\ slot_of[row[q]] # NoSlot
    BY <1>6, <1>8, <2>1
  <2>3. part(plan.hits, slot_of, k, t, lpr) = Own(slot_of, row[q], t, lpr)
    <3>1. /\ plan.hits.e[k].slot = slot_of[row[q]] /\ plan.hits.e[k].mask \in SUBSET (0..WindowRows - 1)
          /\ t \in plan.hits.e[k].mask
      BY <2>2 DEF EntryServes
    <3> HIDE DEF ent, hits, Part
    <3> QED
      BY <2>2, <3>1, PartIs
  <2>4. plan.hits.e[k].w[t] = Weight(row[q], t)
    BY <2>2 DEF EntryServes
  <2> QED
    BY <2>1, <2>3, <2>4
<1> DEFINE ents == [q \in hits |-> ent(q)]
<1>11. {<<Rank(DOMAIN ents, q), plan.hits.e[ents[q]].w[t], part(plan.hits, slot_of, ents[q], t, lpr)>> : q \in DOMAIN ents}
         = {<<Rank(hits, q), Weight(row[q], t), Part(q)>> : q \in hits}
  <2>1. DOMAIN ents = hits /\ \A q \in hits : ents[q] = ent(q)
    OBVIOUS
  <2> HIDE DEF ents, hits, ent, Part
  <2> QED
    BY <1>10, <2>1
<1>12. misses = {q \in 0..Used - 1 : ~HasSlot(ids, slot_of, Pair(q))}
  BY <1>6
<1> DEFINE own == {m \in plan.miss : m.t = t}
<1>13. PICK f \in [misses -> Nat] : Rising(f, misses) /\ own = {[pos |-> f[q], t |-> t, e |-> row[q]] : q \in misses}
  <2>1. PairsOfRow(N, t)
    BY <1>1, <1>5, <1>6 DEF PairsOfRow
  <2>2. misses = MissedChoices(ids, slot_of, t)
    BY <1>12 DEF MissedChoices
  <2>3. \A q \in misses, f \in [misses -> Nat] : MissOf(ids, f, t, q) = [pos |-> f[q], t |-> t, e |-> row[q]]
    BY <1>6 DEF MissOf
  <2> HIDE DEF misses
  <2>4. PICK f \in [misses -> Nat] : MissesRise(plan, ids, t, misses, f)
    <3>1. N \in Nat /\ ids \in [0..N - 1 -> Experts] /\ t \in Nat
      BY <1>0, <1>5
    <3> QED
      BY <1>4, <2>1, <2>2, <3>1, MissesAre
  <2>5. Rising(f, misses) /\ own = {MissOf(ids, f, t, q) : q \in misses}
    BY <2>4 DEF MissesRise
  <2>6. {MissOf(ids, f, t, q) : q \in misses} = {[pos |-> f[q], t |-> t, e |-> row[q]] : q \in misses}
    BY <2>3
  <2> HIDE DEF own
  <2> QED
    BY <2>5, <2>6
<1>14. {<<Cardinality(DOMAIN ents) + Rank({o.pos : o \in own}, m.pos), Weight(m.e, t), <<m.e, t, TRUE, OnCpu>> >> : m \in own}
         = {<<Cardinality(hits) + Rank(misses, q), Weight(row[q], t), Part(q)>> : q \in misses}
  <2>1. misses \in SUBSET Nat /\ IsFiniteSet(misses)
    <3>0. 0 \in Int /\ Used - 1 \in Int
      BY RoutedConstants
    <3>1. misses \in SUBSET (0..Used - 1) /\ IsFiniteSet(0..Used - 1)
      BY <3>0, FS_Interval
    <3>2. IsFiniteSet(misses)
      <4> HIDE DEF misses
      <4> QED
        BY <3>1, FS_Subset
    <3> QED
      BY <3>1, <3>2
  <2>2. \A q \in misses : Part(q) = <<row[q], t, TRUE, OnCpu>>
    BY DEF Own
  <2>3. DOMAIN ents = hits
    OBVIOUS
  <2> DEFINE Miss(q) == [pos |-> f[q], t |-> t, e |-> row[q]]
             P       == {o.pos : o \in own}
  <2> HIDE DEF misses, hits, ents, Part, own
  <2>4. own = {Miss(q) : q \in misses} /\ \A q \in misses : Miss(q).pos = f[q] /\ Miss(q).e = row[q]
    BY <1>13
  <2> HIDE DEF Miss
  <2>5. P = {f[q] : q \in misses}
    BY <2>4
  <2> HIDE DEF P
  <2>6. \A q \in misses : Rank(P, f[q]) = Rank(misses, q)
    BY <1>13, <2>1, <2>5, RankKept
  <2> DEFINE Added(m) == <<Cardinality(DOMAIN ents) + Rank(P, m.pos), Weight(m.e, t), <<m.e, t, TRUE, OnCpu>> >>
             Sum(q)   == <<Cardinality(hits) + Rank(misses, q), Weight(row[q], t), Part(q)>>
  <2>7. \A q \in misses : Added(Miss(q)) = Sum(q)
    BY <2>2, <2>3, <2>4, <2>6
  <2>8. {Added(m) : m \in own} = {Sum(q) : q \in misses}
    <3> HIDE DEF Added, Sum
    <3> QED
      BY <2>4, <2>7
  <2> QED
    BY <2>8 DEF P
<1>15. moe_reduce(plan, slot_of, t, lpr)
         = {<<Rank(DOMAIN ents, q), plan.hits.e[ents[q]].w[t], part(plan.hits, slot_of, ents[q], t, lpr)>> : q \in DOMAIN ents}
             \cup {<<Cardinality(DOMAIN ents) + Rank({o.pos : o \in own}, m.pos), Weight(m.e, t), <<m.e, t, TRUE, OnCpu>> >> : m \in own}
  <2>1. [q \in {i \in 0..Used - 1 : plan.hits.pair_ent[t * Used + i] >= 0} |-> plan.hits.pair_ent[t * Used + q]] = ents
    BY <1>9
  <2>2. moe_reduce(plan, slot_of, t, lpr) = EntriesThenMisses(plan, slot_of, t, lpr, ents)
    BY <2>1 DEF moe_reduce
  <2> HIDE DEF ents
  <2> QED
    BY <2>2 DEF EntriesThenMisses
<1>16. RowSum(slot_of, row, t, lpr)
         = {<<Rank(hits, q), Weight(row[q], t), Part(q)>> : q \in hits}
             \cup {<<Cardinality(hits) + Rank(misses, q), Weight(row[q], t), Part(q)>> : q \in misses}
  BY DEF RowSum
<1> HIDE DEF hits, misses, ents, own, Part, ent
<1> QED
  BY <1>1a, <1>2, <1>3, <1>4, <1>11, <1>14, <1>15, <1>16

-----------------------------------------------------------------------------
(* What is drawn from *)

\* T has everything that is ahead of one of its own.
Leading(row, T) == T \in SUBSET DOMAIN row /\ \A b \in T, c \in DOMAIN row : Ahead(row, c, b) => c \in T

Place0(row, b) == Index(row, DOMAIN row, b)

LEMMA ValueIs ==
  ASSUME NEW row, IsRow(row), NEW b \in DOMAIN row
  PROVE  /\ b \in Nat /\ Sign \in Nat \ {0} /\ ValueOf(row[b]) \in Int
         /\ ValueOf(row[b]) <= Sign
<1>1. row[b] \in Floats /\ b \in Nat
  BY FloatRowIs
<1>2. PICK s \in Nat \ {0} : s = Sign
  BY SignIs
<1>3. row[b] \in 0..2 * s - 1
  BY <1>1, <1>2 DEF Floats
<1> QED
  BY <1>1, <1>2, <1>3 DEF ValueOf

LEMMA AheadOrders ==
  ASSUME NEW row, IsRow(row), NEW a \in DOMAIN row, NEW b \in DOMAIN row, NEW c \in DOMAIN row
  PROVE  /\ ~Ahead(row, a, a)
         /\ a # b => Ahead(row, a, b) \/ Ahead(row, b, a)
         /\ ~(Ahead(row, a, b) /\ Ahead(row, b, a))
         /\ Ahead(row, a, b) /\ Ahead(row, b, c) => Ahead(row, a, c)
<1>1. a \in Nat /\ b \in Nat /\ c \in Nat
  BY ValueIs
<1>2. PICK x \in Int, y \in Int, z \in Int : x = ValueOf(row[a]) /\ y = ValueOf(row[b]) /\ z = ValueOf(row[c])
  BY ValueIs
<1> QED
  BY <1>1, <1>2 DEF Ahead

LEMMA PlacesAre ==
  ASSUME NEW row, IsRow(row)
  PROVE  /\ \A b \in DOMAIN row : Place0(row, b) \in Nat
         /\ \A b, c \in DOMAIN row : Ahead(row, b, c) => Place0(row, b) < Place0(row, c)
<1> DEFINE ids == DOMAIN row
           ahead(b) == {c \in ids : Ahead(row, c, b)}
<1>1. IsFiniteSet(ids)
  BY FloatRowIs
<1>2. ASSUME NEW b \in ids
      PROVE  IsFiniteSet(ahead(b)) /\ Cardinality(ahead(b)) \in Nat /\ Place0(row, b) = Cardinality(ahead(b))
  <2>1. ahead(b) \in SUBSET ids
    OBVIOUS
  <2>2. Place0(row, b) = Cardinality(ahead(b))
    BY DEF Place0, Index
  <2> HIDE DEF ahead
  <2> QED
    BY <1>1, <2>1, <2>2, FS_Subset, FS_CardinalityType
<1>3. ASSUME NEW b \in ids, NEW c \in ids, Ahead(row, b, c) PROVE Cardinality(ahead(b)) < Cardinality(ahead(c))
  <2>1. ahead(b) \cup {b} \in SUBSET ahead(c) /\ b \notin ahead(b)
    BY <1>3, AheadOrders
  <2>2. IsFiniteSet(ahead(b)) /\ IsFiniteSet(ahead(c)) /\ Cardinality(ahead(b)) \in Nat /\ Cardinality(ahead(c)) \in Nat
    BY <1>2
  <2> HIDE DEF ahead
  <2>3. Cardinality(ahead(b) \cup {b}) = Cardinality(ahead(b)) + 1
    BY <2>1, <2>2, FS_AddElement
  <2>4. Cardinality(ahead(b) \cup {b}) <= Cardinality(ahead(c))
    BY <2>1, <2>2, FS_Subset
  <2> QED
    BY <2>2, <2>3, <2>4
<1> QED
  BY <1>2, <1>3

\* Among leading tokens the places are those in the row, and come before everything else's.
LEMMA LeadingPlaces ==
  ASSUME NEW row, IsRow(row), NEW T, Leading(row, T)
  PROVE  /\ IsFiniteSet(T) /\ Cardinality(T) \in Nat
         /\ \A b \in T : Index(row, T, b) = Place0(row, b) /\ Place0(row, b) < Cardinality(T)
         /\ \A b \in DOMAIN row \ T : Cardinality(T) <= Place0(row, b)
         /\ \A b \in T : {c \in T : ~Ahead(row, b, c)} = {c \in DOMAIN row : ~Ahead(row, b, c)}
<1> DEFINE ids == DOMAIN row
           ahead(b) == {c \in ids : Ahead(row, c, b)}
<1>1. T \in SUBSET ids /\ IsFiniteSet(ids) /\ \A b \in T, c \in ids : Ahead(row, c, b) => c \in T
  BY FloatRowIs DEF Leading
<1>2. IsFiniteSet(T) /\ Cardinality(T) \in Nat
  BY <1>1, FS_Subset, FS_CardinalityType
<1>3. ASSUME NEW b \in ids
      PROVE  IsFiniteSet(ahead(b)) /\ Cardinality(ahead(b)) \in Nat /\ Place0(row, b) = Cardinality(ahead(b))
  <2>1. ahead(b) \in SUBSET ids
    OBVIOUS
  <2>2. Place0(row, b) = Cardinality(ahead(b))
    BY DEF Place0, Index
  <2> HIDE DEF ahead
  <2> QED
    BY <1>1, <2>1, <2>2, FS_Subset, FS_CardinalityType
<1>4. ASSUME NEW b \in T PROVE Index(row, T, b) = Place0(row, b) /\ Place0(row, b) < Cardinality(T)
  <2>1. {c \in T : Ahead(row, c, b)} = ahead(b)
    BY <1>1
  <2>2. Index(row, T, b) = Place0(row, b)
    BY <2>1 DEF Index, Place0
  <2>3. ahead(b) \in SUBSET (T \ {b})
    BY <1>1, AheadOrders
  <2>4. IsFiniteSet(T \ {b}) /\ Cardinality(T \ {b}) = Cardinality(T) - 1
    BY <1>2, FS_RemoveElement
  <2>5. b \in ids
    BY <1>1
  <2> HIDE DEF ahead
  <2>6. Cardinality(ahead(b)) <= Cardinality(T) - 1
    BY <2>3, <2>4, FS_Subset
  <2> QED
    BY <1>2, <1>3, <2>2, <2>5, <2>6
<1>5. ASSUME NEW b \in ids \ T PROVE Cardinality(T) <= Place0(row, b)
  <2>1. T \in SUBSET ahead(b)
    <3>1. ASSUME NEW c \in T PROVE c \in ids /\ Ahead(row, c, b)
      <4>1. c \in ids /\ c # b /\ ~Ahead(row, b, c)
        BY <1>1
      <4> QED
        BY <4>1, AheadOrders
    <3> QED
      BY <3>1
  <2> HIDE DEF ahead
  <2> QED
    BY <1>3, <2>1, FS_Subset
<1>6. ASSUME NEW b \in T PROVE {c \in T : ~Ahead(row, b, c)} = {c \in ids : ~Ahead(row, b, c)}
  <2>1. ASSUME NEW c \in ids, ~Ahead(row, b, c) PROVE c \in T
    <3>1. c = b \/ Ahead(row, c, b)
      BY <1>1, <2>1, AheadOrders
    <3> QED
      BY <1>1, <3>1
  <2> QED
    BY <1>1, <2>1
<1> QED
  BY <1>2, <1>4, <1>5, <1>6

\* The GPU's candidates lead.
LEMMA LargestLeads ==
  ASSUME NEW row, IsRow(row), NEW k \in 1..Cardinality(DOMAIN row)
  PROVE  Selection(row, k) = Largest(row, k) /\ Leading(row, Largest(row, k)) /\ Cardinality(Largest(row, k)) = k
<1>1. {x[2] : x \in topk_rows(row, k)} = Largest(row, k)
  BY SelectsLargestHolds DEF SelectsLargest
<1>2. Largest(row, k) \in SUBSET DOMAIN row /\ Cardinality(Largest(row, k)) = k
  BY TopKWrites
<1>3. \A b \in DOMAIN row : b \in Largest(row, k) <=> Place0(row, b) < k
  BY DEF Largest, Place0, Index
<1>4. ASSUME NEW b \in Largest(row, k), NEW c \in DOMAIN row, Ahead(row, c, b) PROVE c \in Largest(row, k)
  <2>1. b \in DOMAIN row /\ k \in Nat
    BY <1>2, FloatRowIs
  <2>2. Place0(row, b) \in Nat /\ Place0(row, c) \in Nat /\ Place0(row, c) < Place0(row, b)
    BY <1>4, <2>1, PlacesAre
  <2> QED
    BY <1>3, <2>1, <2>2
<1> QED
  BY <1>1, <1>2, <1>4 DEF Leading, Selection

-----------------------------------------------------------------------------
(* Weights *)

LEMMA BestIs ==
  ASSUME NEW row, IsRow(row)
  PROVE  \E b \in DOMAIN row : /\ Max({ValueOf(row[c]) : c \in DOMAIN row}) = ValueOf(row[b])
                               /\ \A c \in DOMAIN row : ValueOf(row[c]) <= ValueOf(row[b])
<1> DEFINE values == {ValueOf(row[c]) : c \in DOMAIN row}
           below == {m \in Nat : \E c \in DOMAIN row : m = Sign - ValueOf(row[c])}
<1>1. PICK s \in Nat : s = Sign
  BY SignIs
<1>2. \A c \in DOMAIN row : ValueOf(row[c]) \in Int /\ s - ValueOf(row[c]) \in Nat
  BY <1>1, ValueIs
<1>3. PICK c \in DOMAIN row : TRUE
  BY DEF IsRow
<1>4. below \in SUBSET Nat /\ Sign - ValueOf(row[c]) \in below
  BY <1>1, <1>2
<1> HIDE DEF below
<1>5. PICK m \in below : \A i \in below : m <= i
  BY <1>4, LeastOf
<1>6. PICK b \in DOMAIN row : m = s - ValueOf(row[b])
  BY <1>1, <1>5 DEF below
<1>7. ASSUME NEW d \in DOMAIN row PROVE ValueOf(row[d]) <= ValueOf(row[b])
  <2>1. s - ValueOf(row[d]) \in below
    BY <1>1, <1>2 DEF below
  <2>2. ValueOf(row[d]) \in Int /\ ValueOf(row[b]) \in Int
    BY <1>2
  <2> QED
    BY <1>5, <1>6, <2>1, <2>2
<1>8. Max(values) = ValueOf(row[b])
  <2>1. PICK v \in Int : v = ValueOf(row[b])
    BY <1>2
  <2>2. v \in values /\ values \subseteq Int /\ \A y \in values : v >= y
    BY <1>2, <1>7, <2>1
  <2> HIDE DEF values
  <2>3. Max(values) \in values /\ \A y \in values : Max(values) >= y
    BY <2>2, Zenon DEF Max
  <2>4. PICK w : w = Max(values)
    OBVIOUS
  <2>5. w \in Int /\ w >= v /\ v >= w
    BY <2>2, <2>3, <2>4
  <2> QED
    BY <2>1, <2>4, <2>5
<1> QED
  BY <1>7, <1>8

LEMMA WeightsAre ==
  ASSUME NEW row, IsRow(row)
  PROVE  /\ \A b \in DOMAIN row : Exp(row, b) \in Nat
         /\ \E b \in DOMAIN row : Exp(row, b) > 0
         /\ \A b, c \in DOMAIN row : Ahead(row, c, b) /\ Exp(row, b) > 0 => Exp(row, c) > 0
<1>1. PICK best \in DOMAIN row : /\ Max({ValueOf(row[c]) : c \in DOMAIN row}) = ValueOf(row[best])
                                 /\ \A c \in DOMAIN row : ValueOf(row[c]) <= ValueOf(row[best])
  BY BestIs
<1>2. PICK top \in Int : top = ValueOf(row[best])
  BY ValueIs
<1>3. PICK n \in Nat \ {0} : n = Len(Exps) /\ \A i \in 1..n : Exps[i] \in Nat \ {0}
  <2>1. Exps \in Seq(Nat \ {0}) /\ Exps # <<>>
    BY SamplingAssumption
  <2> QED
    BY <2>1
<1>4. ASSUME NEW b \in DOMAIN row
      PROVE  /\ ValueOf(row[b]) \in Int /\ top - ValueOf(row[b]) \in Nat
             /\ Exp(row, b) \in Nat /\ (Exp(row, b) > 0 <=> top - ValueOf(row[b]) < n)
  <2>1. PICK d \in Nat : d = top - ValueOf(row[b]) /\ ValueOf(row[b]) \in Int
    BY <1>1, <1>2, ValueIs
  <2>2. Exp(row, b) = IF d < n THEN Exps[d + 1] ELSE 0
    BY <1>1, <1>2, <1>3, <2>1 DEF Exp
  <2>3. d < n => Exps[d + 1] \in Nat \ {0}
    BY <1>3
  <2> QED
    BY <2>1, <2>2, <2>3
<1>5. Exp(row, best) > 0
  BY <1>2, <1>4
<1>6. ASSUME NEW b \in DOMAIN row, NEW c \in DOMAIN row, Ahead(row, c, b), Exp(row, b) > 0 PROVE Exp(row, c) > 0
  <2>1. PICK x \in Int, y \in Int : x = ValueOf(row[b]) /\ y = ValueOf(row[c])
    BY <1>4
  <2>2. y >= x
    BY <1>6, <2>1 DEF Ahead
  <2>3. top - x < n
    BY <1>4, <1>6, <2>1
  <2>4. top - y < n
    BY <2>2, <2>3
  <2> QED
    BY <1>4, <2>1, <2>4
<1> QED
  BY <1>4, <1>5, <1>6

Reached(row) == {b \in DOMAIN row : Exp(row, b) > 0}

LEMMA ReachedLeads == ASSUME NEW row, IsRow(row) PROVE Leading(row, Reached(row)) /\ Reached(row) # {}
BY WeightsAre DEF Leading, Reached

\* What is out of reach adds nothing to the sum.
LEMMA ReachedSum ==
  ASSUME NEW row, IsRow(row)
  PROVE  ExpSum(row, Reached(row)) = ExpSum(row, DOMAIN row) /\ ExpSum(row, DOMAIN row) \in Nat \ {0}
<1> DEFINE ids == DOMAIN row
           R == Reached(row)
           f == [b \in R |-> Exp(row, b)]
           g == [b \in ids |-> Exp(row, b)]
           units(b) == {b} \X (1..g[b])
           all == UNION {units(b) : b \in ids}
<1>1. IsFiniteSet(ids) /\ \A b \in ids : g[b] \in Nat
  BY FloatRowIs, WeightsAre
<1>2. \A b \in R : b \in ids /\ f[b] = g[b]
  BY DEF Reached
<1>3. \A b \in ids \ R : 1..g[b] = {}
  <2>1. ASSUME NEW b \in ids \ R PROVE 1..g[b] = {}
    <3>1. g[b] \in Nat /\ ~(g[b] > 0)
      BY <1>1 DEF Reached
    <3> QED
      BY <3>1
  <2> QED
    BY <2>1
<1>4. PICK best \in ids : g[best] > 0
  BY WeightsAre
<1> HIDE DEF R, f, g
<1>5. UNION {{b} \X (1..f[b]) : b \in R} = all
  <2>1. ASSUME NEW b \in R PROVE {b} \X (1..f[b]) = units(b) /\ b \in ids
    BY <1>2
  <2>2. ASSUME NEW b \in ids \ R PROVE units(b) = {}
    BY <1>3
  <2> HIDE DEF units
  <2> QED
    BY <2>1, <2>2
<1>6. IsFiniteSet(all)
  <2>1. ASSUME NEW b \in ids PROVE IsFiniteSet(units(b))
    <3>1. PICK k \in Nat : k = g[b]
      BY <1>1
    <3>2. IsFiniteSet({b})
      BY FS_Singleton
    <3>3. IsFiniteSet(1..k)
      BY FS_Interval
    <3>4. IsFiniteSet({b} \X (1..k))
      BY <3>2, <3>3, FS_Product
    <3> QED
      BY <3>1, <3>4
  <2> DEFINE families == {units(b) : b \in ids}
  <2>2. IsFiniteSet(families)
    <3> DEFINE h == [b \in ids |-> units(b)]
    <3> HIDE DEF units
    <3>1. h \in [ids -> families] /\ \A x \in families : \E b \in ids : h[b] = x
      OBVIOUS
    <3> HIDE DEF h, families
    <3>2. h \in Surjection(ids, families)
      BY <3>1 DEF Surjection
    <3> QED
      BY <1>1, <3>2, FS_Surjection
  <2>3. \A u \in families : IsFiniteSet(u)
    BY <2>1
  <2> HIDE DEF families
  <2>4. IsFiniteSet(UNION families)
    BY <2>2, <2>3, FS_UNION
  <2> QED
    BY <2>4 DEF families
<1>7. all # {}
  <2>1. <<best, 1>> \in units(best)
    BY <1>1, <1>4
  <2> QED
    BY <2>1
<1>8. Cardinality(all) \in Nat \ {0}
  <2> HIDE DEF all
  <2> QED
    BY <1>6, <1>7, FS_CardinalityType, FS_EmptySet
<1>9. ExpSum(row, R) = Cardinality(UNION {{b} \X (1..f[b]) : b \in R})
  BY DEF ExpSum, SumOver, f
<1>10. ExpSum(row, ids) = Cardinality(all)
  BY DEF ExpSum, SumOver, g
<1> QED
  BY <1>5, <1>8, <1>9, <1>10 DEF R

-----------------------------------------------------------------------------
(* The cut *)

MinpRefuses(row, sp, b) == sp.min_p > 0 /\ Place0(row, b) > 0 /\ Exp(row, b) * One < sp.min_p * Exps[1]

Completes(row, sp, b) ==
  sp.top_p < One /\ ExpSum(row, {c \in DOMAIN row : ~Ahead(row, b, c)}) * One >= sp.top_p * ExpSum(row, DOMAIN row)

\* A walk over h of the tokens of T may end at e.
EndsAt(row, T, h, sp, whole, e) ==
  \E b \in T : /\ Place0(row, b) < h
               /\ \/ e = Place0(row, b) /\ ((whole /\ Exp(row, b) = 0) \/ MinpRefuses(row, sp, b))
                  \/ e = Place0(row, b) + 1 /\ Completes(row, sp, b)

\* Leading tokens are cut where the whole row would be.
LEMMA EndIs ==
  ASSUME NEW row, IsRow(row), NEW T, Leading(row, T), NEW h, NEW sp, NEW whole, NEW e
  PROVE  e \in Ends(row, T, h, sp, ExpSum(row, DOMAIN row), whole) <=> EndsAt(row, T, h, sp, whole, e)
<1> DEFINE z == ExpSum(row, DOMAIN row)
           walked == {b \in T : Index(row, T, b) < h}
           Refused(b) == \/ whole /\ Exp(row, b) = 0
                         \/ sp.min_p > 0 /\ Index(row, T, b) > 0 /\ Exp(row, b) * One < sp.min_p * Exps[1]
           Enough(b) == sp.top_p < One /\ ExpSum(row, {c \in T : ~Ahead(row, b, c)}) * One >= sp.top_p * z
<1>1. ASSUME NEW b \in T
      PROVE  Index(row, T, b) = Place0(row, b) /\ {c \in T : ~Ahead(row, b, c)} = {c \in DOMAIN row : ~Ahead(row, b, c)}
  BY LeadingPlaces
<1>2. ASSUME NEW b \in T
      PROVE  /\ b \in walked <=> Place0(row, b) < h
             /\ Refused(b) <=> ((whole /\ Exp(row, b) = 0) \/ MinpRefuses(row, sp, b))
             /\ Enough(b) <=> Completes(row, sp, b)
  BY <1>1, Zenon DEF MinpRefuses, Completes
<1>3. Ends(row, T, h, sp, z, whole) = {Index(row, T, b) : b \in {c \in walked : Refused(c)}}
                                        \cup {Index(row, T, b) + 1 : b \in {c \in walked : Enough(c)}}
  BY Zenon DEF Ends
<1>4. \A b \in walked : b \in T
  OBVIOUS
<1> HIDE DEF z, walked, Refused, Enough
<1>5. ASSUME e \in Ends(row, T, h, sp, z, whole) PROVE EndsAt(row, T, h, sp, whole, e)
  <2>1. CASE e \in {Index(row, T, b) : b \in {c \in walked : Refused(c)}}
    <3>1. PICK b \in walked : Refused(b) /\ e = Index(row, T, b)
      BY <2>1
    <3> QED
      BY <1>1, <1>2, <1>4, <3>1 DEF EndsAt
  <2>2. CASE e \in {Index(row, T, b) + 1 : b \in {c \in walked : Enough(c)}}
    <3>1. PICK b \in walked : Enough(b) /\ e = Index(row, T, b) + 1
      BY <2>2
    <3> QED
      BY <1>1, <1>2, <1>4, <3>1 DEF EndsAt
  <2> QED
    BY <1>3, <1>5, <2>1, <2>2
<1>6. ASSUME EndsAt(row, T, h, sp, whole, e) PROVE e \in Ends(row, T, h, sp, z, whole)
  <2>1. PICK b \in T : /\ Place0(row, b) < h
                       /\ \/ e = Place0(row, b) /\ ((whole /\ Exp(row, b) = 0) \/ MinpRefuses(row, sp, b))
                          \/ e = Place0(row, b) + 1 /\ Completes(row, sp, b)
    BY <1>6 DEF EndsAt
  <2>2. b \in walked /\ ((e = Index(row, T, b) /\ Refused(b)) \/ (e = Index(row, T, b) + 1 /\ Enough(b)))
    BY <1>1, <1>2, <2>1
  <2> QED
    BY <1>3, <2>2
<1> QED
  BY <1>5, <1>6 DEF z

LEMMA MinIs ==
  ASSUME NEW S \in SUBSET Nat, S # {}
  PROVE  Min(S) \in S /\ \A y \in S : Min(S) <= y
<1>1. PICK m \in S : \A y \in S : m <= y
  BY LeastOf
<1> QED
  BY <1>1, Zenon DEF Min

\* What is kept of n candidates: ends are where the walk over all of them may end.
KeptOf(row, T, sp, z, n, kept, ends) ==
  /\ n = Cardinality(T) /\ kept <= n
  /\ \A e : e \in ends <=> EndsAt(row, T, n, sp, z > 0, e)
  /\ ends = {} => kept = n
  /\ ends # {} => kept \in ends
  /\ \A e \in ends : kept <= e
  /\ finish(row, T, sp, z) = IF z > 0 /\ ends = {} THEN NoDistribution ELSE {b \in T : Place0(row, b) < kept}

\* Where the host looks for the cut does not matter: the first 64, 512, ... candidates have the first cut of all of them,
\* or none.
LEMMA FinishIs ==
  ASSUME NEW row, IsRow(row), NEW T, Leading(row, T), T # {}, NEW sp, NEW z \in Nat,
         (IF z > 0 THEN z ELSE ExpSum(row, T)) = ExpSum(row, DOMAIN row)
  PROVE  \E n \in Nat \ {0}, kept \in Nat, ends \in SUBSET Nat : KeptOf(row, T, sp, z, n, kept, ends)
<1> DEFINE whole == z > 0
           zz == ExpSum(row, DOMAIN row)
           E(h) == Ends(row, T, h, sp, zz, whole)
           trunc == sp.min_p > 0 \/ sp.top_p < One
           n == Cardinality(T)
           heads == IF ~whole /\ trunc THEN Heads(n) ELSE {n}
           tried == {h \in heads : h = n \/ E(h) # {}}
           head == Min(tried)
           kept == Min(E(head) \cup {head})
<1>1. /\ n \in Nat \ {0} /\ IsFiniteSet(T) /\ T \in SUBSET DOMAIN row
      /\ \A b \in T : Index(row, T, b) = Place0(row, b) /\ Place0(row, b) < n /\ Place0(row, b) \in Nat
  <2>1. T \in SUBSET DOMAIN row
    BY DEF Leading
  <2>2. /\ IsFiniteSet(T) /\ n \in Nat
        /\ \A b \in T : Index(row, T, b) = Place0(row, b) /\ Place0(row, b) < n
    BY LeadingPlaces
  <2>3. \A b \in T : Place0(row, b) \in Nat
    BY <2>1, PlacesAre
  <2>4. n # 0
    BY <2>2, FS_EmptySet
  <2> QED
    BY <2>1, <2>2, <2>3, <2>4
<1>2. n \in heads /\ heads \in SUBSET (1..n)
  <2>1. n \in 1..n
    BY <1>1
  <2> HIDE DEF n
  <2> QED
    BY <2>1 DEF Heads
<1>3. finish(row, T, sp, z) = IF whole /\ E(head) = {} THEN NoDistribution ELSE {b \in T : Index(row, T, b) < kept}
  BY Zenon DEF finish
<1>4. whole => heads = {n}
  OBVIOUS
<1>5. ASSUME NEW h, NEW e PROVE e \in E(h) <=> EndsAt(row, T, h, sp, whole, e)
  BY EndIs
<1> HIDE DEF whole, trunc, heads, n, E
<1>6. ASSUME NEW h \in Nat, NEW e \in E(h) PROVE e \in Nat /\ e <= h
  <2>1. PICK b \in T : Place0(row, b) < h /\ (e = Place0(row, b) \/ e = Place0(row, b) + 1)
    BY <1>5 DEF EndsAt
  <2> QED
    BY <1>1, <2>1
<1>7. ASSUME NEW h \in Nat, NEW i \in Nat, h <= i, NEW e \in E(h) PROVE e \in E(i)
  <2>1. PICK b \in T : /\ Place0(row, b) < h
                       /\ \/ e = Place0(row, b) /\ ((whole /\ Exp(row, b) = 0) \/ MinpRefuses(row, sp, b))
                          \/ e = Place0(row, b) + 1 /\ Completes(row, sp, b)
    BY <1>5 DEF EndsAt
  <2>2. Place0(row, b) < i
    BY <1>1, <1>7, <2>1
  <2>3. EndsAt(row, T, i, sp, whole, e)
    BY <2>1, <2>2 DEF EndsAt
  <2> QED
    BY <1>5, <2>3
<1>8. ASSUME NEW h \in Nat, NEW i \in Nat, NEW e \in E(i) PROVE e \in E(h) \/ h <= e
  <2>1. PICK b \in T : /\ Place0(row, b) < i
                       /\ \/ e = Place0(row, b) /\ ((whole /\ Exp(row, b) = 0) \/ MinpRefuses(row, sp, b))
                          \/ e = Place0(row, b) + 1 /\ Completes(row, sp, b)
    BY <1>5 DEF EndsAt
  <2>2. CASE Place0(row, b) < h
    <3>1. EndsAt(row, T, h, sp, whole, e)
      BY <2>1, <2>2 DEF EndsAt
    <3> QED
      BY <1>5, <3>1
  <2>3. CASE ~(Place0(row, b) < h)
    <3>1. Place0(row, b) \in Nat /\ (e = Place0(row, b) \/ e = Place0(row, b) + 1)
      BY <1>1, <2>1
    <3> QED
      BY <2>3, <3>1
  <2> QED
    BY <2>2, <2>3
<1>9. head \in tried
  <2>1. \A h \in heads : h \in Nat
    BY <1>1, <1>2
  <2>2. tried \in SUBSET Nat /\ n \in tried
    BY <1>2, <2>1, Zenon
  <2> HIDE DEF tried
  <2> QED
    BY <2>2, MinIs
<1>10. head \in Nat /\ head <= n /\ (head = n \/ E(head) # {}) /\ head \in heads
  <2>1. head \in heads /\ (head = n \/ E(head) # {})
    BY <1>9, Zenon
  <2> HIDE DEF tried, head
  <2>2. head \in 1..n
    BY <1>2, <2>1
  <2> QED
    BY <1>1, <2>1, <2>2
<1> HIDE DEF tried, head
<1>11. kept \in E(head) \cup {head} /\ \A y \in E(head) \cup {head} : kept <= y
  <2> DEFINE S == E(head) \cup {head}
  <2>1. S \in SUBSET Nat /\ S # {}
    BY <1>6, <1>10
  <2> HIDE DEF S
  <2>2. Min(S) \in S /\ \A y \in S : Min(S) <= y
    BY <2>1, MinIs
  <2> QED
    BY <2>2 DEF S
<1> HIDE DEF kept
<1>12. kept \in Nat /\ kept <= head
  BY <1>6, <1>10, <1>11
<1>13. \A e \in E(n) : kept <= e /\ e \in Nat
  <2>1. ASSUME NEW e \in E(n) PROVE kept <= e /\ e \in Nat
    <3>1. e \in Nat
      BY <1>1, <1>6
    <3>2. e \in E(head) \/ head <= e
      BY <1>1, <1>8, <1>10
    <3> QED
      BY <1>10, <1>11, <1>12, <3>1, <3>2
  <2> QED
    BY <2>1
<1>14. E(head) \in SUBSET E(n)
  BY <1>1, <1>7, <1>10
<1>15. E(n) # {} => kept \in E(n)
  <2>1. SUFFICES ASSUME E(n) # {}, kept \notin E(head) PROVE kept \in E(n)
    BY <1>14
  <2>2. kept = head
    BY <1>11, <2>1
  <2>3. E(head) # {}
    BY <1>10, <2>1
  <2>4. PICK e \in E(head) : TRUE
    BY <2>3
  <2>5. e <= head /\ kept <= e /\ e \in Nat
    BY <1>6, <1>10, <1>11, <2>4
  <2>6. e = kept
    BY <1>10, <2>2, <2>5
  <2> QED
    BY <1>14, <2>4, <2>6
<1>16. E(n) = {} => kept = n
  BY <1>10, <1>11, <1>14
<1>17. whole => head = n
  BY <1>4, <1>10
<1>18. {b \in T : Index(row, T, b) < kept} = {b \in T : Place0(row, b) < kept}
  BY <1>1
<1>19. finish(row, T, sp, z) = IF whole /\ E(n) = {} THEN NoDistribution ELSE {b \in T : Place0(row, b) < kept}
  BY <1>3, <1>17, <1>18
<1>20. kept <= n /\ E(n) \in SUBSET Nat
  BY <1>1, <1>10, <1>12, <1>13
<1>21. \A e : e \in E(n) <=> EndsAt(row, T, n, sp, whole, e)
  BY <1>5
<1>22. KeptOf(row, T, sp, z, n, kept, E(n))
  BY <1>13, <1>15, <1>16, <1>19, <1>20, <1>21 DEF KeptOf, n, whole
<1> QED
  BY <1>1, <1>12, <1>20, <1>22

\* The head the GPU sends is cut where the host cuts what it can reach, or is refused.
LEMMA HeadAgrees ==
  ASSUME NEW row, IsRow(row), NEW L, Leading(row, L), L # {}, NEW sp, NEW z \in Nat,
         z = ExpSum(row, DOMAIN row), finish(row, L, sp, z) # NoDistribution
  PROVE  finish(row, L, sp, z) = finish(row, Reached(row), sp, 0)
<1> DEFINE H == Reached(row)
           P(b) == Place0(row, b)
           Cut(b) == MinpRefuses(row, sp, b)
           Full(b) == Completes(row, sp, b)
<1>1. z > 0 /\ ExpSum(row, H) = z
  BY ReachedSum
<1>2. PICK n \in Nat \ {0}, m \in Nat, ends \in SUBSET Nat : KeptOf(row, L, sp, z, n, m, ends)
  <2>1. (IF z > 0 THEN z ELSE ExpSum(row, L)) = ExpSum(row, DOMAIN row)
    BY <1>1
  <2> QED
    BY <2>1, FinishIs
<1>3. PICK nh \in Nat \ {0}, k \in Nat, endsH \in SUBSET Nat : KeptOf(row, H, sp, 0, nh, k, endsH)
  <2>1. (IF 0 > 0 THEN 0 ELSE ExpSum(row, H)) = ExpSum(row, DOMAIN row)
    BY <1>1
  <2>2. Leading(row, H) /\ H # {}
    BY ReachedLeads
  <2> HIDE DEF H
  <2> QED
    BY <2>1, <2>2, FinishIs
<1>4. /\ n = Cardinality(L) /\ m <= n /\ m \in ends /\ \A e \in ends : m <= e
      /\ \A e : e \in ends <=> EndsAt(row, L, n, sp, TRUE, e)
      /\ finish(row, L, sp, z) = {b \in L : P(b) < m}
  <2>1. ends # {}
    BY <1>1, <1>2 DEF KeptOf
  <2>2. (z > 0) = TRUE
    BY <1>1
  <2> QED
    BY <1>2, <2>1, <2>2 DEF KeptOf
<1>5. /\ nh = Cardinality(H) /\ k <= nh /\ (endsH = {} => k = nh) /\ (endsH # {} => k \in endsH)
      /\ \A e \in endsH : k <= e
      /\ \A e : e \in endsH <=> EndsAt(row, H, nh, sp, FALSE, e)
      /\ finish(row, H, sp, 0) = {b \in H : P(b) < k}
  <2>1. (0 > 0) = FALSE
    OBVIOUS
  <2> HIDE DEF H
  <2> QED
    BY <1>3, <2>1 DEF KeptOf
<1>6. /\ L \in SUBSET DOMAIN row /\ H \in SUBSET DOMAIN row
      /\ \A b \in DOMAIN row : P(b) \in Nat
      /\ \A b \in L : P(b) < n
      /\ \A b \in DOMAIN row \ L : n <= P(b)
      /\ \A b \in H : P(b) < nh
      /\ \A b \in DOMAIN row \ H : Exp(row, b) = 0 /\ nh <= P(b)
      /\ \A b \in H : ~(Exp(row, b) = 0)
  <2>1. Leading(row, H)
    BY ReachedLeads
  <2>2. (\A b \in L : P(b) < n) /\ \A b \in DOMAIN row \ L : n <= P(b)
    BY <1>4, LeadingPlaces
  <2>3. \A b \in DOMAIN row : Exp(row, b) \in Nat
    BY WeightsAre
  <2>4. (\A b \in DOMAIN row \ H : Exp(row, b) = 0) /\ \A b \in H : ~(Exp(row, b) = 0)
    BY <2>3 DEF Reached
  <2> HIDE DEF H
  <2>5. (\A b \in H : P(b) < nh) /\ \A b \in DOMAIN row \ H : nh <= P(b)
    BY <1>5, <2>1, LeadingPlaces
  <2> QED
    BY <2>1, <2>2, <2>4, <2>5, PlacesAre DEF Leading
<1>7. ASSUME NEW e
      PROVE  e \in ends <=> \E b \in L : \/ e = P(b) /\ (b \notin H \/ Cut(b))
                                         \/ e = P(b) + 1 /\ Full(b)
  <2>1. e \in ends <=> EndsAt(row, L, n, sp, TRUE, e)
    BY <1>4
  <2>2. \A b \in L : P(b) < n /\ (Exp(row, b) = 0 <=> b \notin H)
    BY <1>6
  <2> HIDE DEF H
  <2> QED
    BY <2>1, <2>2 DEF EndsAt
<1>8. ASSUME NEW e
      PROVE  e \in endsH <=> \E b \in H : (e = P(b) /\ Cut(b)) \/ (e = P(b) + 1 /\ Full(b))
  <2>1. e \in endsH <=> EndsAt(row, H, nh, sp, FALSE, e)
    BY <1>5
  <2>2. \A b \in H : P(b) < nh
    BY <1>6
  <2> HIDE DEF H
  <2> QED
    BY <2>1, <2>2 DEF EndsAt
<1> HIDE DEF H, P, Cut, Full
<1>9. ASSUME NEW b \in L, P(b) < m PROVE b \in H /\ P(b) < k
  <2>1. b \in H
    <3>1. SUFFICES ASSUME b \notin H PROVE FALSE
      OBVIOUS
    <3>2. P(b) \in ends
      BY <1>7, <3>1
    <3>3. m <= P(b) /\ P(b) \in Nat
      BY <1>4, <1>6, <3>2
    <3> QED
      BY <1>9, <3>3
  <2>2. P(b) \in Nat /\ P(b) < nh /\ P(b) < n
    BY <1>6, <2>1
  <2>3. CASE endsH = {}
    BY <1>5, <2>1, <2>2, <2>3
  <2>4. CASE endsH # {}
    <3>1. PICK c \in H : (k = P(c) /\ Cut(c)) \/ (k = P(c) + 1 /\ Full(c))
      BY <1>5, <1>8, <2>4
    <3>2. CASE c \in L
      <4>1. k \in ends
        BY <1>7, <3>1, <3>2
      <4> QED
        BY <1>4, <1>9, <2>1, <2>2, <4>1
    <3>3. CASE c \notin L
      <4>1. P(c) \in Nat /\ n <= P(c)
        BY <1>6, <3>3
      <4> QED
        BY <2>1, <2>2, <3>1, <4>1
    <3> QED
      BY <3>2, <3>3
  <2> QED
    BY <2>1, <2>3, <2>4
<1>10. ASSUME NEW b \in H, P(b) < k PROVE b \in L /\ P(b) < m
  <2>1. b \in DOMAIN row /\ P(b) \in Nat /\ P(b) < nh
    BY <1>6
  <2>2. PICK c \in L : \/ m = P(c) /\ (c \notin H \/ Cut(c))
                       \/ m = P(c) + 1 /\ Full(c)
    BY <1>4, <1>7
  <2>3. P(c) \in Nat /\ P(c) < n /\ c \in DOMAIN row
    BY <1>6
  <2>4. P(b) < m
    <3>1. CASE c \in H
      <4>1. m \in endsH
        BY <1>8, <2>2, <3>1
      <4> QED
        BY <1>5, <1>10, <2>1, <4>1
    <3>2. CASE c \notin H
      <4>1. nh <= P(c)
        BY <1>6, <2>3, <3>2
      <4> QED
        BY <2>1, <2>2, <2>3, <4>1
    <3> QED
      BY <3>1, <3>2
  <2>5. b \in L
    <3>1. P(b) < n
      BY <1>4, <2>1, <2>4
    <3> QED
      BY <1>6, <2>1, <3>1
  <2> QED
    BY <2>4, <2>5
<1>11. {b \in L : P(b) < m} = {b \in H : P(b) < k}
  BY <1>9, <1>10
<1> QED
  BY <1>4, <1>5, <1>11 DEF H

\* Whatever row is drawn from and however it is cut: a distribution from the tokens the GPU selected is one the host could
\* have made of the whole row (Sampler::distribution, distribution_topk and distribution_head of src/engine/sampler.cpp).
THEOREM SamePathsHolds == \A row : IsRow(row) /\ kTopkMax < Cardinality(DOMAIN row) => SamePaths(row)
<1> SUFFICES ASSUME NEW row, IsRow(row), kTopkMax < Cardinality(DOMAIN row), NEW sp \in Params,
                    row_distribution(row, sp) # NoDistribution
             PROVE  row_distribution(row, sp) \in HostDistributions(row, sp)
  BY DEF SamePaths
<1>1. PICK n \in Nat : n = Cardinality(DOMAIN row)
  BY FloatRowIs
<1>2. kTopkMax \in 1..n - 1 /\ sp.top_k \in 0..kTopkMax
  BY <1>1, SamplingAssumption
<1>3. CASE sp.top_k > 0
  <2> DEFINE k == sp.top_k
             S == Largest(row, k)
             TopSet(T) == \A a \in T, b \in DOMAIN row \ T : ValueOf(row[a]) >= ValueOf(row[b])
  <2>1. k \in 1..n - 1 /\ k \in 1..n
    BY <1>2, <1>3
  <2>2. Selection(row, k) = S /\ Leading(row, S) /\ Cardinality(S) = k
    BY <1>1, <2>1, LargestLeads
  <2>3. row_distribution(row, sp) = finish(row, S, sp, 0)
    BY <1>3, <2>2 DEF row_distribution
  <2> HIDE DEF S
  <2>4. TopSet(S)
    <3>1. ASSUME NEW a \in S, NEW b \in DOMAIN row \ S PROVE ValueOf(row[a]) >= ValueOf(row[b])
      <4>1. a \in DOMAIN row /\ ~Ahead(row, b, a)
        BY <2>2 DEF Leading
      <4>2. ValueOf(row[a]) \in Int /\ ValueOf(row[b]) \in Int
        BY <4>1, ValueIs
      <4> QED
        BY <4>1, <4>2 DEF Ahead
    <3> QED
      BY <3>1
  <2>5. S \in kSubset(k, DOMAIN row)
    BY <2>2 DEF Leading, kSubset
  <2>6. HostDistributions(row, sp) = {finish(row, T, sp, 0) : T \in {U \in kSubset(k, DOMAIN row) : TopSet(U)}}
    BY <1>1, <2>1 DEF HostDistributions
  <2> QED
    BY <2>3, <2>4, <2>5, <2>6
<1>4. CASE ~(sp.top_k > 0)
  <2> DEFINE L == Largest(row, kTopkMax)
  <2>1. sp.top_k \notin 1..n - 1
    BY <1>2, <1>4
  <2>2. HostDistributions(row, sp) = {finish(row, Reached(row), sp, 0)}
    BY <1>1, <2>1 DEF HostDistributions, Reached
  <2>3. Selection(row, kTopkMax) = L /\ Leading(row, L) /\ Cardinality(L) = kTopkMax
    BY <1>1, <1>2, LargestLeads
  <2>4. row_distribution(row, sp) = finish(row, L, sp, ExpSum(row, DOMAIN row))
    BY <1>4, <2>3 DEF row_distribution
  <2>5. L # {}
    BY <1>2, <2>3, FS_EmptySet
  <2> HIDE DEF L
  <2>6. PICK z \in Nat : z = ExpSum(row, DOMAIN row)
    BY ReachedSum
  <2>7. finish(row, L, sp, z) = finish(row, Reached(row), sp, 0)
    BY <2>3, <2>4, <2>5, <2>6, HeadAgrees
  <2> QED
    BY <2>2, <2>4, <2>6, <2>7
<1> QED
  BY <1>3, <1>4

-----------------------------------------------------------------------------
(* The launches of the run *)

\* A behaviour of the run is forwards, or one launch: Launches says which.
LEMMA LaunchStays == MCSpec => [](launch \in {NoLaunch} \cup Launches)
<1>1. MCInit => launch \in {NoLaunch} \cup Launches
  BY DEF MCInit
<1>2. launch \in {NoLaunch} \cup Launches /\ [RunForwards]_<<vars, launch>> => (launch \in {NoLaunch} \cup Launches)'
  <2>1. ASSUME [RunForwards]_<<vars, launch>> PROVE launch' = launch
    BY <2>1 DEF RunForwards
  <2>2. (NoLaunch)' = NoLaunch /\ Launches' = Launches
    BY DEF NoLaunch, Launches
  <2> QED
    BY <2>1, <2>2
<1> QED
  BY <1>1, <1>2, PTL DEF MCSpec

\* What each launch is, by its name.
LEMMA LaunchIs ==
  ASSUME launch \in {NoLaunch} \cup Launches
  PROVE  /\ launch.what = "window" => \E w \in Windows : launch = [what |-> "window", pos0 |-> w[1], T |-> w[2]]
         /\ launch.what = "selection" => launch.row \in FloatRows
         /\ launch.what = "draw" => launch.row \in FloatRows /\ Cardinality(DOMAIN launch.row) > kTopkMax
         /\ launch.what = "attention" => launch.q \in ContextRows
         /\ launch.what = "experts" => launch.window \in RoutedWindows
<1>1. CASE launch = NoLaunch
  BY <1>1 DEF NoLaunch
<1>2. CASE launch \in {[what |-> "window", pos0 |-> w[1], T |-> w[2]] : w \in Windows}
  BY <1>2
<1>3. CASE launch \in [what : {"selection"}, row : FloatRows]
  BY <1>3
<1>4. CASE launch \in [what : {"attention"}, q : ContextRows]
  BY <1>4
<1>5. CASE launch \in [what : {"experts"}, window : RoutedWindows]
  BY <1>5
<1>6. CASE launch \in [what : {"draw"}, row : {r \in FloatRows : Cardinality(DOMAIN r) > kTopkMax}]
  BY <1>6
<1> QED
  BY <1>1, <1>2, <1>3, <1>4, <1>5, <1>6 DEF Launches

\* Whatever launch a behaviour of the run is, any window of any context: its layers select by scores of this launch and
\* pooled keys of the text (src/kernels/qsa.cu).
THEOREM SelectionSeesItsTextHolds == MCSpec => []SelectionSeesItsText
<1>1. ASSUME launch \in {NoLaunch} \cup Launches PROVE SelectionSeesItsText
  <2>1. SUFFICES ASSUME launch.what = "window" PROVE SeesItsText(launch.pos0, launch.T)
    BY DEF SelectionSeesItsText
  <2>2. PICK w \in Windows : launch = [what |-> "window", pos0 |-> w[1], T |-> w[2]]
    BY <1>1, <2>1, LaunchIs
  <2>3. w[1] \in Nat /\ w[2] \in Nat \ {0} /\ w[1] + w[2] <= Cells
    BY <2>2, AttentionConstants DEF Windows
  <2> QED
    BY <2>2, <2>3, SeesItsTextHolds
<1> QED
  BY <1>1, LaunchStays, PTL

\* Whatever row of floats a behaviour of the run selects from, of whatever length, and however many it keeps: the block of
\* threads writes the largest, each once, and no other (topk_rows_k of src/kernels/ops.cu, qsa_topk_k of
\* src/kernels/qsa.cu).
THEOREM TopKRightHolds == MCSpec => []TopKRight
<1>1. ASSUME launch \in {NoLaunch} \cup Launches PROVE TopKRight
  <2>1. SUFFICES ASSUME launch.what = "selection" PROVE SelectsLargest(launch.row)
    BY DEF TopKRight
  <2>2. IsRow(launch.row)
    BY <1>1, <2>1, LaunchIs, FloatRowsAssumption
  <2> QED
    BY <2>2, SelectsLargestHolds
<1> QED
  BY <1>1, LaunchStays, PTL

\* Whatever row a behaviour of the run draws from: what the GPU's candidates give is the host's distribution, or refused
\* (Generator::row_distribution of src/engine/generate.cpp).
THEOREM SameOnBothPathsHolds == MCSpec => []SameOnBothPaths
<1>1. ASSUME launch \in {NoLaunch} \cup Launches PROVE SameOnBothPaths
  <2>1. SUFFICES ASSUME launch.what = "draw" PROVE SamePaths(launch.row)
    BY DEF SameOnBothPaths
  <2>2. launch.row \in FloatRows /\ Cardinality(DOMAIN launch.row) > kTopkMax
    BY <1>1, <2>1, LaunchIs
  <2>3. IsRow(launch.row)
    BY <2>2, FloatRowsAssumption
  <2>4. Cardinality(DOMAIN launch.row) \in Nat /\ kTopkMax \in Nat
    BY <2>3, FloatRowIs, SamplingAssumption
  <2>5. kTopkMax < Cardinality(DOMAIN launch.row)
    BY <2>2, <2>4
  <2> QED
    BY <2>3, <2>5, SamePathsHolds
<1> QED
  BY <1>1, LaunchStays, PTL

\* Whatever row of the context a behaviour of the run attends for, and whatever its scores are: it reads its context once,
\* on its own and in a launch shared with neighbours (qsa_attn_prefill_multi_k of src/kernels/qsa.cu).
THEOREM ContextReadOnceHolds == MCSpec => []ContextReadOnce
<1>1. ASSUME launch \in {NoLaunch} \cup Launches PROVE ContextReadOnce
  <2>1. SUFFICES ASSUME launch.what = "attention" PROVE ReadsOnce(launch.q) /\ SharedReadOnce(launch.q)
    BY DEF ContextReadOnce
  <2>2. launch.q \in Nat
    BY <1>1, <2>1, LaunchIs, AttentionConstants DEF ContextRows
  <2> QED
    BY <2>2, ReadsOnceHolds, SharedReadOnceHolds
<1> QED
  BY <1>1, LaunchStays, PTL

\* Whatever window a behaviour of the run routes, whichever experts have a slot: no row's sum depends on the rows beside it,
\* nor with BNK_EXACT on whether there are any (regions_launch and moe_reduce_k of src/kernels/moe.cu).
THEOREM RowsAddUpAloneHolds == MCSpec => []RowsAddUpAlone
<1>1. ASSUME launch \in {NoLaunch} \cup Launches PROVE RowsAddUpAlone
  <2>1. SUFFICES ASSUME launch.what = "experts" PROVE AddsUpAlone(launch.window)
    BY DEF RowsAddUpAlone
  <2>2. launch.window \in RoutedWindows
    BY <1>1, <2>1, LaunchIs
  <2> QED
    BY <2>2, AddsUpAloneHolds
<1> QED
  BY <1>1, LaunchStays, PTL

=============================================================================
