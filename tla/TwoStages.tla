----------------------------- MODULE TwoStages -----------------------------
(***************************************************************************)
(* Two GPUs as two stages of one model (src/engine/engine.cpp): the main   *)
(* thread books windows on each stage, launches their graphs, answers the  *)
(* experts that are not in VRAM through a mailbox per layer                *)
(* (src/kernels/moe.h), and waits; the second stage's layers are answered  *)
(* on a helper thread when both stages run different batches               *)
(* (forward_pipe).  The kept part of a verified window is committed on a   *)
(* stream of its own.  A prompt is read in chunks, the second stage's part *)
(* on a worker thread (Engine::prefill), and between its chunks the server *)
(* lets the other requests go on (between_chunks of src/server/serve.cpp). *)
(*                                                                         *)
(* A row of the model's residual stream is the slot and position it        *)
(* belongs to and whether its token is the right one (a draft may be       *)
(* wrong).  A slot's recurrent state is the number of right tokens it has  *)
(* consumed in order; Junk once anything else got into it.                 *)
(***************************************************************************)
EXTENDS Integers, Sequences, FiniteSets

CONSTANTS
  Decoding,              \* slots with a request that decodes
  Reading,               \* the slot whose prompt is read
  Prompts,               \* tokens that prompt may have
  Chunk, PrefillMin,     \* tokens of a chunk; fewer left are read as a window
  MaxWindow,
  Hows,                  \* windows a request may bring: how many tokens, how many of them right
  Layers, Missing,       \* layers of each stage; those with routed experts outside VRAM
  MaxPos,                \* bound: positions a request decodes to
  MaxCalls,              \* bound: forwards of the engine
  MaxFailures,           \* bound: chunks that fail
  None, Junk

Slots  == Decoding \cup {Reading}
Stages == {1, 2}
Lanes  == {0, 1}

\* A row of a batch; a window: its first row in its batch, its tokens and the position they start at, how many of them
\* are right; all of it is committed as it runs, or a commit follows.  A batch is a window for each slot, of no tokens
\* for a slot that is not in it.
Row     == (Slots \X Nat \X BOOLEAN) \cup {Junk}
Rows    == Seq(Row)
Wins    == [r0 : Nat, T : Nat, pos0 : Nat, right : Nat, commit : BOOLEAN]
Batches == [Slots -> Wins]

Calls  == [wins : [Stages -> Batches], lane : [Stages -> Lanes], piped : BOOLEAN]
Halves == [lane : Lanes, wins : Batches]
Reads  == [total : Prompts, i : Nat, buf : {0, 1}, posted : BOOLEAN, next : {"read", "post", "tail"}]
Jobs   == [slot : Slots, buf : {0, 1}, n : Nat, pos0 : Nat]
Graphs == [at : {"begin", "plan", "wait", "out"}, layer : Nat, rows : Rows, lane : Lanes, after : BOOLEAN, seq : Nat]
Kept   == [slot : Slots, lane : Lanes, r0 : Nat, n : Nat]

ASSUME TwoStagesAssumption ==
  /\ Decoding \in SUBSET Nat /\ IsFiniteSet(Decoding) /\ Reading \in Nat \ Decoding
  /\ Prompts \subseteq Nat \ {0} /\ Chunk \in Nat \ {0} /\ PrefillMin \in 1..Chunk /\ MaxWindow \in Nat \ {0}
  /\ Hows \subseteq (1..MaxWindow) \X (1..MaxWindow) /\ \A how \in Hows : how[2] <= how[1]
  /\ Layers \in Nat \ {0} /\ Missing \subseteq 1..Layers /\ MaxPos \in Nat /\ MaxCalls \in Nat /\ MaxFailures \in Nat
  /\ Junk \notin Nat /\ None \notin Calls \cup Halves \cup Reads \cup Jobs \cup Graphs

VARIABLES
  pc,                    \* the main thread
  call,                  \* the forward under way: the batch (wins) and lane of each stage, piped; None
  mid,                   \* lane whose windows went through the first stage only, with them; None
  cur,                   \* the slot selected on every stage
  rd,                    \* Engine::prefill: total tokens, i handed on, buf, posted, next step after the callback; None
  job,                   \* the prompt worker's chunk: buf, n, pos0; None when idle
  err,                   \* the worker's exception
  hist, pend,            \* per stage and slot: tokens booked; rows of the window to commit
  lastRow, lastLane,     \* per stage and slot: first row and lane of the last window
  lastT,                 \* per stage: last_T
  seq,                   \* per stage: number of its last forward
  par,                   \* per stage: h_par_, the batch the graph will read
  gpu,                   \* per stage: the graph under way: at, layer, rows, lane, after, seq
  joined,                \* per stage: the stream waits for the commits enqueued
  commits,               \* per stage: what the commit stream has to do yet
  svc,                   \* per stage: next layer whose mailbox is to be answered, 0 for none
  box,                   \* per stage and layer: seq_req, seq_done, miss
  state,                 \* per stage and slot: the recurrent state
  inter,                 \* per stage and lane: rows whose intermediates a commit replays
  xfer, pfXfer,          \* rows from the first stage to the second: per lane, and the two of the prompt path
  logits,                \* rows of the last stage's head
  calls, failures

host  == <<pc, call, mid, cur, rd, job, err, calls, failures>>
books == <<hist, pend, lastRow, lastLane, lastT, seq, par>>
dev   == <<gpu, state, inter, xfer, pfXfer, logits>>
vars  == <<host, books, dev, joined, commits, svc, box>>

Window(r0, T, pos0, right, commit) == [r0 |-> r0, T |-> T, pos0 |-> pos0, right |-> right, commit |-> commit]

\* the batch of no slot, and of slot s alone
NoWindows   == [t \in Slots |-> Window(0, 0, 0, 0, FALSE)]
Alone(s, w) == [NoWindows EXCEPT ![s] = w]

\* A batch's windows lie one after the other: its slots, their rows, the slot row i belongs to, and the row.
On(ws)         == {s \in Slots : ws[s].T > 0}
WinRows(w)     == w.r0 + 1 .. w.r0 + w.T
Span(ws)       == UNION {WinRows(ws[s]) : s \in Slots}
Packed(ws)     == /\ \E n \in 0..MaxWindow : Span(ws) = 1..n
                  /\ \A s, t \in Slots : s # t => WinRows(ws[s]) \cap WinRows(ws[t]) = {}
NRows(ws)      == CHOOSE n \in 0..MaxWindow : Span(ws) = 1..n
SlotAt(ws, i)  == CHOOSE s \in Slots : i \in WinRows(ws[s])
RowAt(s, w, i) == <<s, w.pos0 + i - w.r0, i - w.r0 <= w.right>>
AllRows(ws)    == [i \in Span(ws) |-> RowAt(SlotAt(ws, i), ws[SlotAt(ws, i)], i)]

TypeOK ==
  /\ pc \in {"idle", "between", "prepare", "launch", "service", "end", "finish", "read", "wait", "post", "tail", "first token", "settle"}
  /\ call \in Calls \cup {None} /\ mid \in Halves \cup {None} /\ rd \in Reads \cup {None} /\ job \in Jobs \cup {None}
  /\ cur \in Slots /\ err \in BOOLEAN /\ calls \in Nat /\ failures \in 0..MaxFailures
  /\ hist \in [Stages -> [Slots -> Nat]] /\ pend \in [Stages -> [Slots -> Nat]] /\ state \in [Stages -> [Slots -> Nat \cup {Junk}]]
  /\ lastRow \in [Stages -> [Slots -> Nat]] /\ lastLane \in [Stages -> [Slots -> Lanes]]
  /\ lastT \in [Stages -> Nat] /\ seq \in [Stages -> Nat] /\ par \in [Stages -> Batches] /\ gpu \in [Stages -> Graphs \cup {None}]
  /\ joined \in [Stages -> BOOLEAN] /\ commits \in [Stages -> SUBSET Kept] /\ svc \in [Stages -> 0..Layers + 1]
  /\ inter \in [Stages -> [Lanes -> Rows]] /\ xfer \in [Lanes -> Rows] /\ pfXfer \in [Lanes -> Rows] /\ logits \in Rows

Init ==
  /\ pc = "idle" /\ call = None /\ mid = None /\ cur = Reading /\ rd = None /\ job = None /\ err = FALSE
  /\ hist = [g \in Stages |-> [s \in Slots |-> IF s \in Decoding THEN 1 ELSE 0]]
  /\ state = hist
  /\ pend = [g \in Stages |-> [s \in Slots |-> 0]]
  /\ lastRow = pend /\ lastLane = pend
  /\ lastT = [g \in Stages |-> 0] /\ seq = [g \in Stages |-> 0] /\ par = [g \in Stages |-> NoWindows]
  /\ gpu = [g \in Stages |-> None] /\ joined = [g \in Stages |-> TRUE] /\ commits = [g \in Stages |-> {}]
  /\ svc = [g \in Stages |-> 0]
  /\ box = [g \in Stages |-> [l \in 1..Layers |-> [req |-> 0, done |-> 0, miss |-> FALSE]]]
  /\ inter = [g \in Stages |-> [l \in Lanes |-> <<>>]]
  /\ xfer = [l \in Lanes |-> <<>>] /\ pfXfer = xfer /\ logits = <<>>
  /\ calls = 0 /\ failures = 0

-----------------------------------------------------------------------------
(* What a stage computes *)

\* The rows that come in, for the batch ws, given the slots' states st: a window's rows are what they should be when
\* the rows and the state belong together.
Through(ws, rows, st) ==
  [i \in Span(ws) |-> LET s == SlotAt(ws, i) IN
     IF i \in DOMAIN rows /\ st[s] = ws[s].pos0 /\ \E ok \in BOOLEAN : rows[i] = <<s, ws[s].pos0 + i - ws[s].r0, ok>>
     THEN rows[i] ELSE Junk]

\* the state st of slot s after consuming the n rows after row r0, in order
Consumed(s, st, rows, r0, n) ==
  IF st # Junk /\ \A j \in 1..n : r0 + j \in DOMAIN rows /\ rows[r0 + j] = <<s, st + j, TRUE>> THEN st + n ELSE Junk

\* the states after the windows that are committed as they run
AfterCommitted(ws, rows, st) ==
  [s \in Slots |-> IF s \in On(ws) /\ ws[s].commit THEN Consumed(s, st[s], rows, ws[s].r0, ws[s].T) ELSE st[s]]

-----------------------------------------------------------------------------
(* The driver: rounds of the server loop, alone or between a prompt's chunks *)

\* the slots with a request that decodes: the prompt's too once it is read
Active == IF rd = None /\ hist[1][Reading] > 0 THEN Slots ELSE Decoding

\* windows of the requests on some slots, of the lengths and drafts in how; those of one token are committed as they run
Booked(r0, how) ==
  [s \in Slots |-> IF s \in DOMAIN how THEN Window(r0[s], how[s][1], hist[1][s], how[s][2], how[s][1] = 1) ELSE NoWindows[s]]

\* What the requests on the slots ss, in any order, may bring together: their drafts share a window's rows (share_rows).
Shares(ss) == {ws \in {Booked(r0, how) : r0 \in [ss -> 0..MaxWindow - 1], how \in [ss -> Hows]} : Packed(ws)}

CanGoOn(ss) == \A s \in ss : \A how \in Hows : hist[1][s] + how[1] <= MaxPos

PerStage(first, second) == [g \in Stages |-> IF g = 1 THEN first ELSE second]

Begin(wins, lane, piped) ==
  /\ call' = [wins |-> wins, lane |-> lane, piped |-> piped]
  /\ pc' = "prepare" /\ calls' = calls + 1
  /\ UNCHANGED <<cur, rd, job, err, failures, books, dev, joined, commits, svc, box>>

\* run_round: every request's window through both stages, with no lanes formed
Batch ==
  /\ pc \in {"idle", "between"} /\ mid = None /\ calls < MaxCalls /\ CanGoOn(Active)
  /\ \E ws \in Shares(Active) : Begin([g \in Stages |-> ws], [g \in Stages |-> 0], FALSE)
  /\ UNCHANGED mid

\* the requests of a lane, alternating in slot order
LaneSlots(l) == {s \in Active : Cardinality({t \in Active : t < s}) % 2 = l}

\* pipe_step: the next lane's windows on the first stage while the other's run on the second
PipeStep ==
  /\ pc = "idle" /\ Cardinality(Active) >= 2 /\ calls < MaxCalls
  /\ LET x    == IF mid # None /\ mid.lane = 0 THEN 1 ELSE 0
         half == IF mid = None THEN NoWindows ELSE mid.wins
     IN  /\ CanGoOn(LaneSlots(x))
         /\ \E ws \in Shares(LaneSlots(x)) : Begin(PerStage(ws, half), PerStage(x, 1 - x), TRUE) /\ mid' = [lane |-> x, wins |-> ws]

\* pipe_drain: the other lane goes through the second stage alone
PipeDrain ==
  /\ pc = "idle" /\ mid # None
  /\ Begin(PerStage(NoWindows, mid.wins), PerStage(1 - mid.lane, mid.lane), TRUE)
  /\ mid' = None

-----------------------------------------------------------------------------
(* A forward: fwd_prepare, fwd_launch, fwd_service, fwd_end *)

Busy(g)   == On(call.wins[g]) # {}
In(g, s)  == s \in On(call.wins[g])
Win(g, s) == call.wins[g][s]

\* mutant: the stream does not wait for the commits
NotJoined(g) == joined[g]

\* join_commit_here: what is enqueued on the stage's stream from here on waits for the commits
Join(g) == TRUE

\* fwd_prepare of every stage that has windows; nothing has been launched yet
Prepare ==
  /\ pc = "prepare" /\ pc' = "launch"
  /\ joined'   = [g \in Stages |-> IF Busy(g) THEN Join(g) ELSE joined[g]]
  /\ seq'      = [g \in Stages |-> IF Busy(g) THEN seq[g] + 1 ELSE seq[g]]
  /\ hist'     = [g \in Stages |-> [s \in Slots |-> hist[g][s] + IF In(g, s) THEN Win(g, s).T ELSE 0]]
  /\ lastRow'  = [g \in Stages |-> [s \in Slots |-> IF In(g, s) THEN Win(g, s).r0 ELSE lastRow[g][s]]]
  /\ lastLane' = [g \in Stages |-> [s \in Slots |-> IF In(g, s) THEN call.lane[g] ELSE lastLane[g][s]]]
  /\ par'      = [g \in Stages |-> IF Busy(g) THEN call.wins[g] ELSE par[g]]
  /\ lastT'    = [g \in Stages |-> IF Busy(g) THEN NRows(call.wins[g]) ELSE lastT[g]]
  /\ UNCHANGED <<call, mid, cur, rd, job, err, calls, failures, pend, dev, commits, svc, box>>

\* mutant: both stages of a batch are answered at the same time as those of a pipe step, the second first
ServiceSecondFirst == [g \in Stages |-> IF ~Busy(g) THEN 0 ELSE IF call.piped \/ g = 2 THEN 1 ELSE 0]

\* who is answered from the start: of a batch the first stage (the second's layers follow), of a pipe step
\* both at once, the second stage's on the helper
ServiceFrom == [g \in Stages |-> IF ~Busy(g) THEN 0 ELSE IF call.piped \/ g = 1 THEN 1 ELSE 0]

Launch ==
  /\ pc = "launch" /\ pc' = "service"
  /\ gpu' = [g \in Stages |-> IF Busy(g) THEN [at |-> "begin", layer |-> 1, rows |-> <<>>, lane |-> call.lane[g],
                                               after |-> g = 2 /\ ~call.piped, seq |-> seq[g]]
                              ELSE None]
  /\ svc' = ServiceFrom
  /\ UNCHANGED <<call, mid, cur, rd, job, err, calls, failures, books, state, inter, xfer, pfXfer, logits, joined, commits, box>>

\* service_cpu, one layer: the request of this forward is answered if any expert is missing
Service(g) ==
  /\ svc[g] \in 1..Layers /\ box[g][svc[g]].req = seq[g]
  /\ box' = [box EXCEPT ![g][svc[g]].done = IF box[g][svc[g]].miss THEN seq[g] ELSE @]
  /\ svc' = [svc EXCEPT ![g] = @ + 1,
                        ![3 - g] = IF svc[g] = Layers /\ Busy(3 - g) /\ @ = 0 THEN 1 ELSE @]
  /\ UNCHANGED <<host, books, dev, joined, commits>>

ServiceEnd ==
  /\ pc = "service" /\ \A g \in Stages : Busy(g) => svc[g] = Layers + 1
  /\ pc' = "end" /\ svc' = [g \in Stages |-> 0]
  /\ UNCHANGED <<call, mid, cur, rd, job, err, calls, failures, books, dev, joined, commits, box>>

\* fwd_end: wait for the streams; windows of several tokens await their commit
End ==
  /\ pc = "end" /\ \A g \in Stages : gpu[g] = None
  /\ pc' = "finish"
  /\ pend' = [g \in Stages |-> [s \in Slots |-> IF In(g, s) /\ ~Win(g, s).commit THEN Win(g, s).T ELSE IF In(g, s) THEN 0 ELSE pend[g][s]]]
  /\ UNCHANGED <<call, mid, cur, rd, job, err, calls, failures, hist, lastRow, lastLane, lastT, seq, par, dev, joined, commits, svc, box>>

\* Generator::finish of each request whose window is through both stages: what of it was right is kept.
\* commit_here enqueues that on the commit stream, after the stream's forward, which has ended.
CommitOf(g, s) == [slot |-> s, lane |-> lastLane[g][s], r0 |-> lastRow[g][s], n |-> Win(2, s).right]

Verified == {s \in On(call.wins[2]) : ~Win(2, s).commit}

Finish ==
  /\ pc = "finish"
  /\ commits' = [g \in Stages |-> commits[g] \cup {CommitOf(g, s) : s \in Verified}]
  /\ joined'  = [g \in Stages |-> joined[g] /\ Verified = {}]
  /\ hist'    = [g \in Stages |-> [s \in Slots |-> IF s \in Verified THEN hist[g][s] - (Win(2, s).T - Win(2, s).right) ELSE hist[g][s]]]
  /\ pend'    = [g \in Stages |-> [s \in Slots |-> IF s \in Verified THEN 0 ELSE pend[g][s]]]
  /\ call' = None
  /\ IF rd # None /\ In(2, Reading)       \* the tail of a prompt: its callback
     THEN LET i == rd.i + Win(2, Reading).T IN
          /\ rd' = [rd EXCEPT !.i = i, !.next = "read"]
          /\ pc' = IF i < rd.total THEN "between" ELSE "read"
          /\ UNCHANGED cur
     ELSE /\ pc' = IF rd = None THEN "idle" ELSE "between"
          /\ \/ ~Busy(2) /\ UNCHANGED cur
             \/ \E s \in On(call.wins[2]) : cur' = s /\ \A t \in On(call.wins[2]) : Win(2, t).r0 <= Win(2, s).r0
          /\ UNCHANGED rd
  /\ UNCHANGED <<mid, job, err, calls, failures, lastRow, lastLane, lastT, seq, par, dev, svc, box>>

\* the commit stream: the kept rows of a verified window are replayed from their intermediates; those of different
\* slots, in any order
Commit(g) ==
  /\ \E c \in commits[g] :
       /\ state' = [state EXCEPT ![g][c.slot] = Consumed(c.slot, @, inter[g][c.lane], c.r0, c.n)]
       /\ commits' = [commits EXCEPT ![g] = @ \ {c}]
  /\ UNCHANGED <<host, books, gpu, inter, xfer, pfXfer, logits, joined, svc, box>>

-----------------------------------------------------------------------------
(* Engine::prefill: a prompt in chunks, and its rest as windows *)

\* the caller's thread joins the commits; no lanes are formed when a prompt is read
Read ==
  /\ pc = "idle" /\ mid = None /\ rd = None /\ hist[1][Reading] = 0
  /\ \E total \in Prompts : rd' = [total |-> total, i |-> 0, buf |-> 0, posted |-> FALSE, next |-> "read"] /\ cur' = Reading
  /\ joined' = [g \in Stages |-> TRUE]
  /\ pc' = "read"
  /\ UNCHANGED <<call, mid, job, err, calls, failures, books, dev, commits, svc, box>>

Left == rd.total - rd.i
ChunkLen == IF Left < Chunk THEN Left ELSE Chunk

\* prefill_chunk_here on stage g: n tokens of slot s through it at once, from `in'
ChunkOf(s, n, pos0)             == Alone(s, Window(0, n, pos0, n, TRUE))
ThroughChunk(g, s, n, pos0, in) == Through(ChunkOf(s, n, pos0), in, state[g])

ChunkBooks(g, s, n) ==
  /\ hist'  = [hist EXCEPT ![g][s] = @ + n]
  /\ seq'   = [seq EXCEPT ![g] = @ + 1]
  /\ lastT' = [lastT EXCEPT ![g] = 1]
  /\ joined' = [joined EXCEPT ![g] = TRUE]
  /\ UNCHANGED <<pend, lastRow, lastLane, par>>

Fails == failures < MaxFailures /\ failures' = failures + 1

\* the first stage's part, on the caller's thread, while the worker may run the chunk before on the second
ReadChunk ==
  /\ pc = "read" /\ Left >= PrefillMin
  /\ commits[1] = {}
  /\ LET n   == ChunkLen
         in  == AllRows(ChunkOf(cur, n, hist[1][cur]))
         out == ThroughChunk(1, cur, n, hist[1][cur], in)
     IN  /\ ChunkBooks(1, cur, n)
         /\ pfXfer' = [pfXfer EXCEPT ![rd.buf] = out]
         /\ state' = [state EXCEPT ![1][cur] = Consumed(cur, @, out, 0, n)]
  /\ pc' = "wait"
  /\ UNCHANGED <<call, mid, cur, rd, job, err, calls, failures, gpu, inter, xfer, logits, commits, svc, box>>

ReadChunkFails ==
  /\ pc = "read" /\ Left >= PrefillMin /\ Fails
  /\ pc' = "settle"
  /\ UNCHANGED <<call, mid, cur, rd, job, err, calls, books, dev, joined, commits, svc, box>>

\* Worker::wait: its exception is thrown here
Waited(next) ==
  /\ job = None /\ err' = FALSE
  /\ IF err THEN pc' = "settle" /\ UNCHANGED rd ELSE next

\* the callback of a chunk that is not the prompt's last
Callback(next) == pc' = "between" /\ rd' = [rd EXCEPT !.next = next]

\* worker_->wait(), then the progress of the chunk it had: the others go on
Wait ==
  /\ pc = "wait"
  /\ Waited(IF rd.posted THEN Callback("post") ELSE pc' = "post" /\ UNCHANGED rd)
  /\ UNCHANGED <<call, mid, cur, job, calls, failures, books, dev, joined, commits, svc, box>>

\* mutant: the prompt being read is not selected again
BackToOther(s) == cur

\* eng.select(shown->slot)
BackTo(s) == s

BetweenEnd ==
  /\ pc = "between" /\ pc' = rd.next /\ cur' = BackTo(Reading)
  /\ UNCHANGED <<call, mid, rd, job, err, calls, failures, books, dev, joined, commits, svc, box>>

\* buf ^= 1
OtherBuffer(b) == 1 - b

Post ==
  /\ pc = "post" /\ pc' = "read"
  /\ job' = [slot |-> cur, buf |-> rd.buf, n |-> ChunkLen, pos0 |-> hist[1][cur] - ChunkLen]
  /\ rd' = [rd EXCEPT !.posted = TRUE, !.buf = OtherBuffer(@), !.i = @ + ChunkLen]
  /\ UNCHANGED <<call, mid, cur, err, calls, failures, books, dev, joined, commits, svc, box>>

\* the worker: the second stage's part and the head on the chunk's last token, as row 0
Work ==
  /\ job # None /\ commits[2] = {}
  /\ LET out == ThroughChunk(2, job.slot, job.n, hist[2][job.slot], pfXfer[job.buf]) IN
       /\ ChunkBooks(2, job.slot, job.n)
       /\ state' = [state EXCEPT ![2][job.slot] = Consumed(job.slot, @, out, 0, job.n)]
       /\ logits' = <<out[job.n]>>
  /\ job' = None
  /\ UNCHANGED <<pc, call, mid, cur, rd, err, calls, failures, gpu, inter, xfer, pfXfer, commits, svc, box>>

WorkFails ==
  /\ job # None /\ Fails /\ err' = TRUE /\ job' = None
  /\ UNCHANGED <<pc, call, mid, cur, rd, calls, books, dev, joined, commits, svc, box>>

\* fewer tokens left than a chunk is worth: every stage idle first
Drain ==
  /\ pc = "read" /\ Left \in 1..PrefillMin - 1
  /\ IF rd.posted
     THEN Waited(pc' = "between" /\ rd' = [rd EXCEPT !.posted = FALSE, !.next = "tail"])
     ELSE pc' = "tail" /\ UNCHANGED <<rd, err>>
  /\ UNCHANGED <<call, mid, cur, job, calls, failures, books, dev, joined, commits, svc, box>>

\* forward(tokens, T): a window that is committed as it runs
ReadTail ==
  /\ pc = "tail"
  /\ LET T == IF Left < MaxWindow THEN Left ELSE MaxWindow
     IN  call' = [wins |-> [g \in Stages |-> ChunkOf(cur, T, hist[1][cur])], lane |-> [g \in Stages |-> 0], piped |-> FALSE]
  /\ pc' = "prepare"
  /\ UNCHANGED <<mid, cur, rd, job, err, calls, failures, books, dev, joined, commits, svc, box>>

\* mutant: the first stage keeps the row count of the last window it ran
LastTUnsynced(g) == lastT[g]

\* the first token's logits are the last stage's last rows
LastTOf(g) == lastT[2]

ReadDone ==
  /\ pc = "read" /\ Left = 0
  /\ IF rd.posted THEN Waited(pc' = "first token" /\ UNCHANGED rd) ELSE pc' = "first token" /\ UNCHANGED <<rd, err>>
  /\ lastT' = IF pc' = "settle" THEN lastT ELSE [g \in Stages |-> LastTOf(g)]
  /\ UNCHANGED <<call, mid, cur, job, calls, failures, hist, pend, lastRow, lastLane, seq, par, dev, joined, commits, svc, box>>

\* Generator::start samples it from row last_T - 1; the request decodes from here on
FirstToken ==
  /\ pc = "first token" /\ pc' = "idle" /\ rd' = None
  /\ UNCHANGED <<call, mid, cur, job, err, calls, failures, books, dev, joined, commits, svc, box>>

\* mutant: the slot is cleared without waiting for the worker
Unsettled == TRUE

\* settle(): an error on this thread waits for the worker first
Settled == job = None

\* the failed read is thrown to admit(), which resets the slot on every stage
Settle ==
  /\ pc = "settle" /\ Settled
  /\ \A g \in Stages : commits[g] = {}
  /\ err' = FALSE /\ rd' = None /\ pc' = "idle" /\ cur' = Reading
  /\ hist'  = [g \in Stages |-> [hist[g] EXCEPT ![Reading] = 0]]
  /\ pend'  = [g \in Stages |-> [pend[g] EXCEPT ![Reading] = 0]]
  /\ state' = [g \in Stages |-> [state[g] EXCEPT ![Reading] = 0]]
  /\ joined' = [g \in Stages |-> TRUE]
  /\ UNCHANGED <<call, mid, job, calls, failures, lastRow, lastLane, lastT, seq, par, gpu, inter, xfer, pfXfer, logits, commits, svc, box>>

-----------------------------------------------------------------------------
(* A GPU runs its graph *)

\* The windows' parameters and rows are read; the first stage's are the tokens themselves.
GpuBegin(g) ==
  /\ gpu[g] # None /\ gpu[g].at = "begin"
  /\ joined[g] => commits[g] = {}
  /\ gpu[g].after => gpu[1] = None
  /\ LET in  == IF g = 1 THEN AllRows(par[g]) ELSE xfer[gpu[g].lane]
         out == Through(par[g], in, state[g])
     IN  /\ gpu'   = [gpu EXCEPT ![g].at = "plan", ![g].rows = out]
         /\ inter' = [inter EXCEPT ![g][gpu[g].lane] = out]
         /\ state' = [state EXCEPT ![g] = AfterCommitted(par[g], out, @)]
  /\ UNCHANGED <<host, books, xfer, pfXfer, logits, joined, commits, svc, box>>

\* moe_plan_k: the layer's request is posted, with or without missing experts
GpuPlan(g) ==
  /\ gpu[g] # None /\ gpu[g].at = "plan"
  /\ gpu' = [gpu EXCEPT ![g].at = "wait"]
  /\ box' = [box EXCEPT ![g][gpu[g].layer] = [@ EXCEPT !.req = gpu[g].seq, !.miss = gpu[g].layer \in Missing]]
  /\ UNCHANGED <<host, books, state, inter, xfer, pfXfer, logits, joined, commits, svc>>

\* moe_wait_k: on to the next layer once the request is answered
GpuWait(g) ==
  /\ gpu[g] # None /\ gpu[g].at = "wait"
  /\ gpu[g].layer \in Missing => box[g][gpu[g].layer].done = gpu[g].seq
  /\ gpu' = [gpu EXCEPT ![g].at = IF gpu[g].layer = Layers THEN "out" ELSE "plan", ![g].layer = IF @ = Layers THEN @ ELSE @ + 1]
  /\ UNCHANGED <<host, books, state, inter, xfer, pfXfer, logits, joined, commits, svc, box>>

\* The rows go to the next stage, or through the head.
GpuOut(g) ==
  /\ gpu[g] # None /\ gpu[g].at = "out"
  /\ IF g = 1 THEN xfer' = [xfer EXCEPT ![gpu[g].lane] = gpu[g].rows] /\ UNCHANGED logits
              ELSE logits' = gpu[g].rows /\ UNCHANGED xfer
  /\ gpu' = [gpu EXCEPT ![g] = None]
  /\ UNCHANGED <<host, books, state, inter, pfXfer, joined, commits, svc, box>>

-----------------------------------------------------------------------------
Forward == Prepare \/ Launch \/ ServiceEnd \/ End \/ Finish
Prefill == ReadChunk \/ ReadChunkFails \/ Wait \/ BetweenEnd \/ Post \/ Drain \/ ReadTail \/ ReadDone \/ FirstToken \/ Settle
Gpu(g)  == GpuBegin(g) \/ GpuPlan(g) \/ GpuWait(g) \/ GpuOut(g)

Next ==
  \/ Batch \/ PipeStep \/ PipeDrain \/ Read
  \/ Forward \/ Prefill
  \/ Work \/ WorkFails
  \/ \E g \in Stages : Service(g) \/ Gpu(g) \/ Commit(g)

\* Every thread and stream goes on while it can; between chunks the rounds end with their share of the time.
Fairness ==
  /\ WF_vars(Forward) /\ WF_vars(Prefill) /\ WF_vars(Work \/ WorkFails)
  /\ \A g \in Stages : WF_vars(Service(g)) /\ WF_vars(Gpu(g)) /\ WF_vars(Commit(g))

Spec == Init /\ [][Next]_vars /\ Fairness

-----------------------------------------------------------------------------
(* Properties *)

\* No stage's recurrent state of a slot ever consumes a token twice, out of order, of another slot or a draft that
\* turned out wrong (windows and prompt chunks through lanes, two transfer buffers, a worker and a commit stream);
\* and whenever the engine is idle and the commits are through, both stages' states are what their books say.
StatesRight ==
  /\ TypeOK
  /\ \A g \in Stages, s \in Slots : state[g][s] # Junk
  /\ pc = "idle" /\ (\A g \in Stages : commits[g] = {}) =>
       \A g \in Stages, s \in Slots : state[g][s] = hist[g][s] - pend[g][s]

\* When a round's requests are verified, the rows of the head hold the rows of their windows; when the first token
\* of a prompt is sampled, row last_T - 1 is the prompt's last token, whatever the other requests decoded between
\* the chunks.
LogitsRight ==
  /\ pc = "finish" => \A s \in On(call.wins[2]) : \A i \in WinRows(Win(2, s)) :
       i \in DOMAIN logits /\ logits[i] = RowAt(s, Win(2, s), i)
  /\ pc = "first token" => lastT[1] \in DOMAIN logits /\ logits[lastT[1]] = <<Reading, rd.total, TRUE>>

\* Every forward and every prompt read comes back: no stage's GPU waits for ever for an answer in its mailbox, and
\* no thread for a GPU, whichever stages are answered on which thread, and a chunk may fail on either stage.
EveryCallReturns == pc # "idle" ~> pc = "idle"

=============================================================================
