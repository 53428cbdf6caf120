----------------------------- MODULE TensorPair -----------------------------
(***************************************************************************)
(* The dense engine on two GPUs in tensor parallel (src/dense): each rank  *)
(* holds half of every layer, computes a partial sum after the attention   *)
(* or DeltaNet (point 0) and after the FFN (point 1) of each layer, and    *)
(* adds the peer's.  Rank 0's host thread enqueues the work of both on     *)
(* CUDA streams, eagerly or as one graph over both devices, and waits only *)
(* at the end of a forward.  Streams run on their own; events order them.  *)
(*                                                                         *)
(* A forward's work is named by its number f and by how many of its        *)
(* exchanges k are done: layer il exchanges at k = 2 il and 2 il + 1.      *)
(* A partial pushed into the peer's inbox (peer access) and one copied out *)
(* to pinned memory and fetched are alike here: one buffer per sender,     *)
(* point and parity, written by the sender's stream and read by the peer's.*)
(***************************************************************************)
EXTENDS Integers, Sequences, SequencesExt

CONSTANTS
  NLayer,                \* c.n_layer
  MaxForwards,           \* bound: forwards and prompt chunks
  Junk

ASSUME TensorPairAssumption == NLayer \in Nat \ {0} /\ MaxForwards \in Nat /\ Junk \notin Int

Ranks  == {0, 1}
Layers == 0..NLayer - 1
Points == 0..2 * NLayer - 1      \* the exchanges of a forward, in order

Peer(r)  == 1 - r
Main(r)  == <<r, "st">>          \* st_
Side(r)  == <<r, "commit">>      \* st_commit_
Branch   == <<1, "graph">>       \* the peer's part of a graph launched on rank 0's stream
Streams  == {Main(r) : r \in Ranks} \cup {Side(r) : r \in Ranks} \cup {Branch}

\* tp_fork_, tp_join_, ev_out_, ev_verified_, ev_committed_, tp_ev_, tp_pfev_
Events == {<<"fork">>, <<"join">>, <<"out">>} \cup ({"verified", "committed"} \X Ranks) \cup ({"fp32", "fp16"} \X Ranks \X Points)

VARIABLES
  graphs,                \* opt.use_graphs
  host,                  \* what the host thread waits for: nothing, or a forward or chunk
  n, pending,            \* forwards so far; the last is a verify window yet to be committed (pending_T)
  inflight,              \* per rank: commit_inflight_
  queue,                 \* per stream: what is enqueued, in order
  recorded, fired,       \* per event: records enqueued; records executed
  res, part,             \* per rank: the residual, <<f, k>>; the partial sum of the block or FFN
  sent,                  \* per kind, sender and buffer: the partial it holds
  logits,                \* the head's input
  saved, state           \* per rank and layer: the forward whose window the commit would replay; the forwards applied

hostVars == <<graphs, host, n, pending, inflight>>
vars == <<hostVars, queue, recorded, fired, res, part, sent, logits, saved, state>>

Value == (Nat \X Nat) \cup {<<Junk, 0>>}
Lost  == <<Junk, 0>>

\* the buffer of (point, layer parity)
Buffer(k) == <<k % 2, (k \div 2) % 2>>

TypeOK ==
  /\ graphs \in BOOLEAN /\ host \in {"idle", "waits"} /\ n \in 0..MaxForwards /\ pending \in BOOLEAN
  /\ inflight \in [Ranks -> BOOLEAN]
  /\ DOMAIN queue = Streams /\ (queue[Branch] # <<>> => graphs)
  /\ recorded \in [Events -> Nat] /\ fired \in [Events -> Nat] /\ \A e \in Events : fired[e] <= recorded[e]
  /\ res \in [Ranks -> Value] /\ part \in [Ranks -> Value] /\ logits \in Value
  /\ sent \in [{"fp32", "fp16"} \X Ranks \X {<<p, q>> : p, q \in {0, 1}} -> Value]
  /\ saved \in [Ranks \X Layers -> Nat] /\ state \in [Ranks \X Layers -> Nat \cup {Junk}]

Init ==
  /\ graphs \in BOOLEAN
  /\ host = "idle" /\ n = 0 /\ pending = FALSE /\ inflight = [r \in Ranks |-> FALSE]
  /\ queue = [s \in Streams |-> <<>>]
  /\ recorded = [e \in Events |-> 0] /\ fired = recorded
  /\ res = [r \in Ranks |-> <<0, 0>>] /\ part = res /\ logits = <<0, 0>>
  /\ sent = [b \in {"fp32", "fp16"} \X Ranks \X {<<p, q>> : p, q \in {0, 1}} |-> <<0, 0>>]
  /\ saved = [x \in Ranks \X Layers |-> 0] /\ state = saved

-----------------------------------------------------------------------------
(* CUDA: external, as the code uses it *)

\* A call enqueues an operation on a stream.  A wait is for the event's record made last before it.
Call(s, op)  == [on |-> s, op |-> op]
Record(s, e) == Call(s, [do |-> "record", ev |-> e])
Wait(s, e)   == Call(s, [do |-> "wait", ev |-> e])

OneCall(acc, c) ==
  LET op == IF c.op.do = "wait" THEN [do |-> "wait", ev |-> c.op.ev, nth |-> acc.rec[c.op.ev]] ELSE c.op
  IN  [q   |-> [acc.q EXCEPT ![c.on] = Append(@, op)],
       rec |-> IF c.op.do = "record" THEN [acc.rec EXCEPT ![c.op.ev] = @ + 1] ELSE acc.rec]

Enqueue(calls) ==
  LET end == FoldLeft(OneCall, [q |-> queue, rec |-> recorded], calls)
  IN  queue' = end.q /\ recorded' = end.rec

Concat(seqs) == FoldLeft(\o, <<>>, seqs)

-----------------------------------------------------------------------------
(* What the host enqueues *)

Op(r, do, f, k, verify) == [do |-> do, r |-> r, f |-> f, k |-> k, verify |-> verify]
Of(kind, r, do, f, k)   == [do |-> do, r |-> r, f |-> f, k |-> k, kind |-> kind]

\* mutant of join_commit_here: the flag is cleared and nothing waits
JoinNothing(r) == <<>>

\* join_commit_here
JoinCommit(r) == IF inflight[r] THEN <<Wait(Main(r), <<"committed", r>>)>> ELSE <<>>

Send(s, r, kind, f, k) == <<Call(s, Of(kind, r, "send", f, k)), Record(s, <<kind, r, k>>)>>
Recv(s, r, kind, f, k) == <<Wait(s, <<kind, Peer(r), k>>), Call(s, Of(kind, r, "recv", f, k))>>

\* mutant of an exchange: each rank receives right after it has sent
OnePhase(on, kind, f, k, verify) ==
  Concat([i \in 1..2 |-> <<Call(on[i - 1], Op(i - 1, "block", f, k, verify))>> \o Send(on[i - 1], i - 1, kind, f, k)
                           \o Recv(on[i - 1], i - 1, kind, f, k)])

\* a phase of a layer on both ranks, then the exchange: both send before either receives
Exchange(on, kind, f, k, verify) ==
  Concat([i \in 1..2 |-> <<Call(on[i - 1], Op(i - 1, "block", f, k, verify))>> \o Send(on[i - 1], i - 1, kind, f, k)])
    \o Concat([i \in 1..2 |-> Recv(on[i - 1], i - 1, kind, f, k)])

\* the streams of a forward's work: a graph's part on the peer is none of the peer's stream
On == [r \in Ranks |-> IF r = 1 /\ graphs THEN Branch ELSE Main(r)]

Layered(on, kind, f, verify) ==
  Concat([r \in 1..2 |-> <<Call(on[r - 1], Op(r - 1, "in", f, 0, FALSE))>>])
    \o Concat([k \in 1..2 * NLayer |-> Exchange(on, kind, f, k - 1, verify)])
    \o <<Call(on[0], Op(0, "head", f, 2 * NLayer, FALSE))>>

\* tp_enqueue_forward between tp_fork_ and tp_join_, captured or eager
ForwardCalls(f, verify) ==
  <<Record(Main(0), <<"fork">>), Wait(On[1], <<"fork">>)>>
    \o Layered(On, "fp32", f, verify)
    \o <<Record(On[1], <<"join">>), Wait(Main(0), <<"join">>)>>

\* fwd_prepare on the peer and on rank 0, fwd_launch on rank 0 and on the peer
Forward(verify) ==
  /\ host = "idle" /\ ~pending /\ n < MaxForwards
  /\ Enqueue(JoinCommit(1) \o JoinCommit(0) \o ForwardCalls(n + 1, verify)
             \o <<Record(Main(0), <<"out">>), Wait(Main(1), <<"out">>)>>)
  /\ host' = "waits" /\ n' = n + 1 /\ pending' = verify /\ inflight' = [r \in Ranks |-> FALSE]
  /\ UNCHANGED <<graphs, fired, res, part, sent, logits, saved, state>>

\* tp_prefill_chunk
Chunk ==
  /\ host = "idle" /\ ~pending /\ n < MaxForwards
  /\ Enqueue(JoinCommit(0) \o JoinCommit(1) \o Layered([r \in Ranks |-> Main(r)], "fp16", n + 1, FALSE))
  /\ host' = "waits" /\ n' = n + 1 /\ inflight' = [r \in Ranks |-> FALSE]
  /\ UNCHANGED <<graphs, pending, fired, res, part, sent, logits, saved, state>>

\* cudaStreamSynchronize on both ranks' streams
Synchronized ==
  /\ host = "waits" /\ \A r \in Ranks : queue[Main(r)] = <<>>
  /\ host' = "idle"
  /\ UNCHANGED <<graphs, n, pending, inflight, queue, recorded, fired, res, part, sent, logits, saved, state>>

CommitCalls(r) ==
  IF graphs
  THEN <<Record(Main(r), <<"verified", r>>), Wait(Side(r), <<"verified", r>>), Call(Side(r), Op(r, "commit", n, 0, FALSE)),
         Record(Side(r), <<"committed", r>>)>>
  ELSE <<Call(Main(r), Op(r, "commit", n, 0, FALSE))>>

Commit ==
  /\ host = "idle" /\ pending
  /\ Enqueue(CommitCalls(0) \o CommitCalls(1))
  /\ pending' = FALSE /\ inflight' = [r \in Ranks |-> graphs]
  /\ UNCHANGED <<graphs, host, n, fired, res, part, sent, logits, saved, state>>

-----------------------------------------------------------------------------
(* What the streams execute *)

AtHead(s, do) == queue[s] # <<>> /\ Head(queue[s]).do = do
Pop(s) == queue' = [queue EXCEPT ![s] = Tail(@)]

Fire(s) ==
  /\ AtHead(s, "record") /\ Pop(s)
  /\ fired' = [fired EXCEPT ![Head(queue[s]).ev] = @ + 1]
  /\ UNCHANGED <<hostVars, recorded, res, part, sent, logits, saved, state>>

Pass(s) ==
  /\ AtHead(s, "wait") /\ fired[Head(queue[s]).ev] >= Head(queue[s]).nth /\ Pop(s)
  /\ UNCHANGED <<hostVars, recorded, fired, res, part, sent, logits, saved, state>>

\* the embeddings of the window or the chunk
In(s) ==
  /\ AtHead(s, "in") /\ Pop(s)
  /\ LET o == Head(queue[s]) IN res' = [res EXCEPT ![o.r] = <<o.f, 0>>]
  /\ UNCHANGED <<hostVars, recorded, fired, part, sent, logits, saved, state>>

\* layer_block (even k): the recurrent state as the forwards before left it, and, unless the window is to be
\* verified, advanced by this one; layer_ffn (odd k).
Block(s) ==
  /\ AtHead(s, "block") /\ Pop(s)
  /\ LET o  == Head(queue[s])
         il == o.k \div 2
         ok == state[o.r, il] = o.f - 1
     IN  /\ part' = [part EXCEPT ![o.r] = IF res[o.r] = <<o.f, o.k>> THEN <<o.f, o.k>> ELSE Lost]
         /\ IF o.k % 2 = 1 THEN UNCHANGED <<saved, state>>
            ELSE /\ saved' = [saved EXCEPT ![o.r, il] = o.f]
                 /\ state' = [state EXCEPT ![o.r, il] = IF ~ok THEN Junk ELSE IF o.verify THEN @ ELSE o.f]
  /\ UNCHANGED <<hostVars, recorded, fired, res, sent, logits>>

\* tp_send, tp_pf_send
Copy(s) ==
  /\ AtHead(s, "send") /\ Pop(s)
  /\ LET o == Head(queue[s]) IN sent' = [sent EXCEPT ![o.kind, o.r, Buffer(o.k)] = part[o.r]]
  /\ UNCHANGED <<hostVars, recorded, fired, res, part, logits, saved, state>>

\* tp_recv, tp_pf_recv, and the add in the next norm's pass
Add(s) ==
  /\ AtHead(s, "recv") /\ Pop(s)
  /\ LET o == Head(queue[s]) IN
       res' = [res EXCEPT ![o.r] = IF part[o.r] = <<o.f, o.k>> /\ sent[o.kind, Peer(o.r), Buffer(o.k)] = <<o.f, o.k>>
                                   THEN <<o.f, o.k + 1>> ELSE Lost]
  /\ UNCHANGED <<hostVars, recorded, fired, part, sent, logits, saved, state>>

HeadRows(s) ==
  /\ AtHead(s, "head") /\ Pop(s)
  /\ logits' = res[0]
  /\ UNCHANGED <<hostVars, recorded, fired, res, part, sent, saved, state>>

\* enqueue_commit: the window's kept rows are replayed on the state it began with
Replay(s) ==
  /\ AtHead(s, "commit") /\ Pop(s)
  /\ LET o == Head(queue[s]) IN
       state' = [x \in Ranks \X Layers |-> IF x[1] # o.r THEN state[x]
                                           ELSE IF saved[x] = o.f /\ state[x] = o.f - 1 THEN o.f ELSE Junk]
  /\ UNCHANGED <<hostVars, recorded, fired, res, part, sent, logits, saved>>

Execute(s) ==
  Fire(s) \/ Pass(s) \/ In(s) \/ Block(s) \/ Copy(s) \/ Add(s) \/ HeadRows(s) \/ Replay(s)

Next ==
  \/ \E verify \in BOOLEAN : Forward(verify)
  \/ Chunk \/ Synchronized \/ Commit
  \/ \E s \in Streams : Execute(s)

Spec == Init /\ [][Next]_vars

-----------------------------------------------------------------------------
(* Properties *)

\* When the host goes on, both ranks hold the same complete residual: every exchange added the peer's partial sum
\* of the same layer and forward, none overwritten before it was read, none of an earlier one.
RanksAgree ==
  /\ TypeOK
  /\ host = "idle" /\ n > 0 => \A r \in Ranks : res[r] = <<n, 2 * NLayer>> /\ logits = res[r]

\* No forward reads or advances a recurrent state before the commit of the window before it has been replayed on
\* it, and no commit replays a window that has been overwritten: without graphs, and on rank 0 with them.
StatesInOrder == \A r \in Ranks, il \in Layers : r = 0 \/ ~graphs => state[r, il] # Junk

\* The same of every rank.
PeersCommitFirst == \A r \in Ranks, il \in Layers : state[r, il] # Junk
=============================================================================
