---------------------------- MODULE PromptWaves ----------------------------
(* The routed experts of a prompt group on the DeepSeek engine (pf_prefetch and pf_moe of                *)
(* src/deepseek/ds_prefill.cpp).  Experts without a VRAM slot cross PCIe into two staging buffers: the    *)
(* host queues each wave's copies on the copy stream and the kernels that read them on the main stream,   *)
(* ordered by two events a buffer (copied, used), and queues the next layer's first waves, guessed, while *)
(* this layer's kernels still run.  What the waves do not take the CPU computes from rows copied out to   *)
(* the host.  The tables the kernels read are host memory the host rewrites at every layer.               *)
(*                                                                                                        *)
(* Abstractions: Experts are a layer's experts without a slot (the others are read in the cache, which    *)
(* no exchange changes during a group); a blob is its layer and expert; the token counts and the cost     *)
(* model become any order and any split; the copies of a wave are one operation.                           *)
(* A wait for an event is the number of operations of the other stream that have to be done first.        *)
EXTENDS Integers, Sequences, FiniteSets, SequencesExt

CONSTANTS NLayers,    \* layers l0_..lend-1, numbered from 1
          Experts,
          Cap,        \* blobs a staging buffer holds
          MaxWaves,   \* kPfWaves - 1
          Rank,       \* pf_rank_ of the first layer
          Guesses,    \* what a layer's router guesses of the next one, most-used first
          RankBufs,   \* BNK_DS_PF_PREFETCH
          GuessBufs,  \* BNK_DS_PF_GUESS
          MaxLeft,    \* bound: copies nobody waits for that a group may leave on the copy stream
          Junk

ASSUME ConstantsOK ==
  /\ NLayers \in Nat \ {0} /\ Cap \in Nat \ {0} /\ MaxWaves \in Nat
  /\ MaxLeft \in Nat /\ RankBufs \in 0..2 /\ GuessBufs \in 0..2
  /\ \A list \in Guesses \cup {Rank} : list \in Seq(Experts) /\ IsInjective(list)

VARIABLES pc,      \* the host: between groups, before a layer's experts, before their CPU part, at the group's end
          il,
          toggle,  \* the buffer the next wave takes
          pre,     \* pre_layer, pre_list with pre_bufs and pre_pos as places
          onCpu,   \* this layer's experts left to the CPU
          copyQ, mainQ,   \* operations queued on p.copy and on st_
          stage,   \* the staging buffers
          hTab, dTab,     \* h_items, h_inv on the host and their copies on the device
          hX, hCpu,       \* h_x: the layer of the rows on the host; h_cpu: what the CPU computed
          dd,      \* per expert: what its rows of the GPU's outputs were computed from
          moe      \* the last gather: per expert used, the contributions summed

vars == <<pc, il, toggle, pre, onCpu, copyQ, mainQ, stage, hTab, dTab, hX, hCpu, dd, moe>>

Bufs == {0, 1}
Layers == 1..NLayers
Places == Bufs \X (1..Cap)
Blob(l, e) == <<l, e>>

NoPre == [layer |-> 0, list |-> <<>>, at |-> <<>>]
NoTab == [at |-> <<>>, zero |-> {}]
NoCpu == [layer |-> 0, exps |-> {}]

Init ==
  /\ pc = "start" /\ il = 1 /\ toggle = 0 /\ pre = NoPre /\ onCpu = {}
  /\ copyQ = <<>> /\ mainQ = <<>>
  /\ stage = [p \in Places |-> Junk]
  /\ hTab = NoTab /\ dTab = NoTab
  /\ hX = 0 /\ hCpu = NoCpu
  /\ dd = [e \in Experts |-> Junk]
  /\ moe = [layer |-> 0, sum |-> <<>>]

-----------------------------------------------------------------------------
(* Queueing *)

\* cudaStreamWaitEvent: everything up to the last operation queued on q that records the buffer's event.
After(q, b) == LET at == {i \in 1..Len(q) : q[i].buf = b} IN IF at = {} THEN 0 ELSE Max(at)

\* The lists cut in waves of Cap, from the buffer t on in turn.
Waves(list, t) ==
  [w \in 1..((Len(list) + Cap - 1) \div Cap) |->
     [buf |-> (t + w - 1) % 2, list |-> SubSeq(list, (w - 1) * Cap + 1, IF w * Cap < Len(list) THEN w * Cap ELSE Len(list))]]

Toggled(t, n) == (t + n) % 2

\* The place each expert of a list of waves is copied to.
PlacesOf(waves) ==
  [e \in UNION {ToSet(waves[w].list) : w \in DOMAIN waves} |->
     LET w == CHOOSE x \in DOMAIN waves : e \in ToSet(waves[x].list)
     IN  <<waves[w].buf, CHOOSE i \in 1..Len(waves[w].list) : waves[w].list[i] = e>>]

\* A wave's copies: behind the last kernel queued that reads its buffer.
CopyOp(l, wave, main) ==
  [buf |-> wave.buf, layer |-> l, list |-> wave.list, wait |-> After(main, wave.buf)]

\* moe_tc_gu, moe_tc_down over the experts of one set: behind the last copy queued into their buffer.
GemmOp(l, b, exps, copies) == [op |-> "gemm", layer |-> l, buf |-> b, exps |-> exps, wait |-> After(copies, b)]
Plain(name, l, exps) == [op |-> name, layer |-> l, buf |-> -1, exps |-> exps, wait |-> 0]

\* mutant: a prefetch that does not wait for the kernels that still read the buffer
CopyUnordered(l, wave, main) ==
  [buf |-> wave.buf, layer |-> l, list |-> wave.list, wait |-> 0]

\* pf_prefetch's copies.
PrefetchOp(l, wave, main) == CopyOp(l, wave, main)

\* pf_prefetch: the first blobs of a list into up to nbuf buffers.
Prefetched(l, list, nbuf, t, copies, main) ==
  LET n == IF Len(list) < nbuf * Cap THEN Len(list) ELSE nbuf * Cap
      waves == Waves(SubSeq(list, 1, n), t)
  IN  [pre    |-> IF n = 0 THEN NoPre ELSE [layer |-> l, list |-> SubSeq(list, 1, n), at |-> PlacesOf(waves)],
       toggle |-> Toggled(t, Len(waves)),
       copies |-> copies \o [w \in 1..Len(waves) |-> PrefetchOp(l, waves[w], main)]]

\* The start of prefill_group_here: for a long group, the first layer's first waves by rank.
StartGroup ==
  /\ pc = "start"
  /\ \E list \in {<<>>, Rank} :
       LET f == Prefetched(1, list, RankBufs, toggle, copyQ, mainQ)
       IN  pre' = f.pre /\ toggle' = f.toggle /\ copyQ' = f.copies
  /\ il' = 1 /\ pc' = "layer"
  /\ UNCHANGED <<onCpu, mainQ, stage, hTab, dTab, hX, hCpu, dd, moe>>

\* The kernels on the prefetched blobs that are used, a set for each buffer; a set without one is skipped.
FixedOps(l, taken, used, copies) ==
  LET of(b) == {e \in used \cap DOMAIN taken.at : taken.at[e][1] = b}
      front == taken.at[taken.list[1]][1]
      order == IF taken = NoPre THEN <<>> ELSE <<front, 1 - front>>
  IN  [i \in 1..Len(SelectSeq(order, LAMBDA b : of(b) # {})) |->
         LET b == SelectSeq(order, LAMBDA x : of(x) # {})[i] IN GemmOp(l, b, of(b), copies)]

\* Each wave's copies and then its kernels, on the two streams.
WaveOps(l, waves, q) ==
  FoldLeft(LAMBDA acc, w :
             LET copies == Append(acc.copies, CopyOp(l, w, acc.main))
             IN  [copies |-> copies, main |-> Append(acc.main, GemmOp(l, w.buf, ToSet(w.list), copies))],
           q, waves)

\* The experts left by their token counts, which may be any.
Orders(S) == SetToSeqs(S)

\* The next layer's experts the guess names and the cost model would stream; none past the last layer.
Guessed == IF il < NLayers THEN Guesses ELSE {<<>>}

\* The blobs prefetched for this layer, whether it uses them or not.
Taken == IF pre.layer = il THEN pre ELSE NoPre

\* pf_moe, from its routing (for which it waits for the stream) to the last of what it queues.
MoeLayer ==
  /\ pc = "layer"
  /\ mainQ = <<>>
  /\ \E used \in SUBSET Experts :
     \E nr \in Orders(used \ DOMAIN Taken.at) :
     \E n_pcie \in 0..(IF Len(nr) < Cap * MaxWaves THEN Len(nr) ELSE Cap * MaxWaves) :
     \E guess \in Guessed :
       LET cpu   == ToSet(SubSeq(nr, n_pcie + 1, Len(nr)))
           waves == Waves(SubSeq(nr, 1, n_pcie), toggle)
           first == <<Plain("tables", il, {})>> \o (IF cpu = {} THEN <<>> ELSE <<Plain("rows", il, cpu)>>)
                       \o FixedOps(il, Taken, used, copyQ)
           q     == WaveOps(il, waves, [copies |-> copyQ, main |-> first])
           f     == Prefetched(il + 1, guess, GuessBufs, Toggled(toggle, Len(waves)), q.copies, q.main)
           places == PlacesOf(waves) @@ Taken.at
       IN  /\ hTab' = [at |-> [e \in used \ cpu |-> places[e]], zero |-> cpu]
           /\ onCpu' = cpu
           /\ pre' = f.pre /\ toggle' = f.toggle /\ copyQ' = f.copies
           /\ mainQ' = IF cpu = {} THEN Append(q.main, Plain("gather", il, used)) ELSE q.main
  /\ pc' = CASE onCpu' # {} -> "cpu" [] onCpu' = {} /\ il < NLayers -> "layer" [] OTHER -> "end"
  /\ il' = IF onCpu' = {} /\ il < NLayers THEN il + 1 ELSE il
  /\ UNCHANGED <<stage, dTab, hX, hCpu, dd, moe>>

\* cudaEventSynchronize(xready)
RowsReady == \A i \in 1..Len(mainQ) : mainQ[i].op # "rows"

\* pf_moe's CPU part, and the gather of both parts.
CpuPart ==
  /\ pc = "cpu"
  /\ RowsReady
  /\ hCpu' = [layer |-> hX, exps |-> onCpu]
  /\ mainQ' = Append(mainQ, Plain("gather both", il, DOMAIN hTab.at \cup onCpu))
  /\ pc' = IF il < NLayers THEN "layer" ELSE "end"
  /\ il' = IF il < NLayers THEN il + 1 ELSE il
  /\ onCpu' = onCpu
  /\ UNCHANGED <<toggle, pre, copyQ, stage, hTab, dTab, hX, dd, moe>>

\* The end of prefill_group_here waits for the stream.
EndGroup ==
  /\ pc = "end"
  /\ mainQ = <<>> /\ Len(copyQ) <= MaxLeft
  /\ pc' = "start"
  /\ UNCHANGED <<il, toggle, pre, onCpu, copyQ, mainQ, stage, hTab, dTab, hX, hCpu, dd, moe>>

-----------------------------------------------------------------------------
(* The streams *)

\* An operation is done: the other stream's waits get shorter.
Shorter(q) == [i \in 1..Len(q) |-> [q[i] EXCEPT !.wait = IF @ > 0 THEN @ - 1 ELSE 0]]

\* The copies of one wave.
Copy ==
  /\ copyQ # <<>> /\ Head(copyQ).wait = 0
  /\ copyQ' = Tail(copyQ)
  /\ mainQ' = Shorter(mainQ)
  /\ stage' = [p \in Places |-> LET wave == Head(copyQ)
                              IN  IF p[1] = wave.buf /\ p[2] <= Len(wave.list) THEN Blob(wave.layer, wave.list[p[2]]) ELSE stage[p]]
  /\ UNCHANGED <<pc, il, toggle, pre, onCpu, hTab, dTab, hX, hCpu, dd, moe>>

\* The next operation of the main stream may run.
Main(name) ==
  /\ mainQ # <<>> /\ Head(mainQ).op = name /\ Head(mainQ).wait = 0
  /\ mainQ' = Tail(mainQ)
  /\ copyQ' = Shorter(copyQ)

\* ds_copy_from_host: the kernels read the tables of the host's memory at this moment.  The outputs are laid
\* out anew by them: what dd held belongs to other pairs.
ReadTables ==
  /\ Main("tables")
  /\ dTab' = hTab
  /\ dd' = [e \in Experts |-> Junk]
  /\ UNCHANGED <<pc, il, toggle, pre, onCpu, stage, hTab, hX, hCpu, moe>>

\* The CPU tokens' rows to h_x, and xready.
RowsOut ==
  /\ Main("rows")
  /\ hX' = Head(mainQ).layer
  /\ UNCHANGED <<pc, il, toggle, pre, onCpu, stage, hTab, dTab, hCpu, dd, moe>>

\* moe_tc_gu, moe_tc_down on one set.
Gemm ==
  /\ Main("gemm")
  /\ dd' = [e \in Experts |->
              IF e \notin Head(mainQ).exps THEN dd[e]
              ELSE IF e \in DOMAIN dTab.at THEN stage[dTab.at[e]] ELSE Junk]
  /\ UNCHANGED <<pc, il, toggle, pre, onCpu, stage, hTab, dTab, hX, hCpu, moe>>

\* ds_rows_from_host and moe_gather_sum: a CPU pair reads the zero row and finds its part among the CPU's rows.
Gathered(op, both) ==
  [layer |-> op.layer,
   sum |-> [e \in op.exps |-> (IF e \in dTab.zero THEN <<>> ELSE <<dd[e]>>)
                             \o (IF both /\ e \in hCpu.exps THEN <<Blob(hCpu.layer, e)>> ELSE <<>>)]]

Gather ==
  /\ Main("gather") \/ Main("gather both")
  /\ moe' = Gathered(Head(mainQ), Head(mainQ).op = "gather both")
  /\ UNCHANGED <<pc, il, toggle, pre, onCpu, stage, hTab, dTab, hX, hCpu, dd>>

Next == \/ StartGroup \/ MoeLayer \/ CpuPart \/ EndGroup
        \/ Copy \/ ReadTables \/ RowsOut \/ Gemm \/ Gather

Spec == Init /\ [][Next]_vars

-----------------------------------------------------------------------------
(* Properties *)

\* Every variable has its type: a staging place holds a blob, no place is
\* prefetched twice, and the streams hold operations of the two buffers (the state of pf_).
TypeOK ==
  /\ pc \in {"start", "layer", "cpu", "end"} /\ il \in Layers /\ toggle \in Bufs
  /\ pre.layer \in 0..NLayers /\ IsInjective(pre.list) /\ DOMAIN pre.at = ToSet(pre.list) /\ IsInjective(pre.at)
  /\ \A e \in DOMAIN pre.at : pre.at[e] \in Places
  /\ onCpu \subseteq Experts
  /\ \A i \in 1..Len(copyQ) : /\ copyQ[i].buf \in Bufs /\ copyQ[i].layer \in Layers /\ copyQ[i].wait \in 0..Len(mainQ)
                              /\ Len(copyQ[i].list) \in 1..Cap
  /\ \A i \in 1..Len(mainQ) : /\ mainQ[i].op \in {"tables", "rows", "gemm", "gather", "gather both"}
                              /\ mainQ[i].exps \subseteq Experts /\ mainQ[i].wait \in 0..Len(copyQ)
  /\ stage \in [Places -> {Blob(l, e) : l \in Layers, e \in Experts} \cup {Junk}]
  /\ \A t \in {hTab, dTab} : t.zero \subseteq Experts /\ \A e \in DOMAIN t.at : t.at[e] \in Places
  /\ hX \in 0..NLayers /\ hCpu.layer \in 0..NLayers /\ hCpu.exps \subseteq Experts
  /\ dd \in [Experts -> {Blob(l, e) : l \in Layers, e \in Experts} \cup {Junk}]

\* Each expert a layer's tokens use adds its part to the layer's sum exactly once, from its own blob, on the
\* GPU or on the CPU: whatever copies were still under way, guessed wrong or left over, and although the host
\* is by then past the layer (pf_moe's two buffers, its events and its mapped tables).
SumsRight == TypeOK /\ \A e \in DOMAIN moe.sum : moe.sum[e] = <<Blob(moe.layer, e)>>
=============================================================================
