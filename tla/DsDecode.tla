----------------------------- MODULE DsDecode -----------------------------
(* The decode windows of the DeepSeek engine (DsEngine of src/deepseek/ds_engine.cpp): forward_batch and *)
(* forward_pipe over the pipeline's stages, the commit of the accepted rows of a drafted window on a      *)
(* stream of its own, and the snapshots a conversation rewinds to.  A stage keeps per conversation the    *)
(* history, the ring of window latents, the compressed rows of groups of two positions and the open       *)
(* group's first row; a window's raw rows, its place in the batch (wins_) and its parameters on the       *)
(* device (d_par_) exist once per stage and are what a commit reads after the forward.  (Rows and places  *)
(* past the last batch's are left out: nothing may read them.)                                            *)
(*                                                                                                        *)
(* Abstractions: a latent is its position and its token; a token is the turn of the conversation that     *)
(* produced it, or Wrong for a draft the model does not confirm; one layer stands for all that keep a     *)
(* ring and one for the sources of compressed rows (ratio 2).                                             *)
EXTENDS Integers, Sequences, FiniteSets, FiniteSetsExt

CONSTANTS Slots,          \* conversation slots (seqs_), numbered
          Stages,         \* pipeline stages, 1 the first
          GroupStages,    \* stages that own a compressed-KV source of ratio 2
          W,              \* attention window
          MaxWindow,      \* kMaxWindow: rows of one forward
          MaxCtx,         \* per slot: bound on its history
          MaxDraft,       \* drafted tokens a window may carry
          MaxTurns,       \* per slot: bound on its turns, a reset or a rewinding starting one
          Prompts,        \* per slot: prompt lengths
          Resumable,      \* slots whose requests carry checkpoints
          MaxCheckpoints, \* kMaxCheckpoints
          MaxRewind,      \* how far back a rollback goes at most
          Piped,          \* forward_pipe is in use (BNK_PIPE_DECODE)
          LaneDraft       \* drafted tokens a window in a lane may carry

Wrong == 0
None == <<>>

Ring == W + MaxWindow   \* kDsRing

Lanes == {0, 1}
Ratio == 2

ASSUME ConstantsOK ==
  /\ Slots \subseteq Nat \ {0} /\ IsFiniteSet(Slots)
  /\ Stages = 1..Cardinality(Stages) /\ GroupStages \subseteq Stages
  /\ W \in Nat \ {0} /\ MaxDraft \in Nat /\ LaneDraft \in 0..MaxDraft /\ MaxWindow \in Nat \ 0..MaxDraft /\ MaxCheckpoints \in Nat \ {0}
  /\ Piped => Stages = {1, 2}

VARIABLES seqs,     \* per stage and slot: Seq
          wins,     \* per stage: wins_, the place of each conversation in the last forward's batch
          d_par,    \* per stage: pos0 of the window at each place of the batch
          raw,      \* per stage and lane: the window rows' raw projections
          commits,  \* per stage: commit graphs launched on st_commit_ and not run
          turn,     \* per slot: the turn its next tokens belong to
          right,    \* per slot: drafts of its window the model confirms
          mid       \* the lane and batch that went through the first stage only, or None

vars == <<seqs, wins, d_par, raw, commits, turn, right, mid>>

Places == 1..Cardinality(Slots)
GroupIds == 0..(Max({MaxCtx[q] : q \in Slots}) \div Ratio)

NewSeq == [history |-> <<>>, pending_T |-> 0, ring |-> [i \in 0..Ring-1 |-> None],
           groups |-> [j \in GroupIds |-> None], open |-> None, ckpts |-> <<>>,
           commit_graphs |-> {}, last_r0 |-> 0, last_lane |-> 0]

Init ==
  /\ seqs = [s \in Stages |-> [q \in Slots |-> NewSeq]]
  /\ wins = [s \in Stages |-> <<>>]
  /\ d_par = [s \in Stages |-> <<>>]
  /\ raw = [s \in Stages |-> [l \in Lanes |-> <<>>]]
  /\ commits = [s \in Stages |-> <<>>]
  /\ turn = [q \in Slots |-> 1]
  /\ right = [q \in Slots |-> 0]
  /\ mid = None

-----------------------------------------------------------------------------
(* What the kernels write *)

Row(p, tok) == <<p, tok>>
Span(pos0, n) == pos0..(pos0 + n - 1)

\* rope_kv_prep_k, ring_fill_k: the rows at pos0.. into the ring; of two with one place the later stays.
Written(ring, pos0, toks) ==
  [i \in 0..Ring-1 |->
     LET here == {p \in Span(pos0, Len(toks)) : p % Ring = i}
     IN  IF here = {} THEN ring[i] ELSE Row(Max(here), toks[Max(here) - pos0 + 1])]

\* compress_k: the groups the rows complete; a position before the window comes from the open group.
Compressed(groups, open, pos0, toks) ==
  [j \in GroupIds |->
     LET p == Ratio * j + 1
     IN  IF p \notin Span(pos0, Len(toks)) THEN groups[j]
         ELSE <<IF p - 1 < pos0 THEN open ELSE Row(p - 1, toks[p - pos0]), Row(p, toks[p - pos0 + 1])>>]

\* compress_commit_k: the last of the c rows kept opens a group, or the kept rows end one.
OpenAfter(open, pos0, c, last) == IF (pos0 + c) % Ratio = 0 THEN open ELSE last

-----------------------------------------------------------------------------
(* Forward *)

\* join_commit_here: what the stage's stream does next waits for the commits launched before.
Joined(s) == commits[s] = <<>>

Rounding == \E q \in Slots, s \in Stages : seqs[s][q].pending_T > 0
Idle == ~Rounding /\ mid = None

Base(s, q) == Len(seqs[s][q].history)

\* A batch gives each of its slots its window's length; rows and places follow the slots' order.
Batches == UNION {[B -> 1..(1 + MaxDraft)] : B \in SUBSET Slots \ {{}}}
Rows(batch) == SumFunction(batch)
FirstRow(batch, q) == SumFunction([p \in {x \in DOMAIN batch : x < q} |-> batch[p]])
Place(batch, q) == Cardinality({x \in DOMAIN batch : x <= q})

Tokens(q, T, ok) == [j \in 1..T |-> IF j <= ok + 1 THEN turn[q] ELSE Wrong]

\* fwd_prepare and the forward's kernels for one conversation of the batch.  A window of one token is
\* committed by the forward (commit_all), a drafted one waits for commit().
Advanced(s, q, batch, lane, ok) ==
  LET h == seqs[s][q]
      T == batch[q]
      pos0 == Base(s, q)
      toks == Tokens(q, T, ok)
  IN [h EXCEPT !.history = @ \o toks, !.pending_T = IF T = 1 THEN 0 ELSE T,
               !.last_r0 = FirstRow(batch, q), !.last_lane = lane,
               !.ring = Written(@, pos0, toks),
               !.groups = IF s \in GroupStages THEN Compressed(@, h.open, pos0, toks) ELSE @,
               !.open = IF s \in GroupStages /\ T = 1 THEN OpenAfter(@, pos0, 1, Row(pos0, toks[1])) ELSE @]

\* The batch on stage s: wins_ and d_par_ are its windows from here on.
StageForward(s, batch, lane, ok) ==
  [seq |-> [q \in Slots |-> IF q \in DOMAIN batch THEN Advanced(s, q, batch, lane, ok[q]) ELSE seqs[s][q]],
   win |-> [q \in DOMAIN batch |-> Place(batch, q)],
   par |-> [i \in 1..Cardinality(DOMAIN batch) |-> Base(s, CHOOSE q \in DOMAIN batch : Place(batch, q) = i)],
   raw |-> [raw[s] EXCEPT ![lane] = [r \in 0..Rows(batch)-1 |->
              LET q == CHOOSE x \in DOMAIN batch : r \in Span(FirstRow(batch, x), batch[x])
                  j == r - FirstRow(batch, q)
              IN  Row(Base(s, q) + j, Tokens(q, batch[q], ok[q])[j + 1])]]]

Unrun(s) == [seq |-> seqs[s], win |-> wins[s], par |-> d_par[s], raw |-> raw[s]]

\* The stages of S run their batches (a batch of no slots: the stage stays idle).
Forward(batchOf, laneOf, ok) ==
  LET after == [s \in Stages |-> IF DOMAIN batchOf[s] = {} THEN Unrun(s)
                                 ELSE StageForward(s, batchOf[s], laneOf[s], ok)]
  IN  /\ \A s \in Stages : DOMAIN batchOf[s] # {} => Joined(s)
      /\ seqs' = [s \in Stages |-> after[s].seq]
      /\ wins' = [s \in Stages |-> after[s].win]
      /\ d_par' = [s \in Stages |-> after[s].par]
      /\ raw' = [s \in Stages |-> after[s].raw]
      /\ UNCHANGED commits

\* A window's first token is the one the model sampled; how many drafts after it are right is open.
Confirmed(batch) == {ok \in [Slots -> 0..MaxDraft] :
                       \A q \in Slots : IF q \in DOMAIN batch THEN ok[q] < batch[q] ELSE ok[q] = right[q]}

\* fwd_prepare's limits: more rows than kMaxWindow and a context past its end throw.
Fits(batch) == Rows(batch) <= MaxWindow /\ \A q \in DOMAIN batch : Base(1, q) > 0 /\ Base(1, q) + batch[q] <= MaxCtx[q]

ForwardBatch ==
  /\ Idle
  /\ \E batch \in Batches :
       /\ Fits(batch)
       /\ \E ok \in Confirmed(batch) :
            /\ Forward([s \in Stages |-> batch], [s \in Stages |-> 0], ok)
            /\ right' = ok
  /\ UNCHANGED <<turn, mid>>

\* pipe_step: the batch of the other lane on the first stage while the one in the middle goes through the
\* second.  pipe_drain: the one in the middle goes through the second stage alone.
NoBatch == [q \in {} |-> 0]
MidBatch == IF mid = None THEN NoBatch ELSE mid[2]
MidLane == IF mid = None THEN 1 ELSE mid[1]
Waiting(q) == \A s \in Stages : seqs[s][q].pending_T > 0   \* through both stages, to be committed

PipeStep ==
  /\ Piped
  /\ \A q \in Slots : ~Waiting(q)
  /\ \E batch \in Batches :
       /\ DOMAIN batch \cap DOMAIN MidBatch = {}
       /\ \A q \in DOMAIN batch : batch[q] <= 1 + LaneDraft
       /\ Fits(batch)
       /\ \E ok \in Confirmed(batch) :
            /\ Forward(<<batch, MidBatch>>, <<1 - MidLane, MidLane>>, ok)
            /\ right' = ok
       /\ mid' = <<1 - MidLane, batch>>
  /\ UNCHANGED turn

PipeDrain ==
  /\ mid # None
  /\ \A q \in Slots : ~Waiting(q)
  /\ Forward(<<NoBatch, MidBatch>>, <<0, MidLane>>, right)
  /\ mid' = None
  /\ UNCHANGED <<turn, right>>

-----------------------------------------------------------------------------
(* Commit *)

\* enqueue_commit: the conversation's place in the batch of the stage's last forward, which a commit graph
\* captured for this lane, first row and count keeps for good.
Key(s, q, cnt) == <<seqs[s][q].last_lane, seqs[s][q].last_r0, cnt>>
Captured(s, q, cnt) == {g \in seqs[s][q].commit_graphs : g[1] = Key(s, q, cnt)}
CommitPlace(s, q, cnt) ==
  IF Captured(s, q, cnt) # {} THEN {g[2] : g \in Captured(s, q, cnt)}
  ELSE IF q \in DOMAIN wins[s] THEN {wins[s][q]} ELSE {}

\* commit_here on every stage: the drafts not confirmed leave the history, and the graph that keeps the
\* open group is launched on the commit stream.
Commit(q) ==
  LET cnt == right[q] + 1 IN
  /\ Waiting(q)
  /\ \A s \in GroupStages : CommitPlace(s, q, cnt) # {}
  /\ \E place \in [GroupStages -> Places] :
       /\ \A s \in GroupStages : place[s] \in CommitPlace(s, q, cnt)
       /\ seqs' = [s \in Stages |-> [seqs[s] EXCEPT
            ![q].history = SubSeq(@, 1, Len(@) - (seqs[s][q].pending_T - cnt)),
            ![q].pending_T = 0,
            ![q].commit_graphs = IF s \in GroupStages THEN @ \cup {<<Key(s, q, cnt), place[s]>>} ELSE @]]
       /\ commits' = [s \in Stages |-> IF s \in GroupStages
            THEN Append(commits[s], [slot |-> q, lane |-> seqs[s][q].last_lane, r0 |-> seqs[s][q].last_r0,
                                     cnt |-> cnt, wi |-> place[s]])
            ELSE commits[s]]
  /\ right' = [right EXCEPT ![q] = 0]
  /\ UNCHANGED <<wins, d_par, raw, turn, mid>>

\* The commit stream runs the next graph: compress_commit_k reads the window's position and rows now.
RunCommit(s) ==
  /\ commits[s] # <<>>
  /\ LET g == Head(commits[s]) IN
       seqs' = [seqs EXCEPT ![s][g.slot].open =
                  OpenAfter(@, d_par[s][g.wi], g.cnt, raw[s][g.lane][g.r0 + g.cnt - 1])]
  /\ commits' = [commits EXCEPT ![s] = Tail(@)]
  /\ UNCHANGED <<wins, d_par, raw, turn, right, mid>>

-----------------------------------------------------------------------------
(* Prompts, snapshots, rewinding *)

\* DsEngine::prefill of n tokens, as the decode state it leaves behind (prefill_group_here, pf_attn).
Prefill(q, n) ==
  /\ Idle /\ \A s \in Stages : Joined(s)
  /\ Base(1, q) + n <= MaxCtx[q]
  /\ seqs' = [s \in Stages |-> LET pos0 == Base(s, q)
                                   toks == Tokens(q, n, n - 1) IN
       [seqs[s] EXCEPT
          ![q].history = @ \o toks,
          ![q].ring = Written(@, pos0, toks),
          ![q].groups = IF s \in GroupStages THEN Compressed(@, seqs[s][q].open, pos0, toks) ELSE @,
          ![q].open = IF s \in GroupStages THEN OpenAfter(@, pos0, n, Row(pos0 + n - 1, toks[n])) ELSE @]]
  /\ UNCHANGED <<wins, d_par, raw, commits, turn, right, mid>>

\* The snapshots, least recently used first: a position kept already is only used again.
WithCkpt(ckpts, p, open) ==
  LET kept == SelectSeq(ckpts, LAMBDA k : k.pos # p)
      known == {k \in Range(ckpts) : k.pos = p}
  IN  IF known # {} THEN Append(kept, CHOOSE k \in known : TRUE)
      ELSE Append(IF Len(kept) = MaxCheckpoints THEN Tail(kept) ELSE kept, [pos |-> p, open |-> open])

Checkpoint(q) ==
  /\ Idle /\ q \in Resumable /\ \A s \in Stages : Joined(s)
  /\ Base(1, q) > 0
  /\ seqs' = [s \in Stages |-> [seqs[s] EXCEPT ![q].ckpts = WithCkpt(@, Base(s, q), seqs[s][q].open)]]
  /\ UNCHANGED <<wins, d_par, raw, commits, turn, right, mid>>

\* rollback_here: the latest snapshot at or before limit, whose open group comes back.
Snapshots(s, q, limit) == {k \in Range(seqs[s][q].ckpts) : k.pos <= limit /\ k.pos <= Base(s, q)}
Best(s, q, limit) == CHOOSE k \in Snapshots(s, q, limit) : \A o \in Snapshots(s, q, limit) : o.pos <= k.pos

\* mutant: the open group is not restored
RewoundBare(s, q, k) ==
  [seqs[s][q] EXCEPT !.history = SubSeq(@, 1, k.pos), !.pending_T = 0,
                     !.ckpts = Append(SelectSeq(@, LAMBDA o : o.pos < k.pos), k)]

Rewound(s, q, k) ==
  [seqs[s][q] EXCEPT !.open = k.open, !.history = SubSeq(@, 1, k.pos), !.pending_T = 0,
                     !.ckpts = Append(SelectSeq(@, LAMBDA o : o.pos < k.pos), k)]

Rollback(q, limit) ==
  /\ Idle /\ \A s \in Stages : Joined(s)
  /\ turn[q] < MaxTurns[q]
  /\ \A s \in Stages : Snapshots(s, q, limit) # {}
  /\ Base(1, q) - Best(1, q, limit).pos <= MaxRewind
  /\ seqs' = [s \in Stages |-> [seqs[s] EXCEPT ![q] = Rewound(s, q, Best(s, q, limit))]]
  /\ turn' = [turn EXCEPT ![q] = @ + 1]
  /\ UNCHANGED <<wins, d_par, raw, commits, right, mid>>

\* reset, before another conversation's prompt or after a failed forward: the ring and the graphs stay.
Reset(q) ==
  /\ mid = None /\ \A s \in Stages : Joined(s)
  /\ turn[q] < MaxTurns[q] /\ Base(1, q) > 0
  /\ seqs' = [s \in Stages |-> [seqs[s] EXCEPT ![q] =
                [@ EXCEPT !.history = <<>>, !.pending_T = 0, !.ckpts = <<>>, !.open = None]]]
  /\ turn' = [turn EXCEPT ![q] = @ + 1]
  /\ right' = [right EXCEPT ![q] = 0]
  /\ UNCHANGED <<wins, d_par, raw, commits, mid>>

Next ==
  \/ ForwardBatch \/ PipeStep \/ PipeDrain
  \/ \E q \in Slots :
       \/ Commit(q) \/ Checkpoint(q) \/ Reset(q)
       \/ \E n \in Prompts[q] : Prefill(q, n)
       \/ \E limit \in 1..MaxCtx[q] : Rollback(q, limit)
  \/ \E s \in Stages : RunCommit(s)

Spec == Init /\ [][Next]_vars

-----------------------------------------------------------------------------
(* Properties *)

Kept(s, q) == Base(s, q) - seqs[s][q].pending_T   \* positions that will stay whatever is confirmed
True(s, q, p) == Row(p, seqs[s][q].history[p + 1])

TypeOK ==
  /\ \A s \in Stages, q \in Slots :
       /\ seqs[s][q].pending_T \in 0..MaxWindow /\ Base(s, q) \in seqs[s][q].pending_T..MaxCtx[q]
       /\ Len(seqs[s][q].ckpts) <= MaxCheckpoints
       /\ seqs[s][q].last_r0 + Max({1, seqs[s][q].pending_T}) <= MaxWindow
  /\ \A s \in Stages : DOMAIN wins[s] \subseteq Slots /\ Len(commits[s]) <= Cardinality(Slots)
  /\ right \in [Slots -> 0..MaxDraft]

\* The window of every row a conversation may be asked for next is in the ring: the attention of the row
\* at position Kept or later looks back W - 1 positions, and no rejected draft, no later prompt and no
\* rewinding has left another position's latent there.  (rope_kv_prep_k, ring_fill_k, ds_attention)
WindowRowsRight ==
  \A s \in Stages, q \in Slots :
    \A p \in Max({0, Kept(s, q) - (W - 1)})..(Base(s, q) - 1) : seqs[s][q].ring[p % Ring] = True(s, q, p)

\* Every complete group of a conversation is compressed from its own two tokens, and once the commits have
\* run the open group holds the last token kept: a rejected draft, another conversation's window or a
\* snapshot of another turn never shows in it.  (compress_k, compress_commit_k, commit_here, rollback_here)
GroupsRight ==
  \A s \in GroupStages, q \in Slots :
    /\ \A j \in GroupIds : Ratio * j + 1 < Base(s, q) =>
         seqs[s][q].groups[j] = <<True(s, q, Ratio * j), True(s, q, Ratio * j + 1)>>
    /\ Kept(s, q) % Ratio = 1 /\ (\A i \in DOMAIN commits[s] : commits[s][i].slot # q) =>
         seqs[s][q].open = True(s, q, Kept(s, q) - 1)

\* What the attention and the compressor find of a conversation is of the tokens it kept.
StateRight == TypeOK /\ WindowRowsRight /\ GroupsRight

\* A window that waits for its commit can be committed on every stage, whatever count is confirmed: the
\* stage's last batch, or the graph captured before, leads to this window's own position.
\* (enqueue_commit throws "the slot was not in the last forward"; a captured graph keeps &d_par_[wi])
CommitFindsWindow ==
  \A q \in Slots : Waiting(q) =>
    \A s \in GroupStages : \A cnt \in 1..seqs[s][q].pending_T :
      /\ CommitPlace(s, q, cnt) # {}
      /\ \A wi \in CommitPlace(s, q, cnt) : wi \in DOMAIN d_par[s] /\ d_par[s][wi] = Kept(s, q)
=============================================================================
