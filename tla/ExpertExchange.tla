--------------------------- MODULE ExpertExchange ---------------------------
(***************************************************************************)
(* The adaptive expert exchange of the DeepSeek engine                     *)
(* (src/core/expert_cache.cpp, adapt_exchange and copier_main) with the *)
(* host store it trades with (src/cpu/expert_pool.cpp, ExpertStore).   *)
(*                                                                         *)
(* Placement is disjoint: a routed expert is either resident in a VRAM     *)
(* slot of its layer or owns a pinned host blob, from which the CPU pool   *)
(* computes it.  An exchange gives a slot to a hotter expert:              *)
(*   plan    take a spare blob, queue the leaving expert to the helper     *)
(*           thread, which writes its host copy from the model file;       *)
(*   start   publish that host copy, unmap the leaving expert, queue the   *)
(*           incoming one's copy (blob -> stage -> slot) on the copy       *)
(*           stream;                                                       *)
(*   finish  map the incoming expert, give its blob back as a spare.       *)
(* Three actors interleave: the engine thread (forwards, and between them  *)
(* the three loops of adapt_exchange), the helper thread, the copy stream. *)
(*                                                                         *)
(* Experts, slots, blobs and stages are global identities, LayerOf says    *)
(* which layer each belongs to.  The contents of memory is the expert      *)
(* whose matrices it holds, or Junk.  The host map and the device map are  *)
(* one variable: the device map is written on the compute stream ahead of  *)
(* every forward that follows.                                             *)
(***************************************************************************)
EXTENDS Naturals, Sequences, FiniteSets

CONSTANTS
  Layers, Experts, Slots, Blobs,
  LayerOf,       \* the layer of an expert, a slot or a blob
  Stages,        \* the staging buffers, swap_n_ of them
  MaxSwaps,      \* exchanges in flight at most (BNK_DS_ADAPT_SWAPS)
  Resident0,     \* [Slots -> Experts]: the experts ExpertCache::init fills the slots with
  Store0,        \* [Experts -> Blobs \cup {None}]: what ExpertStore::build copies
  None, Junk

ASSUME ConstantsAssumption ==
  /\ LayerOf \in [Experts \cup Slots \cup Blobs -> Layers]
  /\ None \notin Experts \cup Slots \cup Blobs \cup Stages
  /\ Junk \notin Experts
  /\ IsFiniteSet(Stages)
  /\ MaxSwaps \in Nat

\* init() gives every slot an expert of its layer, build() skips exactly those.
ASSUME PlacementAssumption ==
  /\ Resident0 \in [Slots -> Experts]
  /\ \A s \in Slots : LayerOf[Resident0[s]] = LayerOf[s]
  /\ \A s, t \in Slots : Resident0[s] = Resident0[t] => s = t
  /\ Store0 \in [Experts -> Blobs \cup {None}]
  /\ \A e \in Experts : Store0[e] = None <=> \E s \in Slots : Resident0[s] = e
  /\ \A e \in Experts : Store0[e] # None => LayerOf[Store0[e]] = LayerOf[e]
  /\ \A e, f \in Experts : Store0[e] # None /\ Store0[e] = Store0[f] => e = f

VARIABLES
  pc,            \* the engine thread: idle, in a forward, or in one of adapt_exchange's loops
  todo,          \* slots of the exchanges (first two loops), layers (third) not yet visited
  slot_of,       \* slot_of_host_ / slot_of_dev_
  slot_expert,   \* slot_expert_
  busy,          \* busy_: experts of an exchange in flight
  xs,            \* xs_: the exchanges in flight
  stage_free,    \* stage_free_
  index, free,   \* ExpertStore's index_ and free_
  hq,            \* hq_: exchanges waiting for the helper thread, by slot
  slotData, blobData, stageData

engine == <<pc, todo>>
cache  == <<slot_of, slot_expert, busy, stage_free>>
store  == <<index, free>>
memory == <<slotData, blobData, stageData>>
vars   == <<engine, cache, store, memory, xs, hq>>

Phase == {"idle", "forward", "finish", "start", "plan"}
Host  == {"queued", "copying", "done"}      \* done: Exchange::host_done
Gpu   == {"none", "queued", "staged", "done"}  \* not none: gpu_started; done: its event

Exchange ==
  [in : Experts, out : Experts, slot : Slots, blob : Blobs,
   stage : Stages \cup {None}, host : Host, gpu : Gpu]

Contents == Experts \cup {Junk}

TypeOK ==
  /\ pc \in Phase
  /\ todo \in SUBSET (Slots \cup Layers)
  /\ slot_of \in [Experts -> Slots \cup {None}]
  /\ slot_expert \in [Slots -> Experts]
  /\ busy \in SUBSET Experts
  /\ xs \in SUBSET Exchange
  /\ stage_free \in SUBSET Stages
  /\ index \in [Experts -> Blobs \cup {None}]
  /\ free \in SUBSET Blobs
  /\ hq \in Seq(Slots)
  /\ slotData \in [Slots -> Contents]
  /\ blobData \in [Blobs -> Contents]
  /\ stageData \in [Stages -> Contents]

Init ==
  /\ pc = "idle" /\ todo = {}
  /\ slot_expert = Resident0
  /\ slot_of = [e \in Experts |->
                  IF \E s \in Slots : Resident0[s] = e
                  THEN CHOOSE s \in Slots : Resident0[s] = e ELSE None]
  /\ busy = {} /\ xs = {} /\ stage_free = Stages /\ hq = <<>>
  /\ index = Store0
  /\ free = {b \in Blobs : \A e \in Experts : Store0[e] # b}
  /\ slotData = Resident0
  /\ blobData = [b \in Blobs |->
                   IF \E e \in Experts : Store0[e] = b
                   THEN CHOOSE e \in Experts : Store0[e] = b ELSE Junk]
  /\ stageData = [s \in Stages |-> Junk]

-----------------------------------------------------------------------------
(* The engine thread *)

\* wait_exchanges: the forward's kernels start once every copy queued so far is done.
BeginForward ==
  /\ pc = "idle"
  /\ \A x \in xs : x.gpu \in {"none", "done"}
  /\ pc' = "forward"
  /\ UNCHANGED <<todo, cache, store, memory, xs, hq>>

\* fwd_end: the stream is synchronized; the exchange runs every adapt_every_ rows.
EndForward ==
  /\ pc = "forward"
  /\ \/ pc' = "idle" /\ UNCHANGED todo
     \/ pc' = "finish" /\ todo' = {x.slot : x \in xs}
  /\ UNCHANGED <<cache, store, memory, xs, hq>>

\* mutant: the blob number is read after it is cleared
ReleaseCleared(e) ==
  /\ index' = [index EXCEPT ![e] = None]
  /\ free' = free \cup {index'[e]}

\* ExpertStore::release
Release(e) ==
  /\ index' = [index EXCEPT ![e] = None]
  /\ free' = free \cup ({index[e]} \ {None})

\* mutant: the stage is not given back
LeakStage(x) == UNCHANGED stage_free

\* mutant: the leaving expert's mark stays
ClearOne(x) == busy' = busy \ {x.in}

ClearBusy(x) == busy' = busy \ {x.in, x.out}
GiveStage(x) == stage_free' = stage_free \cup {x.stage}

\* Loop 1: the copy is done, the incoming expert is mapped and its blob is a spare again.
Finish(x) ==
  /\ pc = "finish" /\ x.slot \in todo
  /\ x.gpu = "done"
  /\ todo' = todo \ {x.slot}
  /\ slot_of' = [slot_of EXCEPT ![x.in] = x.slot]
  /\ Release(x.in)
  /\ ClearBusy(x)
  /\ GiveStage(x)
  /\ xs' = xs \ {x}
  /\ UNCHANGED <<pc, slot_expert, memory, hq>>

NotFinished(x) ==
  /\ pc = "finish" /\ x.slot \in todo
  /\ x.gpu # "done"
  /\ todo' = todo \ {x.slot}
  /\ UNCHANGED <<pc, cache, store, memory, xs, hq>>

EndFinish ==
  /\ pc = "finish" /\ todo = {}
  /\ pc' = "start" /\ todo' = {x.slot : x \in xs}
  /\ UNCHANGED <<cache, store, memory, xs, hq>>

\* mutant: the host copy's completion is not awaited
StartableEarly(x) == x.gpu = "none" /\ stage_free # {}

Startable(x) == x.gpu = "none" /\ x.host = "done" /\ stage_free # {}

\* mutant: the host copy is not published
UnmapOnly(x) ==
  /\ slot_of' = [slot_of EXCEPT ![x.out] = None]
  /\ UNCHANGED store

\* ExpertStore::assign, then the unmap: "from here the CPU pool can serve it".
ServeFromHost(x) ==
  /\ index' = [index EXCEPT ![x.out] = x.blob]
  /\ slot_of' = [slot_of EXCEPT ![x.out] = None]
  /\ UNCHANGED free

\* Loop 2: the leaving expert has its host copy; it is served from there and its slot is refilled.
Start(x) ==
  /\ pc = "start" /\ x.slot \in todo
  /\ Startable(x)
  /\ \E st \in stage_free :
       /\ stage_free' = stage_free \ {st}
       /\ xs' = (xs \ {x}) \cup {[x EXCEPT !.gpu = "queued", !.stage = st]}
  /\ todo' = todo \ {x.slot}
  /\ ServeFromHost(x)
  /\ slot_expert' = [slot_expert EXCEPT ![x.slot] = x.in]
  /\ UNCHANGED <<pc, busy, memory, hq>>

NotStarted(x) ==
  /\ pc = "start" /\ x.slot \in todo
  /\ ~Startable(x)
  /\ todo' = todo \ {x.slot}
  /\ UNCHANGED <<pc, cache, store, memory, xs, hq>>

EndStart ==
  /\ pc = "start" /\ todo = {}
  /\ pc' = "plan" /\ todo' = Layers
  /\ UNCHANGED <<cache, store, memory, xs, hq>>

\* plan_swaps: one candidate a layer, of experts no exchange has; which pair is the routing's choice.
Candidate(l, e, s) ==
  /\ LayerOf[e] = l /\ LayerOf[s] = l
  /\ slot_of[e] = None /\ e \notin busy
  /\ slot_expert[s] \notin busy

\* ExpertStore::take_blob
TakeBlob(l, b) == LayerOf[b] = l /\ free' = free \ {b}

Room == Cardinality(xs) < MaxSwaps /\ Cardinality(xs) < Cardinality(Stages)

\* Loop 3: a candidate with a spare blob for its leaving expert becomes an exchange.
Plan(l) ==
  /\ pc = "plan" /\ l \in todo
  /\ Room
  /\ \E e \in Experts, s \in Slots, b \in free :
       /\ Candidate(l, e, s)
       /\ TakeBlob(l, b)
       /\ xs' = xs \cup {[in |-> e, out |-> slot_expert[s], slot |-> s, blob |-> b,
                          stage |-> None, host |-> "queued", gpu |-> "none"]}
       /\ busy' = busy \cup {e, slot_expert[s]}
       /\ hq' = Append(hq, s)
  /\ todo' = todo \ {l}
  /\ UNCHANGED <<pc, slot_of, slot_expert, stage_free, index, memory>>

\* No gain worth a swap, no candidate, no spare blob, or the bound on exchanges in flight.
PassOver(l) ==
  /\ pc = "plan" /\ l \in todo
  /\ todo' = todo \ {l}
  /\ UNCHANGED <<pc, cache, store, memory, xs, hq>>

EndPlan ==
  /\ pc = "plan" /\ todo = {}
  /\ pc' = "idle"
  /\ UNCHANGED <<todo, cache, store, memory, xs, hq>>

-----------------------------------------------------------------------------
(* The helper thread: copier_main, one exchange at a time in queue order *)

CopierTake(x) ==
  /\ hq # <<>> /\ x.slot = Head(hq) /\ x.host = "queued"
  /\ \A y \in xs : y.host # "copying"
  /\ hq' = Tail(hq)
  /\ xs' = (xs \ {x}) \cup {[x EXCEPT !.host = "copying"]}
  /\ blobData' = [blobData EXCEPT ![x.blob] = Junk]
  /\ UNCHANGED <<engine, cache, store, slotData, stageData>>

CopierDone(x) ==
  /\ x.host = "copying"
  /\ xs' = (xs \ {x}) \cup {[x EXCEPT !.host = "done"]}
  /\ blobData' = [blobData EXCEPT ![x.blob] = x.out]
  /\ UNCHANGED <<engine, cache, store, hq, slotData, stageData>>

-----------------------------------------------------------------------------
(* The copy stream: the DMA of the incoming expert's blob to the stage while *)
(* the slot's old contents is dead, then the repack of the stage to the slot *)

Load(x) ==
  /\ x.gpu = "queued"
  /\ xs' = (xs \ {x}) \cup {[x EXCEPT !.gpu = "staged"]}
  /\ stageData' = [stageData EXCEPT ![x.stage] = blobData[index[x.in]]]
  /\ slotData' = [slotData EXCEPT ![x.slot] = Junk]
  /\ UNCHANGED <<engine, cache, store, hq, blobData>>

Repack(x) ==
  /\ x.gpu = "staged"
  /\ xs' = (xs \ {x}) \cup {[x EXCEPT !.gpu = "done"]}
  /\ slotData' = [slotData EXCEPT ![x.slot] = stageData[x.stage]]
  /\ UNCHANGED <<engine, cache, store, hq, blobData, stageData>>

-----------------------------------------------------------------------------
EngineStep ==
  \/ BeginForward \/ EndForward \/ EndFinish \/ EndStart \/ EndPlan
  \/ \E x \in xs : Finish(x) \/ NotFinished(x) \/ Start(x) \/ NotStarted(x)
  \/ \E l \in Layers : Plan(l) \/ PassOver(l)

CopierStep == \E x \in xs : CopierTake(x) \/ CopierDone(x)
StreamStep == \E x \in xs : Load(x) \/ Repack(x)

Next == EngineStep \/ CopierStep \/ StreamStep

Spec == Init /\ [][Next]_vars

\* Decoding goes on (forwards keep coming and every so often one is followed by the exchange),
\* the helper thread and the copy stream run.
Fairness ==
  /\ WF_vars(EngineStep) /\ SF_vars(EndForward /\ pc' = "finish")
  /\ WF_vars(CopierStep) /\ WF_vars(StreamStep)

FairSpec == Spec /\ Fairness

-----------------------------------------------------------------------------
(* Properties *)

Involved == UNION {{x.in, x.out} : x \in xs}
Started(x) == x.gpu # "none"

\* "Every expert is resident or in the store at every moment" (expert_cache.h): and, the placement being
\* disjoint, never both once the engine thread lets go.  A violation is the runtime_error "expert without
\* a host copy routed to the CPU" of the next forward, or a blob of pinned memory lost for good.
ExactlyOnePlace == \A e \in Experts : (slot_of[e] = None) # (index[e] = None)

\* Whatever a forward may address holds the expert it is looked up for, complete: a mapped slot is not
\* under refill and a published host blob is not the one the helper thread is writing.
RightBytes ==
  /\ \A e \in Experts : slot_of[e] # None => slotData[slot_of[e]] = e
  /\ \A e \in Experts : index[e] # None => blobData[index[e]] = e

\* The incoming expert keeps its host blob until its slot is mapped, and the copy stream moves its bytes
\* and no other's (ExpertStore::take_blob cannot hand that blob out while the DMA reads it).
CopyIntact ==
  \A x \in xs :
    /\ index[x.in] # None
    /\ x.gpu = "staged" => stageData[x.stage] = x.in
    /\ x.gpu = "done" => slotData[x.slot] = x.in

\* Every host blob has exactly one owner: the free list, an expert, or the exchange writing it.
BlobOwners ==
  \A b \in Blobs :
    LET experts   == {e \in Experts : index[e] = b}
        exchanges == {x \in xs : ~Started(x) /\ x.blob = b}
    IN  Cardinality(experts) + Cardinality(exchanges) + (IF b \in free THEN 1 ELSE 0) = 1

\* A slot belongs to the expert mapped to it or to the exchange refilling it ...
SlotHeld ==
  \A s \in Slots : \/ slot_of[slot_expert[s]] = s
                   \/ \E x \in xs : x.slot = s /\ x.in = slot_expert[s] /\ Started(x)

\* ... and two exchanges never share a slot, an expert or a stage.
SlotOwners ==
  /\ SlotHeld
  /\ \A x, y \in xs : x # y => /\ x.slot # y.slot
                               /\ {x.in, x.out} \cap {y.in, y.out} = {}
                               /\ x.stage = y.stage => x.stage = None

\* busy_ marks the experts of the exchanges in flight and no other: a mark left behind would keep an
\* expert out of every later plan.
BusyExact == busy = Involved

\* An exchange whose host copy is written always finds a staging buffer: adapt_exchange's test of
\* stage_free_ never holds one back, which is what lets the bound on xs_ stand for a bound on stages.
StageForEvery == \A x \in xs : ~Started(x) => stage_free # {}

\* The helper thread's queue points at exchanges that are still in flight and wait for it, each once.
QueueLive ==
  /\ \A i \in DOMAIN hq : \E x \in xs : x.slot = hq[i] /\ x.host = "queued"
  /\ \A i, j \in DOMAIN hq : hq[i] = hq[j] => i = j

\* Whatever a forward or a copy of the exchange reads is the expert it is read for, complete.
BytesRight == RightBytes /\ CopyIntact

\* What the exchanges take they give back, and nothing else is taken: a blob lost is pinned memory lost for
\* good, a slot or stage shared is refilled twice, a mark left behind keeps an expert out of every later plan,
\* a queue entry left behind is written into a blob that serves another expert.
Bookkeeping == BlobOwners /\ SlotOwners /\ BusyExact /\ StageForEvery /\ QueueLive

\* Every exchange that is planned completes: its slot is mapped again.
ExchangeCompletes ==
  \A s \in Slots : (\E x \in xs : x.slot = s) ~> ~(\E x \in xs : x.slot = s)
=============================================================================
