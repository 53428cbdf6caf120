------------------------------ MODULE VramCache ------------------------------
(***************************************************************************)
(* A GPU's memory (src/core/vmem.cpp, the sizing part of                   *)
(* src/core/expert_cache.cpp, Engine::rebalance_here): one budget from     *)
(* which the contexts and prompt buffers take what they need and the cache *)
(* of experts holds the rest.  The cache gives slots up when another       *)
(* buffer is short (shrink), takes free memory back after a prompt (grow), *)
(* and in between exchanges cold experts for hot ones (adapt).  Other      *)
(* programs allocate and free memory of the same GPU at any time; the      *)
(* budget learns of it when it asks the driver (sync).                     *)
(*                                                                         *)
(* Memory is counted in granules.  The device's slot map is written in     *)
(* stream order with the host's, and stands for both here.  Which experts  *)
(* are hot is one of a few orders, and changes.                            *)
(***************************************************************************)
EXTENDS Integers, Sequences, FiniteSets, SequencesExt

CONSTANTS
  NLayers, NExperts,
  SlotBytes, Granule,    \* bytes of an expert's slot per layer, and of a granule
  Heats,                 \* orders of heat: [1..NLayers \X 1..NExperts -> Nat], all different in each
  Total, Reserve,        \* granules of the GPU; those to keep free beyond the budget
  Slack,                 \* granules rebalance leaves (64 MiB)
  Cap,                   \* expert_cache_gib
  MaxSwaps,
  OtherPrograms,         \* granules other programs may hold
  DuringGrow,            \* whether they may allocate while the cache grows
  None

Layers  == 1..NLayers
Experts == 1..NExperts

ASSUME VramAssumption ==
  /\ NLayers \in Nat \ {0} /\ NExperts \in Nat \ {0} /\ None \notin Experts
  /\ SlotBytes \in [Layers -> Nat \ {0}] /\ Granule \in Nat \ {0}
  /\ \A h \in Heats : h \in [Layers \X Experts -> Nat] /\ IsInjective(h)
  /\ Total \in Nat /\ Reserve \in 0..Total /\ Slack \in Nat /\ Cap \in Nat /\ MaxSwaps \in Nat
  /\ OtherPrograms \subseteq Nat /\ DuringGrow \in BOOLEAN

VARIABLES
  pc,                    \* idle, mapping (room was made for the context), growing, refused
  cache,                 \* slots: slot_expert_; slotOf: slot_of_, 0 for none; bytes: the expert whose bytes
                         \* a slot holds; mapped: granules per layer
  pending,               \* swaps whose copy is under way: layer, slot, incoming expert
  ctx, want,             \* granules of the other buffers; how many more are asked for
  used, limit,           \* VramBudget
  others,                \* granules other programs hold
  take,                  \* grow: the experts each layer has still to add
  heat

vars == <<pc, cache, pending, ctx, want, used, limit, others, take, heat>>

Sum(f) == FoldFunction(+, 0, f)

\* vmem_round: granules of n slots of layer l
Granules(l, n) == (n * SlotBytes[l] + Granule - 1) \div Granule

\* what the driver has free
Free(c, x) == Total - others - Sum(c.mapped) - x

NSlots(c, l) == Len(c.slots[l])

TypeOK ==
  /\ pc \in {"idle", "mapping", "growing", "refused"}
  /\ \A l \in Layers : /\ cache.slots[l] \in Seq(Experts) /\ NSlots(cache, l) <= NExperts
                       /\ cache.slotOf[l] \in [Experts -> 0..NExperts]
                       /\ cache.bytes[l] \in [Experts -> Experts \cup {None}]
                       /\ cache.mapped[l] \in Nat /\ NSlots(cache, l) * SlotBytes[l] <= cache.mapped[l] * Granule
  /\ \A p \in pending : p.l \in Layers /\ p.s \in 1..NSlots(cache, p.l) /\ cache.slotOf[p.l][p.in] = 0
  /\ ctx \in 0..Total /\ want \in 0..Total /\ used \in Nat /\ limit \in 0..Total /\ others \in OtherPrograms
  /\ take \in [Layers -> Seq(Experts)] /\ heat \in Heats

-----------------------------------------------------------------------------
(* Choosing experts *)

\* the elements of S, before(x, y) being a strict order of them
InOrder(S, before(_, _)) ==
  [i \in 1..Cardinality(S) |-> CHOOSE x \in S : Cardinality({y \in S : before(y, x)}) = i - 1]

\* the pairs of layer and expert, hottest first
Ranking == InOrder(Layers \X Experts, LAMBDA x, y : heat[x] > heat[y])

\* plan_slots: pairs in ranking order while they fit
PlanSlots(budget) ==
  FoldLeft(LAMBDA n, x : LET m == [n EXCEPT ![x[1]] = @ + 1]
                         IN  IF Sum([l \in Layers |-> Granules(l, m[l])]) > budget THEN n ELSE m,
           [l \in Layers |-> 0], Ranking)

Slotted(c, l) == Range(c.slots[l])

\* an expert of the layer that is not resident, nor on its way in, hottest first
Absent(c, l) == InOrder({e \in Experts : c.slotOf[l][e] = 0 /\ \A p \in pending : p.l # l \/ p.in # e},
                        LAMBDA d, e : heat[<<l, d>>] > heat[<<l, e>>])

\* granules that one more slot costs layer l beside the n it will have
Add(c, l, n) == Granules(l, n + 1) - Max({Granules(l, n), c.mapped[l]})

\* grow: the hottest absent expert of a layer where one more fits, again and again: n[l] are chosen, left
\* granules are left
GrowStep(c, x) ==
  LET size(l) == NSlots(c, l) + x.n[l]
      next(l) == heat[<<l, Absent(c, l)[x.n[l] + 1]>>]
      fits == {l \in Layers : x.n[l] < Len(Absent(c, l)) /\ Add(c, l, size(l)) <= x.left}
      best == CHOOSE l \in fits : \A k \in fits : next(k) <= next(l)
  IN  IF fits = {} THEN x ELSE [n |-> [x.n EXCEPT ![best] = @ + 1], left |-> x.left - Add(c, best, size(best))]

GrowPlan(c, avail) ==
  LET x == FoldLeft(LAMBDA y, i : GrowStep(c, y), [n |-> [l \in Layers |-> 0], left |-> avail],
                    [i \in 1..NLayers * NExperts |-> i])
  IN  [l \in Layers |-> SubSeq(Absent(c, l), 1, x.n[l])]

-----------------------------------------------------------------------------
(* Giving memory back *)

\* cache c with the swaps in flight finished (finish_pending, waiting for the copies)
Settled(c) ==
  [c EXCEPT !.slotOf = [l \in Layers |-> [e \in Experts |->
                          IF \E p \in pending : p.l = l /\ p.in = e
                          THEN (CHOOSE p \in pending : p.l = l /\ p.in = e).s ELSE @[l][e]]],
            !.bytes  = [l \in Layers |-> [s \in Experts |->
                          IF \E p \in pending : p.l = l /\ p.s = s
                          THEN (CHOOSE p \in pending : p.l = l /\ p.s = s).in ELSE @[l][s]]]]

\* every slot of the cache, coldest first
Coldest(c) ==
  InOrder({x \in Layers \X Experts : x[2] \in Slotted(c, x[1])}, LAMBDA x, y : heat[x] < heat[y])

\* the experts of layer l among the first k of order
CutFrom(order, l, k) == {order[i][2] : i \in {j \in 1..k : order[j][1] = l}}

\* granules freed when the first k of order go
Freed(c, order, k) ==
  Sum([l \in Layers |-> IF CutFrom(order, l, k) = {} THEN 0
                        ELSE c.mapped[l] - Granules(l, NSlots(c, l) - Cardinality(CutFrom(order, l, k)))])

\* The slots of a layer without the experts gone: kept ones past the new end move, in order, into the
\* slots that became free below it.
Compacted(slots, gone) ==
  LET n      == Len(slots) - Cardinality(gone)
      tail   == SelectSeq(SubSeq(slots, n + 1, Len(slots)), LAMBDA e : e \notin gone)
      hole(s) == Cardinality({q \in 1..s : slots[q] \in gone})
  IN  [s \in 1..n |-> IF slots[s] \in gone THEN tail[hole(s)] ELSE slots[s]]

\* where a slot's expert was
WasAt(slots, e) == CHOOSE s \in DOMAIN slots : slots[s] = e

\* mutant: the moved experts keep their old slot numbers
KeepSlotOf(c, slots) == [l \in Layers |-> [e \in Experts |-> IF e \in Range(slots[l]) THEN c.slotOf[l][e] ELSE 0]]

\* evicted experts have no slot; moved ones are found where they are now
NewSlotOf(c, slots) == [l \in Layers |-> [e \in Experts |-> IF e \in Range(slots[l]) THEN WasAt(slots[l], e) ELSE 0]]

\* mutant: one expert too few goes
CutShort(c, order, need) ==
  LET enough == {k \in 0..Len(order) : Freed(c, order, k) >= need} IN IF enough = {} THEN Len(order) ELSE Max({0, Min(enough) - 1})

\* how many of the coldest must go
CutFor(c, order, need) ==
  LET enough == {k \in 0..Len(order) : Freed(c, order, k) >= need} IN IF enough = {} THEN Len(order) ELSE Min(enough)

\* ExpertCache::shrink
Shrink(c0, need) ==
  LET c     == Settled(c0)
      order == Coldest(c)
      k     == CutFor(c, order, need)
      slots == [l \in Layers |-> IF CutFrom(order, l, k) = {} THEN c.slots[l] ELSE Compacted(c.slots[l], CutFrom(order, l, k))]
  IN  [slots  |-> slots,
       slotOf |-> NewSlotOf(c, slots),
       bytes  |-> [l \in Layers |-> [s \in Experts |->
                     IF s <= Len(slots[l]) THEN c.bytes[l][WasAt(c.slots[l], slots[l][s])] ELSE None]],
       mapped |-> [l \in Layers |-> Min({c.mapped[l], Granules(l, Len(slots[l]))})]]

\* make_room(n) with the cache c and u granules charged, the contexts at x: what becomes of the cache
LimitOf(c, u, x) == Max({0, u + Free(c, x) - Reserve})

Short(c, u, n) == Max({0, u + n - LimitOf(c, u, ctx)})

MakeRoom(c, n) == IF Short(c, used, n) = 0 THEN c ELSE Shrink(c, Short(c, used, n))

\* what shrinking from c to d refunds
Refund(c, d) == Sum(c.mapped) - Sum(d.mapped)

Roomy(c, u, n) == u + n <= LimitOf(c, u, ctx)

\* the swaps of a cache that was asked for memory are finished
StillPending(n) == IF Short(cache, used, n) = 0 THEN pending ELSE {}

-----------------------------------------------------------------------------
(* The engine's steps *)

InitCache(h) ==
  LET slots == [l \in Layers |-> SubSeq(SelectSeq(Ranking, LAMBDA x : x[1] = l), 1,
                                         PlanSlots(Min({Cap, Total - others - ctx - Reserve}))[l])]
      of    == [l \in Layers |-> [i \in DOMAIN slots[l] |-> slots[l][i][2]]]
  IN  [slots  |-> of,
       slotOf |-> [l \in Layers |-> [e \in Experts |-> IF e \in Range(of[l]) THEN WasAt(of[l], e) ELSE 0]],
       bytes  |-> [l \in Layers |-> [s \in Experts |-> IF s <= Len(of[l]) THEN of[l][s] ELSE None]],
       mapped |-> [l \in Layers |-> Granules(l, Len(of[l]))]]

\* load: the context's baseline, then the cache
Init ==
  /\ pc = "idle" /\ pending = {} /\ ctx = 1 /\ want = 0 /\ others = Min(OtherPrograms)
  /\ heat \in Heats
  /\ cache = InitCache(heat)
  /\ used = ctx + Sum(cache.mapped) /\ limit = Total - others - Reserve
  /\ take = [l \in Layers |-> <<>>]

\* ElasticBuf::ensure of a context or prompt buffer, up to make_room's answer
Ask(n) ==
  /\ pc = "idle" /\ n > 0 /\ ctx + n <= Total
  /\ want' = n
  /\ cache' = MakeRoom(cache, n) /\ pending' = StillPending(n)
  /\ used' = used - Refund(cache, cache')
  /\ limit' = LimitOf(cache', used', ctx)
  /\ pc' = IF used' + n <= limit' THEN "mapping" ELSE "refused"
  /\ UNCHANGED <<ctx, others, take, heat>>

Charge(u) == u + want

\* map_pieces.  Should the driver be out of memory by now, room is made once more.
Map ==
  /\ pc = "mapping"
  /\ LET again == Free(cache, ctx) < want
         c     == IF again THEN MakeRoom(cache, want) ELSE cache
         u     == used - Refund(cache, c)
     IN  /\ cache' = c
         /\ pending' = IF again THEN StillPending(want) ELSE pending
         /\ limit' = IF again THEN LimitOf(c, u, ctx) ELSE limit
         /\ IF again /\ ~Roomy(c, u, want)
            THEN pc' = "refused" /\ used' = u /\ UNCHANGED ctx
            ELSE pc' = "idle" /\ used' = Charge(u) /\ ctx' = ctx + want
  /\ UNCHANGED <<want, others, take, heat>>

\* The request fails, or a conversation is moved off the GPU.
Refused ==
  /\ pc = "refused" /\ pc' = "idle"
  /\ UNCHANGED <<cache, pending, ctx, want, used, limit, others, take, heat>>

\* shrink_to of a context or prompt buffer
GiveBack(n) ==
  /\ pc = "idle" /\ n \in 1..ctx-1
  /\ ctx' = ctx - n /\ used' = used - n
  /\ UNCHANGED <<pc, cache, pending, want, limit, others, take, heat>>

\* rebalance_here, up to the plan of grow: room beyond the slack and below the cap
Rebalance ==
  /\ pc = "idle"
  /\ LET c    == MakeRoom(cache, 0)
         u    == used - Refund(cache, c)
         free == Max({0, LimitOf(c, u, ctx) - u})
         room == Min({Max({0, free - Slack}), Max({0, Cap - Sum(c.mapped)})})
     IN  /\ limit' = LimitOf(c, u, ctx) /\ used' = u
         /\ IF room = 0
            THEN cache' = c /\ pending' = StillPending(0) /\ UNCHANGED <<pc, take>>
            ELSE /\ cache' = IF StillPending(0) = {} THEN c ELSE Settled(c)
                 /\ pending' = {} /\ pc' = "growing" /\ take' = GrowPlan(cache', room)
  /\ UNCHANGED <<ctx, want, others, heat>>

\* the slots of layer l with the experts es after the first n0, which hold their bytes
Added(c, l, n0, es) ==
  [c EXCEPT !.slots[l] = @ \o es,
            !.slotOf[l] = [e \in Experts |-> IF e \in Range(es) THEN n0 + WasAt(es, e) ELSE @[e]],
            !.bytes[l] = [s \in Experts |-> IF s - n0 \in DOMAIN es THEN es[s - n0] ELSE @[s]]]

\* One layer of grow: its buffer made longer, which makes room first, then the experts filled in.
GrowLayer ==
  /\ pc = "growing" /\ \E l \in Layers : take[l] # <<>>
  /\ LET l    == Min({k \in Layers : take[k] # <<>>})
         n0   == NSlots(cache, l)
         size == Granules(l, n0 + Len(take[l]))
         need == Max({0, size - cache.mapped[l]})
         c    == IF need = 0 THEN cache ELSE MakeRoom(cache, need)
         u    == used - Refund(cache, c)
     IN  IF need > 0 /\ ~Roomy(c, u, need)
         THEN /\ cache' = c /\ used' = u /\ limit' = LimitOf(c, u, ctx)
              /\ pc' = "refused" /\ take' = [k \in Layers |-> <<>>]
         ELSE /\ cache' = Added([c EXCEPT !.mapped[l] = Max({@, size})], l, n0, take[l])
              /\ used' = u + need
              /\ limit' = IF need = 0 THEN limit ELSE LimitOf(c, u, ctx)
              /\ take' = [take EXCEPT ![l] = <<>>]
              /\ UNCHANGED pc
  /\ UNCHANGED <<pending, ctx, want, others, heat>>

GrowEnd ==
  /\ pc = "growing" /\ \A l \in Layers : take[l] = <<>>
  /\ pc' = "idle"
  /\ UNCHANGED <<cache, pending, ctx, want, used, limit, others, take, heat>>

-----------------------------------------------------------------------------
(* The adaptive cache: ExpertCache::adapt *)

\* the leaving expert has no slot any more
Unmapped(m, out) == [m EXCEPT ![out] = 0]

\* plan_swaps: in layer l, the hottest absent expert for the coldest resident one
SwapOf(l) ==
  LET in  == Absent(cache, l)[1]
      out == CHOOSE e \in Slotted(cache, l) : \A d \in Slotted(cache, l) : heat[<<l, e>>] <= heat[<<l, d>>]
  IN  [l |-> l, s |-> WasAt(cache.slots[l], out), in |-> in, out |-> out]

Swappable == {l \in Layers : Absent(cache, l) # <<>> /\ cache.slots[l] # <<>> /\ heat[<<l, SwapOf(l).in>>] > heat[<<l, SwapOf(l).out>>]}

\* The swaps' copies start: at most MaxSwaps, at most one per layer, none while others are under way.
Adapt ==
  /\ pc = "idle" /\ pending = {}
  /\ \E ls \in SUBSET Swappable :
       /\ ls # {} /\ Cardinality(ls) <= MaxSwaps
       /\ pending' = {[l |-> l, s |-> SwapOf(l).s, in |-> SwapOf(l).in] : l \in ls}
       /\ cache' = [cache EXCEPT
            !.slots  = [l \in Layers |-> IF l \in ls THEN [@[l] EXCEPT ![SwapOf(l).s] = SwapOf(l).in] ELSE @[l]],
            !.slotOf = [l \in Layers |-> IF l \in ls THEN Unmapped(@[l], SwapOf(l).out) ELSE @[l]],
            !.bytes  = [l \in Layers |-> IF l \in ls THEN [@[l] EXCEPT ![SwapOf(l).s] = None] ELSE @[l]]]
  /\ UNCHANGED <<pc, ctx, want, used, limit, others, take, heat>>

\* finish_pending: the copies that have finished
FinishSwap(p) ==
  /\ pc = "idle" /\ p \in pending
  /\ pending' = pending \ {p}
  /\ cache' = [cache EXCEPT !.slotOf[p.l][p.in] = p.s, !.bytes[p.l][p.s] = p.in]
  /\ UNCHANGED <<pc, ctx, want, used, limit, others, take, heat>>

\* the routing changes
NewHeat(h) ==
  /\ pc = "idle" /\ heat' = h
  /\ UNCHANGED <<pc, cache, pending, ctx, want, used, limit, others, take>>

-----------------------------------------------------------------------------
\* Another program allocates or frees; the driver gives it only what is free.
Other(n) ==
  /\ n \in OtherPrograms /\ n # others
  /\ n + Sum(cache.mapped) + ctx <= Total
  /\ pc = "growing" => DuringGrow
  /\ others' = n
  /\ UNCHANGED <<pc, cache, pending, ctx, want, used, limit, take, heat>>

Next ==
  \/ \E n \in 1..Total : Ask(n) \/ GiveBack(n)
  \/ Map \/ Refused \/ Rebalance \/ GrowLayer \/ GrowEnd \/ Adapt
  \/ \E p \in pending : FinishSwap(p)
  \/ \E h \in Heats : NewHeat(h)
  \/ \E n \in OtherPrograms : Other(n)

Spec == Init /\ [][Next]_vars

-----------------------------------------------------------------------------
(* Properties *)

\* A slot and its expert name each other, and the slot holds that expert's bytes, or will once its swap's
\* copy is done; the kernels read base + slot * slot bytes for whatever slot_of says (expert_cache.h: "slots
\* the hit kernels address").
MapsAgree ==
  TypeOK /\ \A l \in Layers :
    /\ \A e \in Experts : LET s == cache.slotOf[l][e] IN
         s # 0 => s \in DOMAIN cache.slots[l] /\ cache.slots[l][s] = e /\ cache.bytes[l][s] = e
    /\ \A s \in DOMAIN cache.slots[l] :
         cache.slotOf[l][cache.slots[l][s]] = s \/ [l |-> l, s |-> s, in |-> cache.slots[l][s]] \in pending

\* The budget has charged exactly what is mapped, through every shrink, refusal and growth.
ChargedExactly == used = Sum(cache.mapped) + ctx

\* A context is refused only when the cache has given everything (VramBudget::make_room: "false when even
\* that is not enough").
RefusedWhenEmpty == pc = "refused" => \A l \in Layers : cache.slots[l] = <<>>

\* The budget's count is what is mapped, and it says no only when there is nothing left to give back.
BudgetHonest == ChargedExactly /\ RefusedWhenEmpty
=============================================================================
