--------------------------- MODULE RoutedExperts ---------------------------
(* The experts of one layer for a window of rows (src/kernels/moe.cu, called by Engine::moe): the plan turns the
   routed pairs (row, choice) into entries of experts with a slot and misses for the CPU; the entries are computed
   where their slot lies, in the hot region or a cold band; and a row's parts are added up.

   What a row adds up are <<place, weight, <<expert, row, scaled, lanes>> >>, added in the order of their places: a
   floating-point sum depends on it, and a product on the lanes its terms are dealt to.  Memory that a launch does not
   write keeps what an earlier one left there, Old. *)
EXTENDS Integers, Sequences, FiniteSets, FiniteSetsExt

CONSTANTS
  Experts,          \* 0..n_expert-1
  Used,             \* n_expert_used: experts per row
  WindowRows,       \* kMaxWindow
  Pass,             \* 4: rows whose products a pass of row_dots keeps
  Bands,            \* the cold bands: a sequence of sets of experts
  RowLanes             \* lpr_for(E / 32): lanes per row of the gate and up products

n_expert == Cardinality(Experts)
kMaxRegions == 4
kMaxRouted == WindowRows * Used

ASSUME RoutedExpertsAssumption ==
  /\ IsFiniteSet(Experts) /\ Experts = 0..n_expert - 1 /\ Used \in 1..n_expert /\ WindowRows \in 1..8 /\ Pass \in Nat \ {0}
  /\ Bands \in Seq(SUBSET Experts) /\ RowLanes \in {4, 8, 16, 32}
  /\ \A g, h \in DOMAIN Bands : g # h => Bands[g] \cap Bands[h] = {}

\* How many of S come before i: a prefix sum.
Rank(S, i) == Cardinality({k \in S : k < i})

Cold == UNION {Bands[g] : g \in DOMAIN Bands}
NoSlot == -1
Old == <<"old">>

\* Band g's slots start at n_expert * g; its experts are all resident, in order.
ColdSlot(e) ==
  LET g == CHOOSE h \in DOMAIN Bands : e \in Bands[h]
  IN n_expert * g + Rank(Bands[g], e)

\* slot_of, for hot experts with or without one
SlotMaps ==
  {[e \in Experts |-> IF e \in Cold THEN ColdSlot(e) ELSE hot[e]] :
     hot \in {f \in [Experts \ Cold -> {NoSlot} \cup 0..n_expert - 1] :
                \A e, d \in Experts \ Cold : e # d /\ f[e] # NoSlot => f[e] # f[d]}}

\* The hot slots, then each band's: what does not fit a launch is left out, and its entries to nobody.
regions ==
  [g \in 0..Min({Len(Bands), kMaxRegions - 1}) |-> [lo |-> n_expert * g, hi |-> n_expert * g + IF g = 0 THEN n_expert ELSE Cardinality(Bands[g])]]

Lost == UNION {Bands[g] : g \in {h \in DOMAIN Bands : h >= kMaxRegions}}

Routings == {ids \in [0..Used - 1 -> Experts] : \A i, j \in 0..Used - 1 : i # j => ids[i] # ids[j]}

\* What an earlier window left in the hit list.
OldHits ==
  [n |-> kMaxRouted, pair_ent |-> [j \in 0..kMaxRouted - 1 |-> 0],
   e |-> [i \in 0..kMaxRouted - 1 |-> [expert |-> 0, slot |-> 0, mask |-> 0..WindowRows - 1,
                                      w |-> [t \in 0..WindowRows - 1 |-> Old]]]]

-----------------------------------------------------------------------------
(* moe_plan_body: ids are the pairs' experts, pair t * Used + i being row t's i-th choice. *)

Weight(e, t) == <<e, t>>
HasSlot(ids, slot_of, j) == slot_of[ids[j]] # NoSlot
FirstHits(ids, slot_of) ==
  {j \in DOMAIN ids : HasSlot(ids, slot_of, j) /\ \A q \in 0..j - 1 : ids[q] # ids[j]}
EntryOf(ids, slot_of, j) ==
  Rank(FirstHits(ids, slot_of), CHOOSE q \in FirstHits(ids, slot_of) : ids[q] = ids[j])

moe_plan(ids, slot_of) ==
  LET hit == {j \in DOMAIN ids : HasSlot(ids, slot_of, j)}
      missed == DOMAIN ids \ hit
      n == Cardinality(FirstHits(ids, slot_of))
      OfEntry(ent) == {j \in hit : EntryOf(ids, slot_of, j) = ent}
      Row(j) == j \div Used
      Entry(ent) ==
        LET e == ids[CHOOSE j \in OfEntry(ent) : TRUE]
            mask == {Row(j) : j \in OfEntry(ent)}
        IN [expert |-> e, slot |-> slot_of[e], mask |-> mask,
            w |-> [t \in 0..WindowRows - 1 |-> IF t \in mask THEN Weight(e, t) ELSE OldHits.e[ent].w[t]]]
  IN [hits |-> [n |-> n,
                e |-> [ent \in 0..kMaxRouted - 1 |-> IF ent < n THEN Entry(ent) ELSE OldHits.e[ent]],
                pair_ent |-> [j \in 0..kMaxRouted - 1 |->
                                IF j \in hit THEN EntryOf(ids, slot_of, j)
                                ELSE IF j \in DOMAIN ids THEN NoSlot ELSE OldHits.pair_ent[j]]],
      miss |-> {[pos |-> Rank(missed, j), t |-> Row(j), e |-> ids[j]] : j \in missed}]

-----------------------------------------------------------------------------
(* The entries' parts. *)

\* pack_tokens: the entry's rows, the last repeated up to eight.
pack_tokens(mask) ==
  [i \in 0..7 |-> IF mask = {} THEN 0 ELSE CHOOSE t \in mask : Rank(mask, t) = Min({i, Cardinality(mask) - 1})]

region_of(slot) ==
  LET inside == {i \in DOMAIN regions : slot >= regions[i].lo /\ slot < regions[i].hi}
  IN IF inside = {} THEN NoSlot ELSE Min(inside)

\* moe_act_k: the scale of an NVFP4 expert, unless its blocks carry it.
scaled(hits, ent) == hits.e[ent].slot < n_expert

\* The lanes of a window of T rows; exact is BNK_EXACT.
lanes(T, exact) == IF exact \/ T # 1 THEN Min({8, RowLanes}) ELSE RowLanes

\* gu_r_body, moe_act_k, down_r_body: part[ent][t] is written from the blob in the entry's slot, a few rows a pass.
part(hits, slot_of, ent, t, lpr) ==
  LET mask == hits.e[ent].mask
      n == Cardinality(mask)
      packed == pack_tokens(mask)
      computed == UNION {{packed[p0 + i] : i \in 0..Min({Pass, n - p0}) - 1} : p0 \in {p \in 0..n - 1 : p % Pass = 0}}
  IN IF region_of(hits.e[ent].slot) # NoSlot /\ t \in computed
     THEN <<CHOOSE e \in Experts : slot_of[e] = hits.e[ent].slot, t, scaled(hits, ent), lpr>> ELSE Old

-----------------------------------------------------------------------------
(* moe_reduce_k: a row adds its entries in the order of its choices, then the CPU's sum of its misses, in pair order. *)

OnCpu == 0

EntriesThenMisses(plan, slot_of, t, lpr, ents) ==
  LET own == {m \in plan.miss : m.t = t}
  IN {<<Rank(DOMAIN ents, q), plan.hits.e[ents[q]].w[t], part(plan.hits, slot_of, ents[q], t, lpr)>> : q \in DOMAIN ents}
       \cup {<<Cardinality(DOMAIN ents) + Rank({o.pos : o \in own}, m.pos), Weight(m.e, t), <<m.e, t, TRUE, OnCpu>> >> : m \in own}

\* mutant: in the order of the hit list
InListOrder(plan, slot_of, t, lpr) ==
  EntriesThenMisses(plan, slot_of, t, lpr, [ent \in {i \in 0..plan.hits.n - 1 : t \in plan.hits.e[i].mask} |-> ent])

moe_reduce(plan, slot_of, t, lpr) ==
  EntriesThenMisses(plan, slot_of, t, lpr,
    [q \in {i \in 0..Used - 1 : plan.hits.pair_ent[t * Used + i] >= 0} |-> plan.hits.pair_ent[t * Used + q]])

Pairs(window) == [j \in 0..Len(window) * Used - 1 |-> window[j \div Used + 1][j % Used]]

\* What a row adds of its expert e: nothing of its own if no launch has the region of e's band.
Own(slot_of, e, t, lpr) ==
  IF slot_of[e] = NoSlot THEN <<e, t, TRUE, OnCpu>> ELSE IF e \in Lost THEN Old ELSE <<e, t, e \notin Cold, lpr>>

\* A row's sum: its experts with a slot in its own order, then the others.
RowSum(slot_of, ids, t, lpr) ==
  LET hits == {i \in 0..Used - 1 : slot_of[ids[i]] # NoSlot}
      misses == (0..Used - 1) \ hits
  IN {<<Rank(hits, i), Weight(ids[i], t), Own(slot_of, ids[i], t, lpr)>> : i \in hits}
       \cup {<<Cardinality(hits) + Rank(misses, i), Weight(ids[i], t), Own(slot_of, ids[i], t, lpr)>> : i \in misses}

RoutedWindows == UNION {[1..T -> Routings] : T \in 1..WindowRows}

\* Whatever else the window holds and whatever the last one left behind, every row adds each of its experts once, with
\* its own weight, from that expert's own blob (unless the expert's band has no region), in an order that depends on the
\* row alone.  With BNK_EXACT that is the sum it has in a window of its own; without, the one it has in any of several.
AddsUpAlone(window) ==
  \A slot_of \in SlotMaps, exact \in BOOLEAN :
    LET plan == moe_plan(Pairs(window), slot_of)
        like == IF exact THEN 1 ELSE Min({2, Len(window)})
    IN \A t \in 0..Len(window) - 1 :
         moe_reduce(plan, slot_of, t, lanes(Len(window), exact)) = RowSum(slot_of, window[t + 1], t, lanes(like, exact))

\* No row adds what an earlier launch left.  Not so with more bands than a launch has regions for.
AddsItsOwn(window) ==
  \A slot_of \in SlotMaps, t \in 0..Len(window) - 1 :
    \A added \in moe_reduce(moe_plan(Pairs(window), slot_of), slot_of, t, RowLanes) : added[3] # Old
=============================================================================
