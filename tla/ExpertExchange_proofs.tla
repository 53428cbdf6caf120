------------------------ MODULE ExpertExchange_proofs ------------------------
(***************************************************************************)
(* Safety of the adaptive exchange for every number of layers, experts,    *)
(* slots, blobs, stages and exchanges in flight.                           *)
(*                                                                         *)
(* None of the properties is inductive alone: that a mapped slot holds its *)
(* expert needs that no exchange in flight refills it, which needs that    *)
(* two exchanges never share an expert, which needs the busy marks, and so *)
(* on around.  IInv states what an exchange owns in each of its phases.    *)
(***************************************************************************)
EXTENDS ExpertExchange, FiniteSetTheorems, SequenceTheorems, TLAPS

\* A mapped expert is the one its slot is recorded to hold.
MapAgrees == \A e \in Experts : slot_of[e] # None => slot_expert[slot_of[e]] = e

\* A published host copy has one owner and is not a spare.
StoreAgrees ==
  \A e \in Experts : index[e] # None =>
    /\ index[e] \notin free
    /\ \A f \in Experts : index[f] = index[e] => f = e

\* What an exchange owns: before it starts, the blob it took and the slot its leaving expert is still
\* served from; after it, the stage and the slot, its leaving expert being served from the blob.
Owns(x) ==
  /\ x.in # x.out
  /\ x.in \in busy /\ x.out \in busy
  /\ slot_of[x.in] = None
  /\ ~Started(x) => /\ slot_of[x.out] = x.slot
                    /\ x.blob \notin free
                    /\ \A e \in Experts : index[e] # x.blob
                    /\ x.stage = None
                    /\ x.host = "done" => blobData[x.blob] = x.out
  /\ Started(x) => /\ slot_of[x.out] = None
                   /\ slot_expert[x.slot] = x.in
                   /\ x.host = "done"
                   /\ x.stage \in Stages \ stage_free

Apart(x, y) ==
  /\ x.in # y.in /\ x.in # y.out /\ x.out # y.in /\ x.out # y.out
  /\ ~Started(x) /\ ~Started(y) => x.blob # y.blob
  /\ Started(x) /\ Started(y) => x.stage # y.stage

IInv ==
  /\ TypeOK
  /\ ExactlyOnePlace
  /\ MapAgrees
  /\ StoreAgrees
  /\ SlotHeld
  /\ \A x \in xs : Owns(x)
  /\ \A x, y \in xs : x # y => Apart(x, y)
  /\ RightBytes
  /\ CopyIntact

USE ConstantsAssumption, PlacementAssumption

LEMMA InitInv == Init => IInv
<1> SUFFICES ASSUME Init PROVE IInv
  OBVIOUS
<1>1. \A e \in Experts : slot_of[e] # None => slot_of[e] \in Slots /\ Resident0[slot_of[e]] = e
  BY DEF Init
<1>2. \A b \in Blobs : blobData[b] \in Contents /\ (\A e \in Experts : Store0[e] = b => blobData[b] = e)
  BY DEF Init, Contents
<1>3. TypeOK
  BY <1>2 DEF Init, TypeOK, Phase, Contents
<1>4. ExactlyOnePlace
  BY DEF Init, ExactlyOnePlace
<1>5. RightBytes
  BY <1>1, <1>2 DEF Init, RightBytes
<1>6. SlotHeld
  BY <1>1 DEF Init, SlotHeld
<1>7. QED
  BY <1>1, <1>3, <1>4, <1>5, <1>6 DEF Init, IInv, MapAgrees, StoreAgrees, CopyIntact

\* The engine thread's moves between its phases touch nothing an exchange owns.
LEMMA PhaseInv ==
  ASSUME IInv, UNCHANGED <<cache, store, memory, xs>>, pc' \in Phase,
         todo' \in SUBSET (Slots \cup Layers), hq' \in Seq(Slots)
  PROVE  IInv'
<1> USE DEF cache, store, memory
<1>1. TypeOK' /\ ExactlyOnePlace' /\ RightBytes' /\ CopyIntact'
  BY DEF IInv, TypeOK, ExactlyOnePlace, RightBytes, CopyIntact
<1>2. MapAgrees' /\ StoreAgrees' /\ SlotHeld'
  BY DEF IInv, MapAgrees, StoreAgrees, SlotHeld, Started
<1>3. (\A x \in xs : Owns(x))' /\ (\A x, y \in xs : x # y => Apart(x, y))'
  BY DEF IInv, Owns, Apart, Started
<1>4. QED
  BY <1>1, <1>2, <1>3 DEF IInv

\* Mapping the incoming expert and spending its host copy.
LEMMA FinishInv ==
  ASSUME IInv, NEW x \in xs, Finish(x)
  PROVE  IInv'
<1> USE DEF memory
<1>1. /\ x \in Exchange /\ Started(x) /\ Owns(x) /\ TypeOK
      /\ slot_of[x.in] = None /\ index[x.in] \in Blobs /\ slot_expert[x.slot] = x.in
  BY DEF IInv, Finish, Started, Owns, TypeOK, Exchange, ExactlyOnePlace
<1>2. /\ slot_of' = [slot_of EXCEPT ![x.in] = x.slot]
      /\ index' = [index EXCEPT ![x.in] = None]
      /\ free' = free \cup {index[x.in]}
      /\ busy' = busy \ {x.in, x.out}
      /\ stage_free' = stage_free \cup {x.stage}
      /\ xs' = xs \ {x}
      /\ UNCHANGED <<slot_expert, slotData, blobData, stageData>>
  BY <1>1 DEF Finish, Release, ClearBusy, GiveStage
<1>3. x.in \in Experts /\ x.out \in Experts /\ x.slot \in Slots /\ x.stage \in Stages
  BY <1>1 DEF Exchange, Owns
<1>4. TypeOK'
  BY <1>1, <1>2, <1>3 DEF Finish, TypeOK
<1>5. ExactlyOnePlace'
  BY <1>1, <1>2, <1>3 DEF IInv, ExactlyOnePlace, TypeOK
<1>6. MapAgrees'
  BY <1>1, <1>2, <1>3 DEF IInv, MapAgrees, TypeOK
<1>7. StoreAgrees'
  BY <1>1, <1>2, <1>3 DEF IInv, StoreAgrees, TypeOK
<1>8. \A y \in xs' : y \in xs /\ y \in Exchange /\ y # x /\ Apart(x, y) /\ Apart(y, x) /\ Owns(y)
  BY <1>2 DEF IInv, TypeOK
<1>9. \A y \in xs' : Owns(y)'
  <2> SUFFICES ASSUME NEW y \in xs' PROVE Owns(y)'
    OBVIOUS
  <2>1. y \in Exchange /\ Apart(x, y) /\ Apart(y, x) /\ Owns(y)
    BY <1>8
  <2>2. y.in \in Experts /\ y.out \in Experts /\ y.blob \in Blobs
    BY <2>1 DEF Exchange
  <2>3. ~Started(y) => y.blob # index[x.in]
    BY <2>1, <1>3 DEF Owns
  <2>4. CASE Started(y)
    BY <1>1, <1>2, <1>3, <2>1, <2>2, <2>4 DEF Owns, Apart, Started, TypeOK
  <2>5. CASE ~Started(y)
    BY <1>1, <1>2, <1>3, <2>1, <2>2, <2>3, <2>5 DEF Owns, Apart, Started, TypeOK
  <2>6. QED
    BY <2>4, <2>5
<1>10. (\A y, z \in xs : y # z => Apart(y, z))'
  BY <1>2 DEF IInv, Apart, Started
<1>11. CopyIntact
  BY DEF IInv
<1>12. RightBytes'
  BY <1>1, <1>2, <1>3, <1>11 DEF IInv, RightBytes, TypeOK, Finish, CopyIntact
<1>13. CopyIntact'
  <2> SUFFICES ASSUME NEW y \in xs' 
               PROVE /\ index'[y.in] # None
                     /\ y.gpu = "staged" => stageData[y.stage] = y.in
                     /\ y.gpu = "done" => slotData[y.slot] = y.in
    BY <1>2 DEF CopyIntact
  <2>1. y \in xs /\ Apart(x, y) /\ y.in \in Experts
    BY <1>8 DEF Exchange
  <2>2. QED
    BY <1>1, <1>2, <1>3, <1>11, <2>1 DEF Apart, CopyIntact, TypeOK
<1>14. (\A y \in xs : Owns(y))'
  BY <1>9 
<1>15. SlotHeld'
  <2> SUFFICES ASSUME NEW s \in Slots
               PROVE \/ slot_of'[slot_expert[s]] = s
                     \/ \E y \in xs' : y.slot = s /\ y.in = slot_expert[s] /\ Started(y)
    BY <1>2 DEF SlotHeld, Started
  <2>1. CASE s = x.slot
    BY <1>1, <1>2, <1>3, <2>1 DEF TypeOK
  <2>2. CASE s # x.slot
    BY <1>1, <1>2, <1>3, <2>2 DEF IInv, SlotHeld, TypeOK
  <2>3. QED
    BY <2>1, <2>2
<1>16. QED
  BY <1>4, <1>5, <1>6, <1>7, <1>10, <1>12, <1>13, <1>14, <1>15 DEF IInv

\* Publishing the leaving expert's host copy, unmapping it and queueing the slot's refill.
LEMMA StartInv ==
  ASSUME IInv, NEW x \in xs, Start(x)
  PROVE  IInv'
<1> USE DEF memory
<1>1. PICK st \in stage_free :
        /\ stage_free' = stage_free \ {st}
        /\ xs' = (xs \ {x}) \cup {[x EXCEPT !.gpu = "queued", !.stage = st]}
  BY DEF Start
<1> DEFINE z == [x EXCEPT !.gpu = "queued", !.stage = st]
<1>2. /\ x \in Exchange /\ ~Started(x) /\ x.host = "done" /\ Owns(x) /\ TypeOK
      /\ slot_of[x.in] = None /\ slot_of[x.out] = x.slot /\ slot_expert[x.slot] = x.out
      /\ index[x.in] \in Blobs /\ index[x.out] = None /\ x.in # x.out
      /\ blobData[x.blob] = x.out
  BY DEF IInv, Start, Startable, Started, Owns, TypeOK, Exchange, ExactlyOnePlace, MapAgrees
<1>3. /\ z \in Exchange /\ z.in = x.in /\ z.out = x.out /\ z.slot = x.slot /\ z.blob = x.blob
      /\ z.host = "done" /\ z.gpu = "queued" /\ z.stage = st /\ Started(z) /\ st \in Stages
  BY <1>1, <1>2 DEF Exchange, Started, Gpu, Host, TypeOK
<1>4. /\ slot_of' = [slot_of EXCEPT ![x.out] = None]
      /\ index' = [index EXCEPT ![x.out] = x.blob]
      /\ slot_expert' = [slot_expert EXCEPT ![x.slot] = x.in]
      /\ xs' = (xs \ {x}) \cup {z}
      /\ UNCHANGED <<busy, free, slotData, blobData, stageData, hq>>
  BY <1>1 DEF Start, ServeFromHost
<1>5. x.in \in Experts /\ x.out \in Experts /\ x.slot \in Slots /\ x.blob \in Blobs
  BY <1>2 DEF Exchange
<1>6. TypeOK'
  BY <1>1, <1>2, <1>3, <1>4, <1>5 DEF Start, TypeOK
<1>7. ExactlyOnePlace'
  BY <1>2, <1>4, <1>5 DEF IInv, ExactlyOnePlace, TypeOK
<1>8. MapAgrees'
  BY <1>2, <1>4, <1>5 DEF IInv, MapAgrees, TypeOK
<1>9. StoreAgrees'
  BY <1>2, <1>4, <1>5 DEF IInv, StoreAgrees, TypeOK, Owns
<1>10. RightBytes'
  BY <1>2, <1>4, <1>5 DEF IInv, RightBytes, TypeOK
<1>11. \A y \in xs' : y # z => y \in xs /\ y \in Exchange /\ Apart(x, y) /\ Apart(y, x) /\ Owns(y)
  BY <1>2, <1>4 DEF IInv, TypeOK
<1>12. (\A y \in xs : Owns(y))'
  <2> SUFFICES ASSUME NEW y \in xs' PROVE Owns(y)'
    OBVIOUS
  <2>1. CASE y = z
    BY <2>1, <1>1, <1>2, <1>3, <1>4, <1>5 DEF Owns, Started, TypeOK
  <2>2. CASE y # z
    <3>1. y \in Exchange /\ Apart(x, y) /\ Apart(y, x) /\ Owns(y)
      BY <1>11, <2>2
    <3>2. y.in \in Experts /\ y.out \in Experts /\ y.slot \in Slots /\ y.blob \in Blobs
      BY <3>1 DEF Exchange
    <3>3. CASE Started(y)
      <4>1. y.slot # x.slot
        BY <1>2, <1>5, <3>1, <3>3 DEF Owns, Apart
      <4>2. QED
        BY <1>1, <1>2, <1>4, <1>5, <3>1, <3>2, <3>3, <4>1 DEF Owns, Apart, Started, TypeOK
    <3>4. CASE ~Started(y)
      BY <1>1, <1>2, <1>4, <1>5, <3>1, <3>2, <3>4 DEF Owns, Apart, Started, TypeOK
    <3>5. QED
      BY <3>3, <3>4
  <2>3. QED
    BY <2>1, <2>2
<1>13. (\A v, w \in xs : v # w => Apart(v, w))'
  <2> SUFFICES ASSUME NEW v \in xs', NEW w \in xs', v # w PROVE Apart(v, w)
    BY DEF Apart, Started
  <2>1. ASSUME NEW y \in xs, y # z, y \in xs' PROVE Apart(z, y) /\ Apart(y, z)
    <3>1. Apart(x, y) /\ Apart(y, x) /\ Owns(y)
      BY <1>11, <2>1
    <3>2. QED
      BY <3>1, <1>1, <1>2, <1>3 DEF Apart, Owns
  <2>2. QED
    BY <1>4, <2>1 DEF IInv
<1>14. CopyIntact'
  <2> SUFFICES ASSUME NEW y \in xs'
               PROVE /\ index'[y.in] # None
                     /\ y.gpu = "staged" => stageData[y.stage] = y.in
                     /\ y.gpu = "done" => slotData[y.slot] = y.in
    BY <1>4 DEF CopyIntact
  <2>1. CASE y = z
    BY <2>1, <1>2, <1>3, <1>4, <1>5 DEF TypeOK
  <2>2. CASE y # z
    <3>1. y \in xs /\ Apart(x, y) /\ y.in \in Experts
      BY <1>11, <2>2 DEF Exchange
    <3>2. QED
      BY <1>2, <1>4, <1>5, <3>1 DEF IInv, Apart, CopyIntact, TypeOK
  <2>3. QED
    BY <2>1, <2>2
<1>15. SlotHeld'
  <2> SUFFICES ASSUME NEW s \in Slots
               PROVE \/ slot_of'[slot_expert'[s]] = s
                     \/ \E y \in xs' : y.slot = s /\ y.in = slot_expert'[s] /\ Started(y)
    BY DEF SlotHeld, Started
  <2>1. CASE s = x.slot
    BY <1>2, <1>3, <1>4, <1>5, <2>1 DEF TypeOK
  <2>2. CASE s # x.slot
    BY <1>2, <1>4, <1>5, <2>2 DEF IInv, SlotHeld, TypeOK
  <2>3. QED
    BY <2>1, <2>2
<1>16. QED
  BY <1>6, <1>7, <1>8, <1>9, <1>10, <1>12, <1>13, <1>14, <1>15 DEF IInv

\* Taking a spare blob for a leaving expert that no exchange has.
LEMMA PlanInv ==
  ASSUME IInv, NEW l \in Layers, Plan(l)
  PROVE  IInv'
<1> USE DEF memory
<1>1. PICK e \in Experts, s \in Slots, b \in free :
        /\ Candidate(l, e, s)
        /\ free' = free \ {b}
        /\ xs' = xs \cup {[in |-> e, out |-> slot_expert[s], slot |-> s, blob |-> b,
                           stage |-> None, host |-> "queued", gpu |-> "none"]}
        /\ busy' = busy \cup {e, slot_expert[s]}
        /\ hq' = Append(hq, s)
  BY DEF Plan, TakeBlob
<1> DEFINE z == [in |-> e, out |-> slot_expert[s], slot |-> s, blob |-> b,
                 stage |-> None, host |-> "queued", gpu |-> "none"]
<1>2. UNCHANGED <<slot_of, slot_expert, stage_free, index, slotData, blobData, stageData, pc>>
      /\ todo' = todo \ {l}
  BY DEF Plan
<1>3. /\ TypeOK /\ b \in Blobs /\ slot_expert[s] \in Experts
      /\ slot_of[e] = None /\ e \notin busy /\ slot_expert[s] \notin busy
  BY <1>1 DEF IInv, TypeOK, Candidate
<1>4. z \in Exchange /\ ~Started(z) /\ z.host # "done" /\ z.gpu = "none"
      /\ z.in = e /\ z.out = slot_expert[s] /\ z.slot = s /\ z.blob = b /\ z.stage = None
  BY <1>3 DEF Exchange, Host, Gpu, Started
<1>5. TypeOK'
  BY <1>1, <1>2, <1>3, <1>4 DEF TypeOK
<1>6. slot_of[slot_expert[s]] = s
  BY <1>3 DEF IInv, SlotHeld, Owns
<1>7. index[e] \in Blobs /\ index[slot_expert[s]] = None
  BY <1>3, <1>6 DEF IInv, ExactlyOnePlace, TypeOK
<1>8. \A f \in Experts : index[f] # b
  BY <1>1, <1>3 DEF IInv, StoreAgrees, TypeOK
<1>9. ExactlyOnePlace' /\ MapAgrees' /\ StoreAgrees' /\ RightBytes'
  BY <1>1, <1>2 DEF IInv, ExactlyOnePlace, MapAgrees, StoreAgrees, RightBytes
<1>10. SlotHeld'
  BY <1>1, <1>2 DEF IInv, SlotHeld, Started
<1>11. \A y \in xs : Owns(y) /\ y \in Exchange /\ y.in # e /\ y.out # e
                     /\ y.in # slot_expert[s] /\ y.out # slot_expert[s]
                     /\ (~Started(y) => y.blob # b)
  BY <1>1, <1>3 DEF IInv, Owns, TypeOK
<1>12. (\A y \in xs : Owns(y))'
  <2> SUFFICES ASSUME NEW y \in xs' PROVE Owns(y)'
    OBVIOUS
  <2>1. CASE y = z
    BY <2>1, <1>1, <1>2, <1>3, <1>4, <1>6, <1>7, <1>8 DEF Owns, Started
  <2>2. CASE y # z
    BY <2>2, <1>1, <1>2, <1>11 DEF Owns, Started
  <2>3. QED
    BY <2>1, <2>2
<1>13. (\A v, w \in xs : v # w => Apart(v, w))'
  <2> SUFFICES ASSUME NEW v \in xs', NEW w \in xs', v # w PROVE Apart(v, w)
    BY DEF Apart, Started
  <2>1. ASSUME NEW y \in xs PROVE Apart(z, y) /\ Apart(y, z)
    BY <2>1, <1>4, <1>11 DEF Apart
  <2>2. QED
    BY <1>1, <2>1 DEF IInv
<1>14. CopyIntact'
  BY <1>1, <1>2, <1>4, <1>7 DEF IInv, CopyIntact
<1>15. QED
  BY <1>5, <1>9, <1>10, <1>12, <1>13, <1>14 DEF IInv

\* A step of the helper thread or of the copy stream moves one exchange on: what it owns stays the same.
LEMMA AdvanceInv ==
  ASSUME IInv, NEW x \in xs, NEW z \in Exchange,
         xs' = (xs \ {x}) \cup {z},
         z.in = x.in, z.out = x.out, z.slot = x.slot, z.blob = x.blob, z.stage = x.stage,
         Started(z) <=> Started(x), Started(x) => z.host = "done",
         UNCHANGED <<engine, cache, store>>, hq' \in Seq(Slots),
         slotData' \in [Slots -> Contents], blobData' \in [Blobs -> Contents],
         stageData' \in [Stages -> Contents],
         RightBytes', CopyIntact',
         \A y \in xs' : ~Started(y) /\ y.host = "done" => blobData'[y.blob] = y.out
  PROVE  IInv'
<1> USE DEF engine, cache, store
<1>1. TypeOK'
  BY DEF IInv, TypeOK
<1>2. ExactlyOnePlace' /\ MapAgrees' /\ StoreAgrees'
  BY DEF IInv, ExactlyOnePlace, MapAgrees, StoreAgrees
<1>3. SlotHeld'
  <2> SUFFICES ASSUME NEW s \in Slots
               PROVE \/ slot_of[slot_expert[s]] = s
                     \/ \E y \in xs' : y.slot = s /\ y.in = slot_expert[s] /\ Started(y)
    BY DEF SlotHeld, Started
  <2>1. QED
    BY DEF IInv, SlotHeld
<1>4. (\A y \in xs : Owns(y))'
  <2> SUFFICES ASSUME NEW y \in xs' PROVE Owns(y)'
    OBVIOUS
  <2>1. CASE y = z
    <3>1. Owns(x)
      BY DEF IInv
    <3>2. QED
      BY <2>1, <3>1 DEF Owns, Started
  <2>2. CASE y # z
    BY <2>2 DEF IInv, Owns, Started
  <2>3. QED
    BY <2>1, <2>2
<1>5. (\A v, w \in xs : v # w => Apart(v, w))'
  <2> SUFFICES ASSUME NEW v \in xs', NEW w \in xs', v # w PROVE Apart(v, w)
    BY DEF Apart, Started
  <2>1. ASSUME NEW y \in xs, y # x PROVE Apart(z, y) /\ Apart(y, z)
    BY <2>1 DEF Apart, IInv
  <2>2. QED
    BY <2>1 DEF IInv
<1>6. QED
  BY <1>1, <1>2, <1>3, <1>4, <1>5 DEF IInv

\* No two exchanges in flight work on the same slot.
LEMMA SlotsApart ==
  ASSUME IInv, NEW x \in xs, NEW y \in xs, x # y
  PROVE  x.slot # y.slot
<1>1. x \in Exchange /\ y \in Exchange /\ Owns(x) /\ Owns(y) /\ Apart(x, y)
  BY DEF IInv, TypeOK
<1>2. slot_expert[x.slot] = IF Started(x) THEN x.in ELSE x.out
  BY <1>1 DEF IInv, Owns, MapAgrees, Exchange
<1>3. slot_expert[y.slot] = IF Started(y) THEN y.in ELSE y.out
  BY <1>1 DEF IInv, Owns, MapAgrees, Exchange
<1>4. QED
  BY <1>1, <1>2, <1>3 DEF Apart

\* The helper thread writes a blob nothing else uses.
LEMMA CopierInv ==
  ASSUME IInv, NEW x \in xs, CopierTake(x) \/ CopierDone(x)
  PROVE  IInv'
<1> DEFINE h == IF x.host = "queued" THEN "copying" ELSE "done"
           c == IF x.host = "queued" THEN Junk ELSE x.out
           z == [x EXCEPT !.host = h]
<1>1. /\ x \in Exchange /\ Owns(x) /\ TypeOK /\ ~Started(x) /\ x.host # "done"
  BY DEF IInv, TypeOK, CopierTake, CopierDone, Owns
<1>2. /\ xs' = (xs \ {x}) \cup {z}
      /\ blobData' = [blobData EXCEPT ![x.blob] = c]
      /\ UNCHANGED <<engine, cache, store, slotData, stageData>>
  BY DEF CopierTake, CopierDone
<1>3. /\ z \in Exchange /\ z.in = x.in /\ z.out = x.out /\ z.slot = x.slot /\ z.blob = x.blob
      /\ z.stage = x.stage /\ z.gpu = x.gpu /\ z.host = h /\ (Started(z) <=> Started(x))
  BY <1>1 DEF Exchange, Host, Started
<1>4. hq' \in Seq(Slots)
  <2>1. hq \in Seq(Slots)
    BY <1>1 DEF TypeOK
  <2>2. CASE CopierTake(x)
    BY <2>1, <2>2 DEF CopierTake
  <2>3. CASE CopierDone(x)
    BY <2>1, <2>3 DEF CopierDone
  <2>4. QED
    BY <2>2, <2>3
<1>5. x.blob \in Blobs /\ c \in Contents /\ (z.host = "done" => c = x.out)
  BY <1>1, <1>3 DEF Exchange, Contents
<1>6. blobData' \in [Blobs -> Contents]
  BY <1>1, <1>2, <1>5 DEF TypeOK
<1>7. RightBytes'
  BY <1>1, <1>2, <1>5 DEF IInv, RightBytes, Owns, TypeOK, cache, store
<1>8. CopyIntact'
  <2> SUFFICES ASSUME NEW y \in xs'
               PROVE /\ index[y.in] # None
                     /\ y.gpu = "staged" => stageData[y.stage] = y.in
                     /\ y.gpu = "done" => slotData[y.slot] = y.in
    BY <1>2 DEF CopyIntact, store
  <2>1. y \in xs \/ y = z
    BY <1>2
  <2>2. x.gpu = "none" /\ z.gpu = "none" /\ z.in = x.in
    BY <1>1, <1>3 DEF Started
  <2>3. CASE y \in xs
    BY <2>3 DEF IInv, CopyIntact
  <2>4. CASE y = z
    <3>1. index[x.in] # None
      BY DEF IInv, CopyIntact
    <3>2. QED
      BY <2>2, <2>4, <3>1
  <2>5. QED
    BY <2>1, <2>3, <2>4
<1>9. \A y \in xs' : ~Started(y) /\ y.host = "done" => blobData'[y.blob] = y.out
  <2> SUFFICES ASSUME NEW y \in xs', ~Started(y), y.host = "done" PROVE blobData'[y.blob] = y.out
    OBVIOUS
  <2>1. CASE y = z
    BY <2>1, <1>1, <1>2, <1>3, <1>5 DEF TypeOK
  <2>2. CASE y # z
    BY <2>2, <1>1, <1>2, <1>5 DEF IInv, Apart, Owns, TypeOK
  <2>3. QED
    BY <2>1, <2>2
<1>10. slotData' \in [Slots -> Contents] /\ stageData' \in [Stages -> Contents]
  BY <1>1, <1>2 DEF TypeOK
<1>11. xs' = (xs \ {x}) \cup {z} /\ UNCHANGED <<engine, cache, store>> /\ ~Started(x)
  BY <1>1, <1>2
<1> HIDE DEF z
<1>12. QED
  BY <1>3, <1>4, <1>6, <1>7, <1>8, <1>9, <1>10, <1>11, AdvanceInv

\* The copy stream reads the incoming expert's own blob and writes a slot nobody is served from.
LEMMA StreamInv ==
  ASSUME IInv, NEW x \in xs, Load(x) \/ Repack(x)
  PROVE  IInv'
<1> DEFINE g == IF x.gpu = "queued" THEN "staged" ELSE "done"
           z == [x EXCEPT !.gpu = g]
<1>1. /\ x \in Exchange /\ Owns(x) /\ TypeOK /\ Started(x) /\ x.slot \in Slots /\ x.stage \in Stages
      /\ x.in \in Experts /\ slot_of[x.in] = None /\ slot_expert[x.slot] = x.in
      /\ index[x.in] \in Blobs /\ blobData[index[x.in]] = x.in
  BY DEF IInv, TypeOK, Load, Repack, Owns, Started, Exchange, ExactlyOnePlace, RightBytes
<1>2. /\ xs' = (xs \ {x}) \cup {z}
      /\ UNCHANGED <<engine, cache, store, blobData, hq>>
      /\ x.gpu = "queued" => /\ stageData' = [stageData EXCEPT ![x.stage] = x.in]
                             /\ slotData' = [slotData EXCEPT ![x.slot] = Junk]
      /\ x.gpu # "queued" => /\ x.gpu = "staged"
                             /\ slotData' = [slotData EXCEPT ![x.slot] = stageData[x.stage]]
                             /\ stageData' = stageData
  BY <1>1 DEF Load, Repack
<1>3. /\ z \in Exchange /\ z.in = x.in /\ z.out = x.out /\ z.slot = x.slot /\ z.blob = x.blob
      /\ z.stage = x.stage /\ z.host = x.host /\ z.gpu = g /\ Started(z)
  BY <1>1 DEF Exchange, Gpu, Started
<1>4. slotData' \in [Slots -> Contents] /\ stageData' \in [Stages -> Contents]
      /\ blobData' \in [Blobs -> Contents] /\ hq' \in Seq(Slots)
  <2>1. /\ slotData \in [Slots -> Contents] /\ stageData \in [Stages -> Contents]
        /\ blobData \in [Blobs -> Contents] /\ hq \in Seq(Slots)
    BY <1>1 DEF TypeOK
  <2>2. x.in \in Contents /\ Junk \in Contents /\ stageData[x.stage] \in Contents
    BY <1>1, <2>1 DEF Contents
  <2>3. slotData' \in [Slots -> Contents] /\ stageData' \in [Stages -> Contents]
    <3>1. CASE x.gpu = "queued"
      BY <1>2, <2>1, <2>2, <3>1
    <3>2. CASE x.gpu # "queued"
      BY <1>2, <2>1, <2>2, <3>2
    <3>3. QED
      BY <3>1, <3>2
  <2>4. QED
    BY <1>2, <2>1, <2>3
<1>5. \A e \in Experts : slot_of[e] # x.slot
  BY <1>1 DEF IInv, MapAgrees, TypeOK
<1>6. RightBytes'
  BY <1>1, <1>2, <1>5 DEF IInv, RightBytes, TypeOK, cache, store
<1>7. CopyIntact'
  <2> SUFFICES ASSUME NEW y \in xs'
               PROVE /\ index[y.in] # None
                     /\ y.gpu = "staged" => stageData'[y.stage] = y.in
                     /\ y.gpu = "done" => slotData'[y.slot] = y.in
    BY <1>2 DEF CopyIntact, store
  <2>1. CASE y = z
    BY <2>1, <1>1, <1>2, <1>3 DEF IInv, CopyIntact, TypeOK
  <2>2. CASE y # z
    <3>1. y \in xs /\ y # x /\ y \in Exchange /\ Apart(x, y) /\ Owns(y)
      BY <2>2, <1>2 DEF IInv, TypeOK
    <3>2. y.slot # x.slot /\ (Started(y) => y.stage # x.stage)
      BY <3>1, <1>1, SlotsApart DEF Apart
    <3>3. /\ index[y.in] # None
          /\ y.gpu = "staged" => stageData[y.stage] = y.in
          /\ y.gpu = "done" => slotData[y.slot] = y.in
      BY <3>1 DEF IInv, CopyIntact
    <3>4. y.slot \in Slots /\ (Started(y) => y.stage \in Stages) /\ (y.gpu = "staged" => Started(y))
      BY <3>1 DEF Exchange, Owns, Started
    <3>5. slotData'[y.slot] = slotData[y.slot]
      BY <3>2, <3>4, <1>1, <1>2 DEF TypeOK
    <3>6. Started(y) => stageData'[y.stage] = stageData[y.stage]
      BY <3>2, <3>4, <1>1, <1>2 DEF TypeOK
    <3>7. QED
      BY <3>3, <3>4, <3>5, <3>6
  <2>3. QED
    BY <2>1, <2>2
<1>8. \A y \in xs' : ~Started(y) /\ y.host = "done" => blobData'[y.blob] = y.out
  BY <1>2, <1>3 DEF IInv, Owns
<1>9. Started(x) => z.host = "done"
  BY <1>1, <1>3 DEF Owns
<1>10. xs' = (xs \ {x}) \cup {z} /\ UNCHANGED <<engine, cache, store>>
  BY <1>2
<1>11. Started(z) <=> Started(x)
  BY <1>1, <1>3
<1> HIDE DEF z
<1>12. QED
  BY <1>3, <1>4, <1>6, <1>7, <1>8, <1>9, <1>10, <1>11, AdvanceInv

LEMMA NextInv == IInv /\ [Next]_vars => IInv'
<1> SUFFICES ASSUME IInv, [Next]_vars PROVE IInv'
  OBVIOUS
<1> USE DEF engine
<1>1. TypeOK /\ todo \in SUBSET (Slots \cup Layers) /\ hq \in Seq(Slots) /\ pc \in Phase
      /\ \A x \in xs : x \in Exchange /\ x.slot \in Slots
  BY DEF IInv, TypeOK, Exchange
<1>2. CASE BeginForward \/ EndForward \/ EndFinish \/ EndStart \/ EndPlan
  BY <1>1, <1>2, PhaseInv DEF BeginForward, EndForward, EndFinish, EndStart, EndPlan, Phase
<1>3. ASSUME NEW x \in xs, Finish(x) PROVE IInv'
  BY <1>3, FinishInv
<1>4. ASSUME NEW x \in xs, NotFinished(x) \/ NotStarted(x) PROVE IInv'
  BY <1>1, <1>4, PhaseInv DEF NotFinished, NotStarted
<1>5. ASSUME NEW x \in xs, Start(x) PROVE IInv'
  BY <1>5, StartInv
<1>6. ASSUME NEW l \in Layers, Plan(l) PROVE IInv'
  BY <1>6, PlanInv
<1>7. ASSUME NEW l \in Layers, PassOver(l) PROVE IInv'
  BY <1>1, <1>7, PhaseInv DEF PassOver
<1>8. ASSUME NEW x \in xs, CopierTake(x) \/ CopierDone(x) PROVE IInv'
  BY <1>8, CopierInv
<1>9. ASSUME NEW x \in xs, Load(x) \/ Repack(x) PROVE IInv'
  BY <1>9, StreamInv
<1>10. CASE UNCHANGED vars
  BY <1>1, <1>10, PhaseInv DEF vars
<1>11. QED
  BY <1>2, <1>3, <1>4, <1>5, <1>6, <1>7, <1>8, <1>9, <1>10 DEF Next, EngineStep, CopierStep, StreamStep

THEOREM ExchangeInvariant == Spec => []IInv
<1>1. QED
  BY InitInv, NextInv, PTL DEF Spec

\* Every variable of the exchange keeps its type (the run's TypeOK).
THEOREM TypeCorrect == Spec => []TypeOK
<1>1. IInv => TypeOK
  BY DEF IInv
<1>2. QED
  BY <1>1, ExchangeInvariant, PTL

\* "Every expert is resident or in the store at every moment": the promise of expert_cache.h, and with it
\* that the DeepSeek forward never throws for an expert without a host copy.
THEOREM EveryExpertServable == Spec => []ExactlyOnePlace
<1>1. IInv => ExactlyOnePlace
  BY DEF IInv
<1>2. QED
  BY <1>1, ExchangeInvariant, PTL

\* No forward, GPU or CPU side, can address memory that holds another expert's bytes or half an expert.
THEOREM ServedBytesRight == Spec => []RightBytes
<1>1. IInv => RightBytes
  BY DEF IInv
<1>2. QED
  BY <1>1, ExchangeInvariant, PTL

\* The DMA of an incoming expert reads that expert's bytes whatever the helper thread does meanwhile.
THEOREM CopiesIntact == Spec => []CopyIntact
<1>1. IInv => CopyIntact
  BY DEF IInv
<1>2. QED
  BY <1>1, ExchangeInvariant, PTL

\* Nothing that is read of an expert's matrices, by a forward or by the exchange itself, is another's or half written.
THEOREM BytesAlwaysRight == Spec => []BytesRight
BY ServedBytesRight, CopiesIntact, PTL DEF BytesRight

\* Two exchanges in flight never share a slot, an expert or a stage, and every slot is mapped or being refilled.
THEOREM SlotsOwned == Spec => []SlotOwners
<1>1. IInv => SlotOwners
  <2> SUFFICES ASSUME IInv PROVE SlotOwners
    OBVIOUS
  <2>1. ASSUME NEW x \in xs, NEW y \in xs, x # y
        PROVE /\ x.slot # y.slot
              /\ {x.in, x.out} \cap {y.in, y.out} = {}
              /\ x.stage = y.stage => x.stage = None
    <3>1. Apart(x, y) /\ Owns(x) /\ Owns(y)
      BY <2>1 DEF IInv
    <3>2. x.slot # y.slot
      BY <2>1, SlotsApart
    <3>3. QED
      BY <3>1, <3>2 DEF Apart, Owns
  <2>2. QED
    BY <2>1 DEF IInv, SlotOwners
<1>2. QED
  BY <1>1, ExchangeInvariant, PTL

-----------------------------------------------------------------------------
(* Bookkeeping *)

BlobKept   == \A b \in Blobs : b \in free \/ (\E e \in Experts : index[e] = b) \/ \E x \in xs : ~Started(x) /\ x.blob = b
StagesUsed == \A s \in Stages : s \in stage_free \/ \E x \in xs : x.stage = s
BusyUsed   == busy \subseteq Involved
FewInFlight == IsFiniteSet(xs) /\ Cardinality(xs) <= Cardinality(Stages)

\* Nothing is lost: each blob, stage and mark has an owner, and the queue's entries have theirs.
Kept == BlobKept /\ StagesUsed /\ BusyUsed /\ FewInFlight /\ QueueLive

LEMMA OneMore ==
  ASSUME NEW T, IsFiniteSet(T), NEW z
  PROVE  /\ IsFiniteSet(T \cup {z}) /\ Cardinality(T \cup {z}) \in Nat /\ Cardinality(T) \in Nat
         /\ Cardinality(T \cup {z}) <= Cardinality(T) + 1
<1>1. Cardinality(T) \in Nat /\ IsFiniteSet(T \cup {z})
  BY FS_AddElement, FS_CardinalityType
<1>2. Cardinality(T \cup {z}) = IF z \in T THEN Cardinality(T) ELSE Cardinality(T) + 1
  BY FS_AddElement
<1>3. CASE z \in T
  BY <1>1, <1>2, <1>3
<1>4. CASE z \notin T
  BY <1>1, <1>2, <1>4
<1> QED
  BY <1>3, <1>4

LEMMA InitKept == Init => Kept
<1> SUFFICES ASSUME Init PROVE Kept
  OBVIOUS
<1>1. BlobKept /\ StagesUsed /\ BusyUsed
  BY DEF Init, BlobKept, StagesUsed, BusyUsed, Involved
<1>2. FewInFlight
  BY FS_EmptySet, FS_CardinalityType DEF Init, FewInFlight
<1>3. QueueLive
  BY EmptySeq DEF Init, QueueLive
<1> QED
  BY <1>1, <1>2, <1>3 DEF Kept

LEMMA PhaseKept ==
  ASSUME Kept, UNCHANGED <<cache, store, xs, hq>>
  PROVE  Kept'
BY DEF Kept, cache, store, BlobKept, StagesUsed, BusyUsed, Involved, FewInFlight, QueueLive, Started

\* An exchange takes a step and keeps what it holds, but perhaps for the stage it is given.
LEMMA StepOfOne ==
  ASSUME IInv, Kept, NEW x \in xs, NEW z, xs' = (xs \ {x}) \cup {z}, UNCHANGED busy,
         z.in = x.in, z.out = x.out
  PROVE  BusyUsed' /\ FewInFlight'
<1>1. BusyUsed'
  BY DEF Kept, BusyUsed, Involved
<1>2. /\ IsFiniteSet(xs) /\ Cardinality(xs) \in Nat /\ Cardinality(Stages) \in Nat
      /\ Cardinality(xs) <= Cardinality(Stages)
  BY FS_CardinalityType DEF Kept, FewInFlight
<1> DEFINE rest == xs \ {x}
<1>3. IsFiniteSet(rest) /\ Cardinality(rest) = Cardinality(xs) - 1
  BY <1>2, FS_RemoveElement
<1> HIDE DEF rest
<1>4. /\ IsFiniteSet(rest \cup {z}) /\ Cardinality(rest \cup {z}) <= Cardinality(rest) + 1
      /\ Cardinality(rest \cup {z}) \in Nat
  BY <1>3, OneMore
<1>5. xs' = rest \cup {z}
  BY DEF rest
<1>6. FewInFlight'
  <2>1. Cardinality(rest \cup {z}) <= Cardinality(Stages)
    BY <1>2, <1>3, <1>4
  <2> QED
    BY <1>4, <1>5, <2>1 DEF FewInFlight
<1> QED
  BY <1>1, <1>6

\* So it is with the steps of the helper thread and of the copy stream.
LEMMA AdvanceKept ==
  ASSUME IInv, Kept, NEW x \in xs, NEW z, xs' = (xs \ {x}) \cup {z}, UNCHANGED <<cache, store>>,
         z.in = x.in, z.out = x.out, z.blob = x.blob, z.stage = x.stage, Started(z) <=> Started(x), QueueLive'
  PROVE  Kept'
<1>1. BusyUsed' /\ FewInFlight'
  BY StepOfOne DEF cache
<1>2. BlobKept'
  BY DEF Kept, BlobKept, cache, store, Started
<1>3. StagesUsed'
  BY DEF Kept, StagesUsed, cache
<1> QED
  BY <1>1, <1>2, <1>3 DEF Kept

\* The queue, when the exchange that goes on is not in it.
LEMMA QueueKept ==
  ASSUME Kept, NEW x \in xs, NEW more, xs' = (xs \ {x}) \cup more, x.host # "queued", UNCHANGED hq
  PROVE  QueueLive'
BY DEF Kept, QueueLive

LEMMA StreamKept ==
  ASSUME IInv, Kept, NEW x \in xs, Load(x) \/ Repack(x)
  PROVE  Kept'
<1>1. x \in Exchange /\ Started(x) /\ x.host = "done"
  BY DEF IInv, TypeOK, Owns, Load, Repack, Started
<1>2. PICK g \in {"staged", "done"} : xs' = (xs \ {x}) \cup {[x EXCEPT !.gpu = g]}
  BY DEF Load, Repack
<1> DEFINE z == [x EXCEPT !.gpu = g]
<1>3. z.in = x.in /\ z.out = x.out /\ z.blob = x.blob /\ z.stage = x.stage /\ Started(z)
  BY <1>1 DEF Exchange, Started
<1>4. UNCHANGED <<cache, store, hq>>
  BY DEF Load, Repack
<1>5. QueueLive'
  BY <1>1, <1>2, <1>4, QueueKept
<1> HIDE DEF z
<1>6. xs' = (xs \ {x}) \cup {z}
  BY <1>2 DEF z
<1> QED
  BY <1>1, <1>3, <1>4, <1>5, <1>6, AdvanceKept

LEMMA CopierKept ==
  ASSUME IInv, Kept, NEW x \in xs, CopierTake(x) \/ CopierDone(x)
  PROVE  Kept'
<1>1. x \in Exchange /\ hq \in Seq(Slots)
  BY DEF IInv, TypeOK
<1>2. PICK h \in {"copying", "done"} : xs' = (xs \ {x}) \cup {[x EXCEPT !.host = h]}
  BY DEF CopierTake, CopierDone
<1> DEFINE z == [x EXCEPT !.host = h]
<1>3. z.in = x.in /\ z.out = x.out /\ z.blob = x.blob /\ z.stage = x.stage /\ (Started(z) <=> Started(x))
  BY <1>1 DEF Exchange, Started
<1>4. UNCHANGED <<cache, store>>
  BY DEF CopierTake, CopierDone
<1> HIDE DEF z
<1>5. xs' = (xs \ {x}) \cup {z}
  BY <1>2 DEF z
<1>6. QueueLive'
  <2>1. CASE CopierDone(x)
    BY <1>5, <2>1, QueueKept DEF CopierDone
  <2>2. CASE CopierTake(x)
    <3>1. hq # <<>> /\ x.slot = Head(hq) /\ hq' = Tail(hq)
      BY <2>2 DEF CopierTake
    <3>2. /\ Tail(hq) \in Seq(Slots) /\ Len(Tail(hq)) = Len(hq) - 1 /\ Len(hq) \in Nat \ {0}
          /\ \A i \in 1..Len(Tail(hq)) : Tail(hq)[i] = hq[i + 1]
      BY <1>1, <3>1, HeadTailProperties, EmptySeq
    <3>3. DOMAIN hq = 1..Len(hq) /\ DOMAIN Tail(hq) = 1..(Len(hq) - 1) /\ Head(hq) = hq[1]
      BY <1>1, <3>1, <3>2, LenProperties
    <3>4. \A i \in DOMAIN Tail(hq) : i + 1 \in DOMAIN hq /\ i + 1 # 1 /\ 1 \in DOMAIN hq /\ Tail(hq)[i] = hq[i + 1]
      BY <3>2, <3>3
    <3>5. \A i \in DOMAIN Tail(hq) : \E y \in xs' : y.slot = Tail(hq)[i] /\ y.host = "queued"
      <4> TAKE i \in DOMAIN Tail(hq)
      <4>1. PICK y \in xs : y.slot = hq[i + 1] /\ y.host = "queued"
        BY <3>4 DEF Kept, QueueLive
      <4>2. y # x
        BY <3>1, <3>3, <3>4, <4>1 DEF Kept, QueueLive
      <4> QED
        BY <1>5, <3>4, <4>1, <4>2
    <3>6. \A i, j \in DOMAIN Tail(hq) : Tail(hq)[i] = Tail(hq)[j] => i = j
      <4> TAKE i, j \in DOMAIN Tail(hq)
      <4> HAVE Tail(hq)[i] = Tail(hq)[j]
      <4>1. i + 1 = j + 1
        BY <3>4 DEF Kept, QueueLive
      <4> QED
        BY <3>3, <4>1, <3>2
    <3> QED
      BY <3>1, <3>5, <3>6 DEF QueueLive
  <2> QED
    BY <2>1, <2>2
<1> QED
  BY <1>3, <1>4, <1>5, <1>6, AdvanceKept

LEMMA FinishKept ==
  ASSUME IInv, Kept, NEW x \in xs, Finish(x)
  PROVE  Kept'
<1>1. /\ x \in Exchange /\ Started(x) /\ x.host = "done" /\ x.stage \in Stages
      /\ index \in [Experts -> Blobs \cup {None}] /\ x.in \in Experts
  BY DEF IInv, TypeOK, Owns, Finish, Started, Exchange
<1>2. /\ index' = [index EXCEPT ![x.in] = None] /\ free' = free \cup ({index[x.in]} \ {None})
      /\ busy' = busy \ {x.in, x.out} /\ stage_free' = stage_free \cup {x.stage}
      /\ xs' = (xs \ {x}) \cup {} /\ UNCHANGED hq
  BY DEF Finish, Release, ClearBusy, GiveStage
<1>3. BlobKept'
  <2> SUFFICES ASSUME NEW b \in Blobs
               PROVE  b \in free' \/ (\E e \in Experts : index'[e] = b) \/ \E y \in xs' : ~Started(y) /\ y.blob = b
    BY DEF BlobKept, Started
  <2>1. CASE b \in free
    BY <1>2, <2>1
  <2>2. ASSUME NEW e \in Experts, index[e] = b
        PROVE  b \in free' \/ \E f \in Experts : index'[f] = b
    <3>1. b # None
      OBVIOUS
    <3> QED
      BY <1>1, <1>2, <2>2, <3>1
  <2>3. ASSUME NEW y \in xs, ~Started(y), y.blob = b
        PROVE  \E w \in xs' : ~Started(w) /\ w.blob = b
    BY <1>1, <1>2, <2>3
  <2> QED
    BY <2>1, <2>2, <2>3 DEF Kept, BlobKept
<1>4. StagesUsed' /\ BusyUsed'
  BY <1>1, <1>2 DEF Kept, StagesUsed, BusyUsed, Involved
<1>5. FewInFlight'
  <2>1. /\ IsFiniteSet(xs) /\ Cardinality(xs) \in Nat /\ Cardinality(Stages) \in Nat
        /\ Cardinality(xs) <= Cardinality(Stages)
    BY FS_CardinalityType DEF Kept, FewInFlight
  <2>2. IsFiniteSet(xs \ {x}) /\ Cardinality(xs \ {x}) = Cardinality(xs) - 1
    BY <2>1, FS_RemoveElement
  <2> QED
    BY <1>2, <2>1, <2>2 DEF FewInFlight
<1>6. QueueLive'
  BY <1>1, <1>2, QueueKept
<1> QED
  BY <1>3, <1>4, <1>5, <1>6 DEF Kept

LEMMA StartKept ==
  ASSUME IInv, Kept, NEW x \in xs, Start(x)
  PROVE  Kept'
<1>1. PICK st \in stage_free :
        stage_free' = stage_free \ {st} /\ xs' = (xs \ {x}) \cup {[x EXCEPT !.gpu = "queued", !.stage = st]}
  BY DEF Start
<1> DEFINE z == [x EXCEPT !.gpu = "queued", !.stage = st]
<1>2. /\ x \in Exchange /\ ~Started(x) /\ x.host = "done" /\ x.stage = None /\ st \in Stages /\ x.out \in Experts
      /\ index \in [Experts -> Blobs \cup {None}] /\ slot_of[x.out] = x.slot /\ x.slot \in Slots
  BY DEF IInv, TypeOK, Owns, Start, Startable, Started, Exchange
<1>3. z.in = x.in /\ z.out = x.out /\ z.stage = st
  BY <1>2 DEF Exchange
<1> HIDE DEF z
<1>4. /\ xs' = (xs \ {x}) \cup {z} /\ UNCHANGED <<busy, free, hq>> /\ index' = [index EXCEPT ![x.out] = x.blob]
  BY <1>1 DEF Start, ServeFromHost, z
<1>5. BusyUsed' /\ FewInFlight'
  BY <1>3, <1>4, StepOfOne
<1>6. index[x.out] = None
  BY <1>2 DEF IInv, ExactlyOnePlace
<1>7. BlobKept'
  <2> SUFFICES ASSUME NEW b \in Blobs
               PROVE  b \in free' \/ (\E e \in Experts : index'[e] = b) \/ \E y \in xs' : ~Started(y) /\ y.blob = b
    BY DEF BlobKept, Started
  <2>1. CASE b \in free
    BY <1>4, <2>1
  <2>2. ASSUME NEW e \in Experts, index[e] = b
        PROVE  \E f \in Experts : index'[f] = b
    BY <1>2, <1>4, <1>6, <2>2
  <2>3. ASSUME NEW y \in xs, ~Started(y), y.blob = b
        PROVE  (\E e \in Experts : index'[e] = b) \/ \E w \in xs' : ~Started(w) /\ w.blob = b
    BY <1>2, <1>4, <2>3
  <2> QED
    BY <2>1, <2>2, <2>3 DEF Kept, BlobKept
<1>8. StagesUsed'
  BY <1>1, <1>2, <1>3, <1>4 DEF Kept, StagesUsed
<1>9. QueueLive'
  BY <1>2, <1>4, QueueKept
<1> QED
  BY <1>5, <1>7, <1>8, <1>9 DEF Kept

LEMMA PlanKept ==
  ASSUME IInv, Kept, NEW l \in Layers, Plan(l)
  PROVE  Kept'
<1>1. PICK e \in Experts, s \in Slots, b \in free :
        /\ Candidate(l, e, s) /\ TakeBlob(l, b)
        /\ xs' = xs \cup {[in |-> e, out |-> slot_expert[s], slot |-> s, blob |-> b,
                            stage |-> None, host |-> "queued", gpu |-> "none"]}
        /\ busy' = busy \cup {e, slot_expert[s]}
        /\ hq' = Append(hq, s)
  BY DEF Plan
<1> DEFINE z == [in |-> e, out |-> slot_expert[s], slot |-> s, blob |-> b, stage |-> None, host |-> "queued", gpu |-> "none"]
<1>2. z.in = e /\ z.out = slot_expert[s] /\ z.slot = s /\ z.blob = b /\ ~Started(z) /\ z.host = "queued"
  BY DEF Started
<1> HIDE DEF z
<1>3. /\ xs' = xs \cup {z} /\ free' = free \ {b} /\ busy' = busy \cup {e, slot_expert[s]} /\ hq' = Append(hq, s)
      /\ UNCHANGED <<index, stage_free>> /\ Cardinality(xs) < Cardinality(Stages) /\ slot_expert[s] \notin busy
  BY <1>1 DEF z, TakeBlob, Plan, Room, Candidate
<1>4. BlobKept' /\ StagesUsed' /\ BusyUsed'
  BY <1>2, <1>3 DEF Kept, BlobKept, StagesUsed, BusyUsed, Involved, Started
<1>5. FewInFlight'
  <2>1. IsFiniteSet(xs) /\ Cardinality(xs) \in Nat /\ Cardinality(Stages) \in Nat
    BY FS_CardinalityType DEF Kept, FewInFlight
  <2>2. /\ IsFiniteSet(xs \cup {z}) /\ Cardinality(xs \cup {z}) <= Cardinality(xs) + 1
        /\ Cardinality(xs \cup {z}) \in Nat
    BY <2>1, OneMore
  <2> QED
    BY <1>3, <2>1, <2>2 DEF FewInFlight
<1>6. \A y \in xs : y.slot # s
  <2> TAKE y \in xs
  <2>1. Owns(y) /\ y \in Exchange /\ y.in \in busy /\ y.out \in busy /\ y.out \in Experts
    BY DEF IInv, TypeOK, Owns, Exchange
  <2>2. slot_expert[y.slot] \in {y.in, y.out}
    <3>1. CASE Started(y)
      BY <2>1, <3>1 DEF Owns
    <3>2. CASE ~Started(y)
      <4>1. slot_of[y.out] = y.slot /\ y.slot \in Slots
        BY <2>1, <3>2 DEF Owns, Exchange
      <4> QED
        BY <2>1, <4>1 DEF IInv, MapAgrees
    <3> QED
      BY <3>1, <3>2
  <2> QED
    BY <1>3, <2>1, <2>2
<1>7. QueueLive'
  <2>1. /\ hq \in Seq(Slots) /\ DOMAIN hq = 1..Len(hq) /\ Len(hq) \in Nat
        /\ Append(hq, s) \in Seq(Slots) /\ Len(Append(hq, s)) = Len(hq) + 1
        /\ \A i \in 1..Len(hq) : Append(hq, s)[i] = hq[i]
        /\ Append(hq, s)[Len(hq) + 1] = s
    BY AppendProperties, LenProperties DEF IInv, TypeOK
  <2>2. DOMAIN Append(hq, s) = 1..(Len(hq) + 1)
    BY <2>1, LenProperties
  <2>3. \A i \in DOMAIN hq : hq[i] # s
    BY <1>6 DEF Kept, QueueLive
  <2>4. \A i \in DOMAIN hq' : \E y \in xs' : y.slot = hq'[i] /\ y.host = "queued"
    <3> TAKE i \in DOMAIN hq'
    <3>1. CASE i = Len(hq) + 1
      BY <1>2, <1>3, <2>1, <3>1
    <3>2. CASE i \in DOMAIN hq
      BY <1>3, <2>1, <3>2 DEF Kept, QueueLive
    <3> QED
      BY <1>3, <2>1, <2>2, <3>1, <3>2
  <2>5. \A i, j \in DOMAIN hq' : hq'[i] = hq'[j] => i = j
    BY <1>3, <2>1, <2>2, <2>3 DEF Kept, QueueLive
  <2> QED
    BY <2>4, <2>5 DEF QueueLive
<1> QED
  BY <1>4, <1>5, <1>7 DEF Kept

LEMMA NextKept == IInv /\ Kept /\ [Next]_vars => Kept'
<1> SUFFICES ASSUME IInv, Kept, [Next]_vars PROVE Kept'
  OBVIOUS
<1>1. CASE BeginForward \/ EndForward \/ EndFinish \/ EndStart \/ EndPlan
  BY <1>1, PhaseKept DEF BeginForward, EndForward, EndFinish, EndStart, EndPlan
<1>2. ASSUME NEW x \in xs, NotFinished(x) \/ NotStarted(x) PROVE Kept'
  BY <1>2, PhaseKept DEF NotFinished, NotStarted
<1>3. ASSUME NEW l \in Layers, PassOver(l) PROVE Kept'
  BY <1>3, PhaseKept DEF PassOver
<1>4. CASE UNCHANGED vars
  BY <1>4, PhaseKept DEF vars
<1> QED
  BY <1>1, <1>2, <1>3, <1>4, FinishKept, StartKept, PlanKept, CopierKept, StreamKept
     DEF Next, EngineStep, CopierStep, StreamStep

\* With nothing lost, each exchange that waits for a stage finds one: no more exchanges than stages.
LEMMA StageFound == IInv /\ Kept => StageForEvery
<1> SUFFICES ASSUME IInv, Kept, NEW x \in xs, ~Started(x), stage_free = {}
             PROVE  FALSE
  BY DEF StageForEvery
<1>1. x.stage = None
  BY DEF IInv, Owns
<1> DEFINE rest == xs \ {x}
           used == [y \in rest |-> y.stage]
<1>2. /\ IsFiniteSet(xs) /\ Cardinality(xs) \in Nat /\ Cardinality(xs) <= Cardinality(Stages)
      /\ IsFiniteSet(rest) /\ Cardinality(rest) = Cardinality(xs) - 1 /\ Cardinality(Stages) \in Nat
  BY FS_CardinalityType, FS_RemoveElement DEF Kept, FewInFlight
<1>3. \A s \in Stages : \E y \in rest : used[y] = s
  <2> TAKE s \in Stages
  <2>1. PICK y \in xs : y.stage = s
    BY DEF Kept, StagesUsed
  <2>2. y \in rest
    BY <1>1, <2>1
  <2> QED
    BY <2>1, <2>2
<1> DEFINE pick == [s \in Stages |-> CHOOSE y \in rest : used[y] = s]
<1>4. pick \in [Stages -> rest] /\ \A s \in Stages : pick[s].stage = s
  BY <1>3
<1> HIDE DEF rest, pick
<1>5. pick \in Injection(Stages, rest)
  <2>1. \A s, t \in Stages : pick[s] = pick[t] => s = t
    BY <1>4
  <2> QED
    BY <1>4, <2>1 DEF Injection, IsInjective
<1>6. Cardinality(Stages) <= Cardinality(rest)
  BY <1>2, <1>5, FS_Injection
<1> QED
  BY <1>2, <1>6

\* Each blob has one owner: StoreAgrees and the exchanges' blobs say no more than one, BlobKept no less.
LEMMA BlobsOwned == IInv /\ Kept => BlobOwners
<1> SUFFICES ASSUME IInv, Kept, NEW b \in Blobs
             PROVE  LET experts   == {e \in Experts : index[e] = b}
                        exchanges == {x \in xs : ~Started(x) /\ x.blob = b}
                    IN  Cardinality(experts) + Cardinality(exchanges) + (IF b \in free THEN 1 ELSE 0) = 1
  BY DEF BlobOwners
<1> DEFINE experts   == {e \in Experts : index[e] = b}
           exchanges == {x \in xs : ~Started(x) /\ x.blob = b}
<1>1. b # None
  OBVIOUS
<1>2. Cardinality({}) = 0 /\ \A x : Cardinality({x}) = 1
  BY FS_EmptySet, FS_Singleton
<1>3. \A e \in experts : experts = {e} /\ b \notin free
  BY <1>1 DEF IInv, StoreAgrees
<1>4. \A x \in exchanges : exchanges = {x} /\ b \notin free /\ experts = {}
  BY DEF IInv, Owns, Apart
<1>5. b \in free \/ experts # {} \/ exchanges # {}
  BY DEF Kept, BlobKept
<1> HIDE DEF experts, exchanges
<1>6. CASE exchanges # {}
  <2>1. PICK x : exchanges = {x} /\ b \notin free /\ experts = {}
    BY <1>4, <1>6
  <2>2. Cardinality(exchanges) = 1 /\ Cardinality(experts) = 0
    BY <1>2, <2>1
  <2> QED
    BY <2>1, <2>2 DEF experts, exchanges
<1>7. CASE exchanges = {} /\ experts # {}
  <2>1. PICK e : experts = {e} /\ b \notin free
    BY <1>3, <1>7
  <2>2. Cardinality(exchanges) = 0 /\ Cardinality(experts) = 1
    BY <1>2, <1>7, <2>1
  <2> QED
    BY <2>1, <2>2 DEF experts, exchanges
<1>8. CASE exchanges = {} /\ experts = {}
  <2>1. Cardinality(exchanges) = 0 /\ Cardinality(experts) = 0 /\ b \in free
    BY <1>2, <1>5, <1>8
  <2> QED
    BY <2>1 DEF experts, exchanges
<1> QED
  BY <1>6, <1>7, <1>8

\* The exchange loses nothing and shares nothing: blobs, slots, stages, busy marks and queue entries.
THEOREM BookkeepingHolds == Spec => []Bookkeeping
<1>1. Spec => [](IInv /\ Kept)
  BY InitInv, NextInv, InitKept, NextKept, PTL DEF Spec
<1>2. IInv /\ Kept => BlobOwners /\ StageForEvery /\ BusyExact /\ QueueLive
  <2>1. IInv /\ Kept => BusyExact
    BY DEF IInv, Owns, Kept, BusyUsed, BusyExact, Involved
  <2> QED
    BY <2>1, BlobsOwned, StageFound DEF Kept
<1> QED
  BY <1>1, <1>2, SlotsOwned, PTL DEF Bookkeeping
=============================================================================
