-------------------------- MODULE ServeLoop_proofs --------------------------
(* Proofs about the server loop, for any requests, slots and budgets.                                *)
EXTENDS ServeLoop, FiniteSetTheorems, SequenceTheorems, WellFoundedInduction, TLAPS

\* What the worker does once la_drain is through, or does now.
Place == IF wpc = "la_drain" THEN after ELSE wpc

\* An id is in one place: not yet read, queued once, taken, or in flight.
OncePerId ==
  /\ \A k, l \in DOMAIN queue : queue[k] = queue[l] => k = l
  /\ \A k \in DOMAIN queue : queue[k] \in sent /\ queue[k] \notin active /\ queue[k] # head
  /\ active \subseteq sent /\ head \notin active /\ (head # None => head \in sent)

\* A request has a slot from its admission to its end.
HeadAdmitted == head \in Reqs /\ slot[head] # None
HeadWaits == head \in Ids /\ (head \in Reqs => slot[head] = None)

SlotsHeld ==
  /\ \A r \in active : slot[r] # None
  /\ \A r \in Reqs : slot[r] # None => r \in active \/ r = head
  /\ Place \in {"main", "step_drain"} => head = None
  /\ Place \in {"pipe_drain", "dispatch"} => HeadWaits
  /\ Place \in {"reading", "between"} => HeadAdmitted
  /\ Place = "batch" => head = None \/ HeadAdmitted

\* The pipeline runs from the main loop only.
PipeHeld ==
  /\ piped <=> mid # -1
  /\ piped => wpc \in {"main", "pipe_drain", "step_drain", "exit"}

\* Half-done windows: of one request alone, or with la_drain, which has them all before it.
HalfDoneHeld ==
  /\ pending \subseteq active /\ (wpc = "la_drain" => todo \subseteq active)
  /\ wpc = "la_drain" => pending \subseteq undrained \cup todo
  /\ wpc \in {"main", "pipe_drain", "step_drain", "between"} => pending \subseteq undrained \/ \E r \in active : active = {r}

\* No answer is given while one is still owed.
Owed(i) == i \notin sent \/ i \in ToSet(queue) \/ i \in active \/ i = head
NoAnswerYet == \A i \in Ids \ undrained : Owed(i) => ~Answered(i)

\* An id's messages end with its answer, if it has one.
Ended(i) == \A k \in DOMAIN told[i] : told[i][k] \in Answers => k = Len(told[i])

IInv ==
  /\ TypeOK /\ OncePerId /\ SlotsHeld /\ SlotsExclusive
  /\ PipeHeld /\ LanesHold /\ HalfDoneHeld /\ HalfDoneAlone
  /\ NoAnswerYet /\ AnsweredOnce

-----------------------------------------------------------------------------
(* Sequences of messages *)

Quiet(s) == \A k \in DOMAIN s : s[k] \notin Answers
EndsWithAnswer(s) == \A k \in DOMAIN s : s[k] \in Answers => k = Len(s)

LEMMA AppendAnswer ==
  ASSUME NEW said \in Seq(Messages), NEW m \in Messages
  PROVE  /\ Append(said, m) \in Seq(Messages) /\ said \o <<m>> = Append(said, m)
         /\ Quiet(said) => EndsWithAnswer(Append(said, m))
         /\ Quiet(said) /\ m \notin Answers => Quiet(Append(said, m))
BY AppendProperties, AppendIsConcat DEF Quiet, EndsWithAnswer

LEMMA TokensQuiet ==
  ASSUME NEW said \in Seq(Messages), NEW r, NEW o
  PROVE  WithTokens(said, r, o) \in Seq(Messages) /\ (Quiet(said) => Quiet(WithTokens(said, r, o)))
<1> DEFINE m == IF r \in stop THEN "late" ELSE "tokens"
<1>1. m \in Messages \ Answers
  BY DEF Messages, Answers
<1>2. WithTokens(said, r, o) \in {said, Append(said, m)}
  BY DEF WithTokens
<1> QED
  BY <1>1, <1>2, AppendAnswer

LEMMA MinOfTwo ==
  ASSUME NEW a \in Nat, NEW b \in Nat
  PROVE  Min({a, b}) \in Nat
BY DEF Min

\* An id leaves the queue, whose other ids stay in order.
LEMMA WithoutQueue ==
  ASSUME NEW q \in Seq(Ids), NEW i, \A k, l \in DOMAIN q : q[k] = q[l] => k = l
  PROVE  /\ Without(q, i) \in Seq(Ids) /\ ToSet(Without(q, i)) \subseteq ToSet(q)
         /\ \A k, l \in DOMAIN Without(q, i) : Without(q, i)[k] = Without(q, i)[l] => k = l
<1>1. CASE i \notin ToSet(q)
  BY <1>1 DEF Without
<1>2. CASE i \in ToSet(q)
  <2> DEFINE k0 == CHOOSE k \in DOMAIN q : q[k] = i
             w == Without(q, i)
  <2>1. k0 \in 1..Len(q)
    BY <1>2 DEF ToSet
  <2>2. w = SubSeq(q, 1, k0 - 1) \o SubSeq(q, k0 + 1, Len(q))
    BY <1>2 DEF Without, RemoveAt
  <2> HIDE DEF k0
  <2> DEFINE a == SubSeq(q, 1, k0 - 1)
             b == SubSeq(q, k0 + 1, Len(q))
  <2>3. /\ a \in Seq(Ids) /\ Len(a) = k0 - 1
        /\ \A k \in 1..k0 - 1 : a[k] = q[k]
    BY <2>1, SubSeqProperties, LenProperties
  <2>4. /\ b \in Seq(Ids) /\ Len(b) = Len(q) - k0
        /\ \A k \in 1..Len(q) - k0 : b[k] = q[k + k0]
    <3>1. \A k \in k0 + 1..Len(q) : q[k] \in Ids
      BY <2>1, LenProperties
    <3>2. Len(q) \in Nat /\ k0 + 1 \in Int
      BY <2>1, LenProperties
    <3> QED
      BY <2>1, <3>1, <3>2, SubSeqProperties
  <2> HIDE DEF a, b
  <2>5. /\ w \in Seq(Ids) /\ Len(w) = Len(q) - 1
        /\ \A k \in 1..Len(w) : w[k] = IF k < k0 THEN q[k] ELSE q[k + 1]
    <3>1. w = a \o b
      BY <2>2 DEF a, b
    <3> HIDE DEF w
    <3>2. /\ w \in Seq(Ids) /\ Len(w) = Len(a) + Len(b)
          /\ \A k \in 1..Len(a) + Len(b) : w[k] = IF k <= Len(a) THEN a[k] ELSE b[k - Len(a)]
      BY <2>3, <2>4, <3>1, ConcatProperties
    <3>3. Len(q) \in Nat /\ Len(w) = Len(q) - 1
      BY <2>1, <2>3, <2>4, <3>2, LenProperties
    <3>4. ASSUME NEW k \in 1..Len(w)
          PROVE  w[k] = IF k < k0 THEN q[k] ELSE q[k + 1]
      <4>1. CASE k < k0
        BY <2>1, <2>3, <2>4, <3>2, <3>3, <4>1
      <4>2. CASE k >= k0
        <5>1. w[k] = b[k - Len(a)] /\ k - Len(a) = k - k0 + 1 /\ k - k0 + 1 \in 1..Len(q) - k0
          BY <2>1, <2>3, <2>4, <3>2, <3>3, <4>2
        <5>2. b[k - k0 + 1] = q[(k - k0 + 1) + k0] /\ (k - k0 + 1) + k0 = k + 1
          BY <2>1, <2>4, <3>3, <5>1
        <5> QED
          BY <2>1, <4>2, <5>1, <5>2
      <4> QED
        BY <2>1, <4>1, <4>2
    <3> QED
      BY <3>2, <3>3, <3>4
  <2> HIDE DEF w
  <2>6. DOMAIN w = 1..Len(w) /\ DOMAIN q = 1..Len(q) /\ Len(q) \in Nat
    BY <2>5, LenProperties
  <2>7. \A k \in DOMAIN w : (IF k < k0 THEN k ELSE k + 1) \in DOMAIN q
    BY <2>1, <2>5, <2>6
  <2>8. ToSet(w) \subseteq ToSet(q)
    BY <2>1, <2>5, <2>6, <2>7 DEF ToSet
  <2>9. \A k, l \in DOMAIN w : w[k] = w[l] => k = l
    <3> SUFFICES ASSUME NEW k \in DOMAIN w, NEW l \in DOMAIN w, w[k] = w[l] PROVE k = l
      OBVIOUS
    <3> DEFINE At(x) == IF x < k0 THEN x ELSE x + 1
    <3>1. w[k] = q[At(k)] /\ w[l] = q[At(l)]
      BY <2>5, <2>6
    <3>2. At(k) \in DOMAIN q /\ At(l) \in DOMAIN q
      BY <2>7
    <3>3. At(k) = At(l)
      BY <2>1, <3>1, <3>2
    <3> QED
      BY <2>1, <2>6, <3>3
  <2> QED
    BY <2>5, <2>8, <2>9 DEF w
<1> QED
  BY <1>1, <1>2

-----------------------------------------------------------------------------
(* A round is delivered *)

\* What the round's messages do: nothing to the others, at most one answer, which ends the request.
ToldToRound(rs) ==
  /\ \A i \in Ids \ rs : told'[i] = told[i]
  /\ \A i \in rs : ~Answered(i) => Ended(i)' /\ (i \in active' => ~Answered(i)')

LEMMA Delivered ==
  ASSUME IInv, NEW rs \in SUBSET active, NEW leavers \in SUBSET rs, NEW half \in SUBSET active,
         DeliverRound(rs, leavers, half)
  PROVE  /\ active' \subseteq active /\ active \ active' \subseteq leavers
         /\ stop' \in SUBSET Reqs /\ produced' \in [Reqs -> Nat] /\ cancelled' \in SUBSET Ids
         /\ busy' \in SUBSET Slots
         /\ slot' \in [Reqs -> Slots \cup {None}]
         /\ \A r \in Reqs : slot'[r] = IF r \in active \ active' THEN None ELSE slot[r]
         /\ pending' \subseteq ((pending \ rs) \cup half) \cap active'
         /\ told' \in [Ids -> Seq(Messages)] /\ ToldToRound(rs)
<1> USE ServeAssumption DEF IInv, TypeOK
<1>1. PICK o \in [rs -> Outcomes] :
        LET stopped == StopAfter(rs, o)
            leave   == Leaving(leavers, stopped)
        IN  /\ told' = [i \in Ids |-> (IF i \in rs THEN WithTokens(told[i], i, o[i]) ELSE told[i])
                                       \o (IF i \in leave THEN <<"done">> ELSE <<>>)]
            /\ produced' = [r \in Reqs |-> IF r \in rs THEN Min({MaxTokens[r], produced[r] + 1}) ELSE produced[r]]
            /\ stop' = stopped \ leave
            /\ active' = Remaining(leave)
            /\ slot' = [r \in Reqs |-> IF r \in active \ active' THEN None ELSE slot[r]]
            /\ pending' = ((pending \ rs) \cup half) \ leave
            /\ cancelled' = cancelled \ leave
            /\ IF leave = {} THEN UNCHANGED busy ELSE MarkBusy(active')
  BY DEF DeliverRound
<1> DEFINE stopped == StopAfter(rs, o)
           leave == Leaving(leavers, stopped)
<1>0. /\ told' = [i \in Ids |-> (IF i \in rs THEN WithTokens(told[i], i, o[i]) ELSE told[i])
                                  \o (IF i \in leave THEN <<"done">> ELSE <<>>)]
      /\ produced' = [r \in Reqs |-> IF r \in rs THEN Min({MaxTokens[r], produced[r] + 1}) ELSE produced[r]]
      /\ stop' = stopped \ leave
      /\ active' = Remaining(leave)
      /\ slot' = [r \in Reqs |-> IF r \in active \ active' THEN None ELSE slot[r]]
      /\ pending' = ((pending \ rs) \cup half) \ leave
      /\ cancelled' = cancelled \ leave
      /\ busy' = busy \/ busy' = SlotsOf(active')
  BY <1>1 DEF MarkBusy
<1>2. stopped \subseteq Reqs /\ leave \subseteq leavers
  BY DEF StopAfter, Leaving
<1>3. active' = active \ leave
  BY <1>0 DEF Remaining
<1> HIDE DEF stopped, leave
<1>4. stop' \in SUBSET Reqs /\ cancelled' \in SUBSET Ids /\ pending' \subseteq ((pending \ rs) \cup half) \cap active'
  BY <1>0, <1>2, <1>3 DEF HalfDoneHeld
<1>5. slot' \in [Reqs -> Slots \cup {None}] /\ \A r \in Reqs : slot'[r] = IF r \in active \ active' THEN None ELSE slot[r]
  BY <1>0
<1>6. busy' \in SUBSET Slots
  <2>1. \A r \in active' : slot[r] \in Slots
    BY <1>3 DEF SlotsHeld
  <2>2. \A r \in active' : slot'[r] = slot[r]
    BY <1>3, <1>5
  <2>3. SlotsOf(active') = {slot[r] : r \in active'}
    BY DEF SlotsOf
  <2>4. SlotsOf(active') \subseteq Slots
    BY <2>1, <2>3
  <2> QED
    BY <1>0, <2>4
<1>7. produced' \in [Reqs -> Nat]
  <2>1. \A r \in Reqs : Min({MaxTokens[r], produced[r] + 1}) \in Nat
    <3> TAKE r \in Reqs
    <3>1. MaxTokens[r] \in Nat /\ produced[r] + 1 \in Nat
      OBVIOUS
    <3> QED
      BY <3>1, MinOfTwo
  <2> QED
    BY <1>0, <2>1
<1>8. ASSUME NEW i \in Ids
      PROVE  /\ told'[i] \in Seq(Messages)
             /\ i \notin rs => told'[i] = told[i]
             /\ i \in rs /\ Quiet(told[i]) => EndsWithAnswer(told'[i]) /\ (i \in active' => Quiet(told'[i]))
  <2> DEFINE said == IF i \in rs THEN WithTokens(told[i], i, o[i]) ELSE told[i]
  <2>1. said \in Seq(Messages) /\ (Quiet(told[i]) => Quiet(said)) /\ (i \notin rs => said = told[i])
    BY TokensQuiet
  <2>2. told'[i] = said \o (IF i \in leave THEN <<"done">> ELSE <<>>)
    BY <1>0
  <2>3. said \o <<>> = said
    BY <2>1, ConcatEmptySeq
  <2> HIDE DEF said
  <2>4. "done" \in Messages /\ (Quiet(said) => EndsWithAnswer(said))
    BY DEF Messages, Quiet, EndsWithAnswer
  <2>5. i \in leave => i \in rs /\ i \notin active'
    BY <1>2, <1>3
  <2>6. CASE i \in leave
    <3>1. told'[i] = said \o <<"done">>
      BY <2>2, <2>6
    <3>2. /\ Append(said, "done") \in Seq(Messages) /\ said \o <<"done">> = Append(said, "done")
          /\ Quiet(said) => EndsWithAnswer(Append(said, "done"))
      <4> HIDE ServeAssumption DEF IInv, TypeOK
      <4> QED
        BY <2>1, <2>4, AppendAnswer
    <3> QED
      BY <2>1, <2>5, <2>6, <3>1, <3>2
  <2>7. CASE i \notin leave
    BY <2>1, <2>2, <2>3, <2>4, <2>7
  <2> QED
    BY <2>6, <2>7
<1>9. told' \in [Ids -> Seq(Messages)]
  BY <1>0, <1>8
<1> HIDE ServeAssumption DEF IInv, TypeOK
<1>10. rs \subseteq Ids
  BY DEF IInv, TypeOK, Ids
<1>11. ToldToRound(rs)
  BY <1>8, <1>10 DEF ToldToRound, Quiet, EndsWithAnswer, Answered, Ended
<1>12. active' \subseteq active /\ active \ active' \subseteq leavers
  BY <1>2, <1>3
<1> QED
  BY <1>4, <1>5, <1>6, <1>7, <1>9, <1>11, <1>12
-----------------------------------------------------------------------------
(* What is told, by any step *)

LEMMA ToldKept ==
  ASSUME NoAnswerYet, AnsweredOnce, undrained \subseteq undrained',
         \A i \in Ids : Owed(i)' => Owed(i),
         \A i \in Ids \ undrained' :
           \/ told'[i] = told[i]
           \/ Owed(i) /\ (~Answered(i) => Ended(i)' /\ (Owed(i)' => ~Answered(i)'))
  PROVE  NoAnswerYet' /\ AnsweredOnce'
<1> SUFFICES ASSUME NEW i \in Ids \ undrained'
             PROVE  (Owed(i)' => ~Answered(i)') /\ Ended(i)'
  BY DEF NoAnswerYet, AnsweredOnce, Ended
<1>1. (Owed(i) => ~Answered(i)) /\ Ended(i)
  BY DEF NoAnswerYet, AnsweredOnce, Ended
<1>2. told'[i] = told[i] => (Ended(i)' <=> Ended(i)) /\ (Answered(i)' <=> Answered(i))
  BY DEF Ended, Answered
<1> QED
  BY <1>1, <1>2

\* What the requests in flight, the queue and the head keep to when some requests leave.
RequestsKept ==
  /\ OncePerId' /\ SlotsExclusive' /\ NoAnswerYet' /\ AnsweredOnce'
  /\ stop' \in SUBSET Reqs /\ produced' \in [Reqs -> Nat] /\ cancelled' \in SUBSET Ids
  /\ slot' \in [Reqs -> Slots \cup {None}] /\ told' \in [Ids -> Seq(Messages)]
  /\ active' \subseteq active
  /\ \A r \in active' : slot'[r] # None
  /\ \A r \in Reqs : slot'[r] # None => r \in active' \/ r = head'
  /\ (HeadAdmitted' <=> HeadAdmitted) /\ (HeadWaits' <=> HeadWaits)

\* What delivering a round keeps, whoever is in it.
LEMMA DeliveredKeeps ==
  ASSUME IInv, NEW rs \in SUBSET active, NEW leavers \in SUBSET rs, NEW half \in SUBSET active,
         DeliverRound(rs, leavers, half), UNCHANGED <<sent, queue, head, undrained>>
  PROVE  /\ RequestsKept
         /\ pending' \subseteq ((pending \ rs) \cup half) \cap active'
         /\ active \ active' \subseteq leavers /\ busy' \in SUBSET Slots
<1>0. ToldToRound(rs)
  BY Delivered
<1>1. active' \subseteq active /\ \A r \in Reqs : slot'[r] = IF r \in active \ active' THEN None ELSE slot[r]
  BY Delivered
<1> USE DEF IInv
<1>2. OncePerId'
  BY <1>1 DEF OncePerId
<1>3. head \in Reqs => slot'[head] = slot[head]
  BY <1>1 DEF OncePerId
<1>4. InFlight' \subseteq InFlight /\ \A r \in InFlight' : slot'[r] = slot[r]
  BY <1>1, <1>3 DEF InFlight, Reading, TypeOK
<1>5. SlotsExclusive'
  BY <1>4 DEF SlotsExclusive
<1>6. NoAnswerYet' /\ AnsweredOnce'
  <2>1. \A i \in Ids : Owed(i)' => Owed(i)
    BY <1>1 DEF Owed
  <2>2. \A i \in Ids \ rs : told'[i] = told[i]
    BY <1>0 DEF ToldToRound
  <2>3. \A i \in rs : Owed(i) /\ (~Answered(i) => Ended(i)' /\ (i \in active' => ~Answered(i)'))
    BY <1>0 DEF ToldToRound, Owed
  <2>4. \A i \in rs : Owed(i)' => i \in active'
    BY DEF Owed, OncePerId, ToSet
  <2> HIDE DEF IInv
  <2>5. \A i \in Ids \ undrained' :
          \/ told'[i] = told[i]
          \/ Owed(i) /\ (~Answered(i) => Ended(i)' /\ (Owed(i)' => ~Answered(i)'))
    BY <2>2, <2>3, <2>4
  <2>6. NoAnswerYet /\ AnsweredOnce
    BY DEF IInv
  <2> QED
    BY <2>1, <2>5, <2>6, ToldKept
<1>7. /\ \A r \in active' : slot'[r] # None
      /\ \A r \in Reqs : slot'[r] # None => r \in active' \/ r = head'
  BY <1>1 DEF SlotsHeld, TypeOK
<1>8. (HeadAdmitted' <=> HeadAdmitted) /\ (HeadWaits' <=> HeadWaits)
  BY <1>3 DEF HeadAdmitted, HeadWaits
<1>10. /\ stop' \in SUBSET Reqs /\ produced' \in [Reqs -> Nat] /\ cancelled' \in SUBSET Ids
       /\ slot' \in [Reqs -> Slots \cup {None}] /\ told' \in [Ids -> Seq(Messages)]
  BY Delivered
<1>11. /\ pending' \subseteq ((pending \ rs) \cup half) \cap active'
       /\ active \ active' \subseteq leavers /\ busy' \in SUBSET Slots
  BY Delivered
<1> HIDE DEF IInv
<1> QED
  BY <1>1, <1>2, <1>5, <1>6, <1>7, <1>8, <1>10, <1>11 DEF RequestsKept
-----------------------------------------------------------------------------
(* How many are in flight *)

LEMMA ActiveFinite ==
  ASSUME IInv
  PROVE  /\ IsFiniteSet(active) /\ Cardinality(active) \in Nat
         /\ \A r \in active : slot[r] \in Slots
         /\ \A r, q \in active : slot[r] = slot[q] => r = q
<1> USE ServeAssumption DEF IInv
<1>1. \A r \in active : slot[r] \in Slots
  BY DEF SlotsHeld, TypeOK
<1>2. \A r, q \in active : slot[r] = slot[q] => r = q
  BY DEF SlotsExclusive, InFlight
<1> DEFINE f == [r \in active |-> slot[r]]
<1>3. f \in Injection(active, Slots)
  BY <1>1, <1>2 DEF Injection, IsInjective
<1> HIDE DEF f
<1>4. IsFiniteSet(active)
  BY <1>3, FS_Injection
<1> QED
  BY <1>1, <1>2, <1>4, FS_CardinalityType

LEMMA OneAlone ==
  ASSUME IInv, Cardinality(active) = 1
  PROVE  \E r \in active : active = {r}
BY ActiveFinite, FS_Singleton

LEMMA NotAlone ==
  ASSUME IInv, Cardinality(active) >= 2
  PROVE  active # {} /\ \A r \in active : active # {r}
<1>1. Cardinality(active) # 0 /\ Cardinality(active) # 1
  BY ActiveFinite
<1>2. active # {}
  BY <1>1, FS_EmptySet
<1>3. \A r \in active : active # {r}
  BY <1>1, FS_Singleton
<1> QED
  BY <1>2, <1>3

\* A set of natural numbers has a least element.
LEMMA LeastNumber ==
  ASSUME NEW T \in SUBSET Nat, T # {}
  PROVE  \E x \in T : \A y \in T : x <= y
<1>1. PICK x \in T : \A y \in T : <<y, x>> \notin OpToRel(<, Nat)
  BY NatLessThanWellFounded, WFMin
<1>2. ASSUME NEW y \in T
      PROVE  x <= y
  <2>1. <<y, x>> \in Nat \X Nat /\ x \in Nat /\ y \in Nat
    OBVIOUS
  <2>2. ~(y < x)
    BY <1>1, <2>1 DEF OpToRel
  <2> QED
    BY <2>1, <2>2
<1> QED
  BY <1>2

LEMMA LeastSlot ==
  ASSUME IInv, NEW rs \in SUBSET active, rs # {}
  PROVE  \E r \in rs : \A q \in rs : slot[r] <= slot[q]
<1> DEFINE T == {slot[r] : r \in rs}
<1>0. \A r \in rs : slot[r] \in Nat
  BY ActiveFinite, ServeAssumption
<1>1. T \in SUBSET Nat /\ T # {}
  BY <1>0
<1>2. PICK x \in T : \A y \in T : x <= y
  BY <1>1, LeastNumber
<1> QED
  BY <1>2

\* Two requests or more make two lanes, each with one at least.
LEMMA LanesFormed ==
  ASSUME IInv, Cardinality(active) >= 2
  PROVE  /\ FormLanes \in [{0, 1} -> SUBSET active]
         /\ FormLanes[0] \cup FormLanes[1] = active /\ FormLanes[0] \cap FormLanes[1] = {}
         /\ FormLanes[0] # {} /\ FormLanes[1] # {}
<1> DEFINE Below(r) == {q \in active : slot[q] < slot[r]}
           rank(r) == Cardinality(Below(r))
<1>1. FormLanes = [l \in {0, 1} |-> {r \in active : rank(r) % 2 = l}]
  BY DEF FormLanes
<1>2. \A r \in active : rank(r) % 2 \in {0, 1}
  <2> TAKE r \in active
  <2>1. Below(r) \in SUBSET active
    OBVIOUS
  <2>2. rank(r) \in Nat
    BY <2>1, ActiveFinite, FS_Subset, FS_CardinalityType
  <2> QED
    BY <2>2
<1>3. PICK r0 \in active : \A q \in active : slot[r0] <= slot[q]
  BY LeastSlot, NotAlone
<1>4. active \ {r0} # {}
  BY NotAlone
<1>5. PICK r1 \in active \ {r0} : \A q \in active \ {r0} : slot[r1] <= slot[q]
  BY <1>4, LeastSlot
<1>6. \A r \in active : slot[r] \in Nat
  BY ActiveFinite, ServeAssumption
<1>7. rank(r0) = 0
  <2>1. Below(r0) = {}
    BY <1>3, <1>6
  <2> QED
    BY <2>1, FS_EmptySet
<1>8. rank(r1) = 1
  <2>1. slot[r0] # slot[r1]
    BY <1>5, ActiveFinite
  <2>2. Below(r1) = {r0}
    BY <1>3, <1>5, <1>6, <2>1
  <2> QED
    BY <2>2, FS_Singleton
<1> HIDE DEF rank
<1>9. 0 % 2 = 0 /\ 1 % 2 = 1
  OBVIOUS
<1>10. r0 \in FormLanes[0] /\ r1 \in FormLanes[1]
  BY <1>1, <1>7, <1>8, <1>9
<1> QED
  BY <1>1, <1>2, <1>10
-----------------------------------------------------------------------------
(* The reader's steps *)

LEMMA FrameKept ==
  ASSUME IInv, UNCHANGED <<control, flight, pipe, ghost>>
  PROVE  SlotsHeld' /\ SlotsExclusive' /\ PipeHeld' /\ LanesHold' /\ HalfDoneHeld' /\ HalfDoneAlone'
<1> USE DEF IInv, control, flight, pipe, ghost
<1>1. SlotsHeld'
  BY DEF SlotsHeld, Place, HeadWaits, HeadAdmitted
<1>2. SlotsExclusive'
  BY DEF SlotsExclusive, InFlight, Reading
<1>3. PipeHeld' /\ LanesHold'
  BY DEF PipeHeld, LanesHold
<1>4. HalfDoneHeld' /\ HalfDoneAlone'
  BY DEF HalfDoneHeld, HalfDoneAlone
<1> QED
  BY <1>1, <1>2, <1>3, <1>4

LEMMA ReadRequestKeeps ==
  ASSUME IInv, NEW i \in Ids, ReadRequest(i)
  PROVE  IInv'
<1> USE ServeAssumption DEF IInv, ReadRequest, control, flight, pipe, ghost
<1>1. /\ queue' \in Seq(Ids) /\ Len(queue') = Len(queue) + 1
      /\ \A k \in 1..Len(queue) : queue'[k] = queue[k]
      /\ queue'[Len(queue) + 1] = i
  BY AppendProperties DEF TypeOK
<1>2. /\ DOMAIN queue = 1..Len(queue) /\ Len(queue) \in Nat
      /\ DOMAIN queue' = 1..Len(queue) + 1
  BY <1>1, LenProperties DEF TypeOK
<1>3. i \notin sent /\ sent' = sent \cup {i} /\ UNCHANGED <<head, active, told, undrained, slot>>
  OBVIOUS
<1>4. \A k \in DOMAIN queue' : (k \in DOMAIN queue /\ queue'[k] = queue[k]) \/ (k = Len(queue) + 1 /\ queue'[k] = i)
  BY <1>1, <1>2
<1>5. TypeOK'
  BY <1>1, <1>3 DEF TypeOK
<1>6. OncePerId'
  <2>1. \A k \in DOMAIN queue : queue[k] # i
    BY <1>3 DEF OncePerId
  <2>2. \A k, l \in DOMAIN queue' : queue'[k] = queue'[l] => k = l
    BY <1>4, <2>1 DEF OncePerId
  <2>3. i \notin active /\ i # head
    BY <1>3 DEF OncePerId, TypeOK
  <2>4. \A k \in DOMAIN queue' : queue'[k] \in sent' /\ queue'[k] \notin active /\ queue'[k] # head
    BY <1>3, <1>4, <2>3 DEF OncePerId
  <2> QED
    BY <1>3, <2>2, <2>4 DEF OncePerId
<1>7. NoAnswerYet' /\ AnsweredOnce'
  <2>1. ToSet(queue') \subseteq ToSet(queue) \cup {i}
    BY <1>4 DEF ToSet
  <2>2. \A j \in Ids : Owed(j)' => Owed(j)
    BY <1>3, <2>1 DEF Owed
  <2> QED
    BY <1>3, <2>2 DEF NoAnswerYet, AnsweredOnce, Answered
<1>0. IInv /\ UNCHANGED <<control, flight, pipe, ghost>>
  OBVIOUS
<1> HIDE ServeAssumption DEF IInv, ReadRequest, control, flight, pipe, ghost
<1>8. SlotsHeld' /\ SlotsExclusive' /\ PipeHeld' /\ LanesHold' /\ HalfDoneHeld' /\ HalfDoneAlone'
  BY <1>0, FrameKept
<1> QED
  BY <1>5, <1>6, <1>7, <1>8 DEF IInv

LEMMA ReadCancelKeeps ==
  ASSUME IInv, NEW i \in Ids, ReadCancel(i)
  PROVE  IInv'
<1> USE DEF IInv, ReadCancel, control, flight, pipe, ghost
<1>1. /\ queue' \in Seq(Ids) /\ ToSet(queue') \subseteq ToSet(queue)
      /\ \A k, l \in DOMAIN queue' : queue'[k] = queue'[l] => k = l
  BY WithoutQueue DEF TypeOK, OncePerId
<1>2. UNCHANGED <<sent, head, active, told, undrained, slot>>
  OBVIOUS
<1>3. TypeOK'
  BY <1>1 DEF TypeOK
<1>4. OncePerId'
  <2>1. \A k \in DOMAIN queue' : \E l \in DOMAIN queue : queue'[k] = queue[l]
    BY <1>1 DEF ToSet
  <2>2. \A k \in DOMAIN queue' : queue'[k] \in sent /\ queue'[k] \notin active /\ queue'[k] # head
    BY <2>1 DEF OncePerId
  <2> QED
    BY <1>1, <1>2, <2>2 DEF OncePerId
<1>5. NoAnswerYet' /\ AnsweredOnce'
  <2>1. \A j \in Ids : Owed(j)' => Owed(j)
    BY <1>1, <1>2 DEF Owed
  <2> QED
    BY <1>2, <2>1 DEF NoAnswerYet, AnsweredOnce, Answered
<1>0. IInv /\ UNCHANGED <<control, flight, pipe, ghost>>
  OBVIOUS
<1> HIDE DEF IInv, ReadCancel, control, flight, pipe, ghost
<1>6. SlotsHeld' /\ SlotsExclusive' /\ PipeHeld' /\ LanesHold' /\ HalfDoneHeld' /\ HalfDoneAlone'
  BY <1>0, FrameKept
<1> QED
  BY <1>3, <1>4, <1>5, <1>6 DEF IInv

\* The steps that leave the requests as they are.
Still == UNCHANGED <<sent, queue, head, active, slot, told, undrained>>

LEMMA StillKeeps ==
  ASSUME IInv, Still
  PROVE  OncePerId' /\ SlotsExclusive' /\ NoAnswerYet' /\ AnsweredOnce'
BY DEF IInv, Still, OncePerId, SlotsExclusive, InFlight, Reading, NoAnswerYet, AnsweredOnce, Answered, Owed

LEMMA ReadQuitKeeps ==
  ASSUME IInv, ReadQuit
  PROVE  IInv'
<1>1. Still
  BY DEF ReadQuit, Still, control, flight, ghost
<1>2. TypeOK'
  BY DEF IInv, ReadQuit, control, flight, pipe, ghost, TypeOK
<1>3. SlotsHeld' /\ PipeHeld' /\ LanesHold' /\ HalfDoneHeld' /\ HalfDoneAlone'
  BY FrameKept DEF ReadQuit
<1> QED
  BY <1>1, <1>2, <1>3, StillKeeps DEF IInv

-----------------------------------------------------------------------------
(* The worker's steps: the main loop *)

LEMMA TakeHeadKeeps ==
  ASSUME IInv, TakeHead
  PROVE  IInv'
<1> USE DEF IInv, TakeHead, flight, pipe, ghost
<1>1. queue # <<>> /\ head = None
  BY DEF Takeable, SlotsHeld, Place
<1>2. /\ queue' \in Seq(Ids) /\ Len(queue') = Len(queue) - 1 /\ head' \in Ids
      /\ \A k \in 1..Len(queue') : queue'[k] = queue[k + 1]
  BY <1>1, HeadTailProperties DEF TypeOK
<1>3. DOMAIN queue = 1..Len(queue) /\ Len(queue) \in Nat \ {0} /\ DOMAIN queue' = 1..Len(queue) - 1
  BY <1>1, <1>2, LenProperties, EmptySeq DEF TypeOK
<1>4. head' = queue[1] /\ 1 \in DOMAIN queue
  BY <1>3
<1>5. \A k \in DOMAIN queue' : k + 1 \in DOMAIN queue /\ queue'[k] = queue[k + 1] /\ k + 1 # 1
  BY <1>2, <1>3
<1>6. UNCHANGED <<sent, active, told, undrained, slot>>
  OBVIOUS
<1>7. TypeOK'
  BY <1>2 DEF TypeOK
<1>8. OncePerId'
  <2>1. \A k, l \in DOMAIN queue' : queue'[k] = queue'[l] => k = l
    BY <1>3, <1>5 DEF OncePerId
  <2>2. \A k \in DOMAIN queue' : queue'[k] \in sent /\ queue'[k] \notin active /\ queue'[k] # head'
    BY <1>4, <1>5 DEF OncePerId
  <2>3. head' \in sent /\ head' \notin active
    BY <1>4 DEF OncePerId
  <2> QED
    BY <1>6, <2>1, <2>2, <2>3 DEF OncePerId
<1>9. NoAnswerYet' /\ AnsweredOnce'
  <2>1. ToSet(queue') \cup {head'} \subseteq ToSet(queue)
    BY <1>4, <1>5 DEF ToSet
  <2>2. \A j \in Ids : Owed(j)' => Owed(j)
    BY <1>6, <2>1 DEF Owed
  <2> QED
    BY <1>6, <2>2 DEF NoAnswerYet, AnsweredOnce, Answered
<1>10. head' \in Reqs => slot[head'] = None
  BY <1>4, <1>1, ServeAssumption DEF SlotsHeld, OncePerId, Ids
<1>11. SlotsHeld'
  <2>1. \A r \in Reqs : slot[r] # None => r \in active
    BY <1>1, ServeAssumption DEF SlotsHeld, Ids
  <2>2. Place' = "pipe_drain" /\ HeadWaits'
    BY <1>2, <1>6, <1>10 DEF Place, HeadWaits
  <2> QED
    BY <1>6, <2>1, <2>2 DEF SlotsHeld
<1>12. SlotsExclusive'
  <2>1. InFlight' = active
    BY <1>6, <1>10 DEF InFlight, Reading
  <2> QED
    BY <1>6, <2>1 DEF SlotsExclusive, InFlight
<1>13. PipeHeld' /\ LanesHold' /\ HalfDoneHeld' /\ HalfDoneAlone'
  BY DEF PipeHeld, LanesHold, HalfDoneHeld, HalfDoneAlone
<1> QED
  BY <1>7, <1>8, <1>9, <1>11, <1>12, <1>13

LEMMA LeaveKeeps ==
  ASSUME IInv, Leave
  PROVE  IInv'
<1>1. Still
  BY DEF Leave, Still, reader, flight, ghost
<1> USE DEF IInv, Leave, reader, flight, pipe, ghost
<1>2. TypeOK'
  BY DEF TypeOK
<1>3. SlotsHeld'
  BY DEF SlotsHeld, Place
<1>4. PipeHeld' /\ LanesHold' /\ HalfDoneHeld' /\ HalfDoneAlone'
  BY DEF PipeHeld, LanesHold, HalfDoneHeld, HalfDoneAlone
<1> QED
  BY <1>1, <1>2, <1>3, <1>4, StillKeeps

-----------------------------------------------------------------------------
(* The worker's steps: draining, and a round's exception *)

LEMMA FailedKeeps ==
  ASSUME IInv, NEW home, EveryoneFails(home)
  PROVE  /\ RequestsKept /\ active' = {} /\ pending' = {} /\ failures' \in 0..MaxFailures
         /\ wpc' \in {home, "exit"}
         /\ UNCHANGED <<moved, undrained, chunks, after, todo, head, reader>>
<1> USE DEF IInv, EveryoneFails, reader, ghost
<1>1. \A r \in Reqs : slot'[r] = IF r \in active THEN None ELSE slot[r]
  OBVIOUS
<1>2. active' = {} /\ UNCHANGED <<sent, queue, head, undrained>>
  OBVIOUS
<1>3. OncePerId'
  BY <1>2 DEF OncePerId
<1>4. head \in Reqs => slot'[head] = slot[head]
  BY <1>1 DEF OncePerId
<1>5. SlotsExclusive'
  BY <1>2, <1>4 DEF SlotsExclusive, InFlight, Reading
<1>6. \A i \in Ids : told'[i] \in Seq(Messages)
                     /\ (i \notin active => told'[i] = told[i])
                     /\ (i \in active => (~Answered(i) => Ended(i)'))
  <2> TAKE i \in Ids
  <2>1. told[i] \in Seq(Messages) /\ "error" \in Messages
    BY DEF TypeOK, Messages
  <2>2. /\ Append(told[i], "error") \in Seq(Messages)
        /\ Quiet(told[i]) => EndsWithAnswer(Append(told[i], "error"))
    BY <2>1, AppendAnswer
  <2> QED
    BY <2>1, <2>2 DEF Ended, Answered, Quiet, EndsWithAnswer
<1>7. told' \in [Ids -> Seq(Messages)]
  BY <1>6
<1>8. NoAnswerYet' /\ AnsweredOnce'
  <2>1. \A i \in Ids : Owed(i)' => Owed(i) /\ i \notin active
    BY <1>2 DEF Owed, OncePerId, ToSet
  <2>2. \A i \in Ids \ undrained' :
          \/ told'[i] = told[i]
          \/ Owed(i) /\ (~Answered(i) => Ended(i)' /\ (Owed(i)' => ~Answered(i)'))
    BY <1>6, <2>1 DEF Owed
  <2> QED
    BY <1>2, <2>1, <2>2, ToldKept
<1>9. \A r \in Reqs : slot'[r] # None => r = head'
  BY <1>1, <1>2 DEF SlotsHeld
<1>10. (HeadAdmitted' <=> HeadAdmitted) /\ (HeadWaits' <=> HeadWaits)
  BY <1>2, <1>4 DEF HeadAdmitted, HeadWaits
<1>11. /\ stop' \in SUBSET Reqs /\ produced' \in [Reqs -> Nat] /\ cancelled' \in SUBSET Ids
       /\ slot' \in [Reqs -> Slots \cup {None}] /\ failures' \in 0..MaxFailures
  BY ServeAssumption DEF TypeOK
<1>12. pending' = {} /\ wpc' \in {home, "exit"} /\ UNCHANGED <<moved, undrained, chunks, after, todo, head, reader>>
  OBVIOUS
<1> HIDE DEF IInv, EveryoneFails, reader, ghost
<1> QED
  BY <1>2, <1>3, <1>5, <1>7, <1>8, <1>9, <1>10, <1>11, <1>12 DEF RequestsKept

\* No request leaves.
LEMMA StillRequestsKept ==
  ASSUME IInv, Still, UNCHANGED <<stop, produced, cancelled>>
  PROVE  RequestsKept
<1>1. OncePerId' /\ SlotsExclusive' /\ NoAnswerYet' /\ AnsweredOnce'
  BY StillKeeps
<1>2. (HeadAdmitted' <=> HeadAdmitted) /\ (HeadWaits' <=> HeadWaits)
  BY DEF Still, HeadAdmitted, HeadWaits
<1> QED
  BY <1>1, <1>2 DEF IInv, Still, RequestsKept, TypeOK, SlotsHeld

LEMMA ForwardMoves ==
  ASSUME IInv, NEW rs, Forward(rs)
  PROVE  moved' \in SUBSET Reqs /\ undrained' = undrained
BY DEF IInv, TypeOK, Forward, InFlight, Reading

LEMMA PipeDrainKeeps ==
  ASSUME IInv, PipeDrain
  PROVE  IInv'
<1>1. /\ RequestsKept /\ pending' \subseteq pending \cap active' /\ busy' \in SUBSET Slots
      /\ moved' \in SUBSET Reqs /\ undrained' = undrained
  <2>1. CASE mid = -1
    <3>1. Still /\ UNCHANGED <<stop, produced, cancelled, pending, busy, moved>>
      BY <2>1 DEF PipeDrain, Still, ghost
    <3>2. active' = active
      BY <3>1 DEF Still
    <3> QED
      BY <3>1, <3>2, StillRequestsKept DEF IInv, TypeOK, HalfDoneHeld, Still
  <2>2. CASE mid # -1
    <3>1. lanes[mid] \in SUBSET active
      BY <2>2 DEF IInv, PipeHeld, LanesHold, TypeOK
    <3>2. Forward(lanes[mid]) /\ DeliverRound(lanes[mid], lanes[mid], {}) /\ UNCHANGED <<sent, queue, head>>
      BY <2>2 DEF PipeDrain
    <3>3. moved' \in SUBSET Reqs /\ undrained' = undrained
      BY <3>2, ForwardMoves
    <3>4. /\ RequestsKept /\ busy' \in SUBSET Slots
          /\ pending' \subseteq ((pending \ lanes[mid]) \cup {}) \cap active'
      BY <3>1, <3>2, <3>3, DeliveredKeeps
    <3> QED
      BY <3>3, <3>4
  <2> QED
    BY <2>1, <2>2
<1>2. /\ lanes' = NoLanes /\ mid' = -1 /\ piped' = FALSE
      /\ UNCHANGED <<sent, queue, quit, head, chunks, failures>>
  BY DEF PipeDrain, NoLanesLeft
<1>3. \/ wpc = "step_drain" /\ wpc' = "main" /\ UNCHANGED <<after, todo>>
      \/ wpc = "pipe_drain" /\ wpc' = "la_drain" /\ after' = "dispatch" /\ todo' = active' \cap pending'
  BY DEF PipeDrain, Drained, Drain
<1>4. TypeOK'
  <2>1. NoLanes \in [{0, 1} -> SUBSET Reqs]
    BY DEF NoLanes
  <2>2. active' \in SUBSET Reqs /\ pending' \in SUBSET Reqs /\ todo' \in SUBSET Reqs
    BY <1>1, <1>3 DEF IInv, TypeOK, RequestsKept
  <2> QED
    BY <1>1, <1>2, <1>3, <2>1, <2>2 DEF IInv, TypeOK, RequestsKept
<1>5. SlotsHeld'
  BY <1>1, <1>2, <1>3 DEF IInv, SlotsHeld, Place, RequestsKept
<1>6. HalfDoneHeld'
  BY <1>1, <1>3 DEF IInv, HalfDoneHeld, RequestsKept
<1>7. PipeHeld' /\ LanesHold' /\ HalfDoneAlone'
  BY <1>2, <1>3 DEF PipeHeld, LanesHold, HalfDoneAlone
<1> QED
  BY <1>1, <1>4, <1>5, <1>6, <1>7 DEF IInv, RequestsKept

LEMMA PipeFailsKeeps ==
  ASSUME IInv, PipeFails
  PROVE  IInv'
<1> DEFINE home == IF wpc = "pipe_drain" THEN "dispatch" ELSE "main"
<1>1. EveryoneFails(home) /\ wpc \in {"main", "pipe_drain", "step_drain"}
  BY DEF PipeFails, MayStep
<1> HIDE DEF home
<1>2. /\ RequestsKept /\ active' = {} /\ pending' = {} /\ failures' \in 0..MaxFailures
      /\ wpc' \in {home, "exit"}
      /\ UNCHANGED <<moved, undrained, chunks, after, todo, head, reader>>
  BY <1>1, FailedKeeps
<1>3. /\ lanes' = NoLanes /\ mid' = -1 /\ piped' = FALSE
      /\ busy' = SlotsOf({})
  BY DEF PipeFails, NoLanesLeft, MarkBusy
<1>4. TypeOK'
  <2>1. NoLanes \in [{0, 1} -> SUBSET Reqs] /\ SlotsOf({}) = {}
    BY DEF NoLanes, SlotsOf
  <2> QED
    BY <1>2, <1>3, <2>1 DEF IInv, TypeOK, RequestsKept, reader, home
<1>5. SlotsHeld'
  BY <1>1, <1>2 DEF IInv, SlotsHeld, Place, RequestsKept, home
<1>6. HalfDoneHeld'
  BY <1>2 DEF HalfDoneHeld, home
<1>7. PipeHeld' /\ LanesHold' /\ HalfDoneAlone'
  BY <1>2, <1>3 DEF PipeHeld, LanesHold, HalfDoneAlone
<1> QED
  BY <1>2, <1>4, <1>5, <1>6, <1>7 DEF IInv, RequestsKept

LEMMA DrainOneKeeps ==
  ASSUME IInv, NEW r \in Reqs, DrainOne(r)
  PROVE  IInv'
<1>1. /\ wpc = "la_drain" /\ r \in todo /\ todo' = todo \ {r} /\ Forward({r}) /\ DeliverRound({r}, {}, {})
      /\ UNCHANGED <<sent, queue, quit, wpc, after, head, chunks, lanes, mid, piped, failures>>
  BY DEF DrainOne, pipe
<1>2. r \in active
  BY <1>1 DEF IInv, HalfDoneHeld
<1>3. moved' \in SUBSET Reqs /\ undrained' = undrained
  BY <1>1, ForwardMoves
<1>4. /\ RequestsKept /\ busy' \in SUBSET Slots
      /\ pending' \subseteq ((pending \ {r}) \cup {}) \cap active' /\ active \ active' \subseteq {}
  <2> DEFINE rs == {r}
             none == {}
  <2>1. rs \in SUBSET active /\ none \in SUBSET rs /\ none \in SUBSET active
    BY <1>2
  <2>2. DeliverRound(rs, none, none) /\ UNCHANGED <<sent, queue, head, undrained>>
    BY <1>1, <1>3
  <2> HIDE DEF rs, none
  <2>3. /\ RequestsKept /\ busy' \in SUBSET Slots
        /\ pending' \subseteq ((pending \ rs) \cup none) \cap active' /\ active \ active' \subseteq none
    BY <2>1, <2>2, DeliveredKeeps
  <2> QED
    BY <2>3 DEF rs, none
<1>5. active' = active /\ pending' \subseteq pending \ {r}
  BY <1>4 DEF RequestsKept
<1>6. TypeOK'
  BY <1>1, <1>3, <1>4, <1>5 DEF IInv, TypeOK, RequestsKept
<1>7. SlotsHeld'
  BY <1>1, <1>4 DEF IInv, SlotsHeld, Place, RequestsKept
<1>8. HalfDoneHeld'
  BY <1>1, <1>3, <1>5 DEF IInv, HalfDoneHeld
<1>9. PipeHeld' /\ LanesHold' /\ HalfDoneAlone'
  BY <1>1 DEF IInv, PipeHeld, LanesHold, HalfDoneAlone
<1> QED
  BY <1>4, <1>6, <1>7, <1>8, <1>9 DEF IInv, RequestsKept

LEMMA DrainFailsKeeps ==
  ASSUME IInv, NEW r \in Reqs, DrainFails(r)
  PROVE  IInv'
<1>1. /\ wpc = "la_drain" /\ r \in todo /\ todo' = todo \ {r} /\ undrained' = undrained \cup {r}
      /\ pending' \subseteq pending /\ wpc' \in {"la_drain", "exit"}
      /\ UNCHANGED <<sent, queue, after, head, active, slot, lanes, mid, piped>>
  BY DEF DrainFails, reader, pipe
<1>2. \A i \in Ids : told'[i] \in Seq(Messages) /\ (i # r => told'[i] = told[i])
  <2>1. told[r] \in Seq(Messages) /\ "error" \in Messages
    BY DEF IInv, TypeOK, Messages, Ids
  <2>2. Append(told[r], "error") \in Seq(Messages)
    BY <2>1, AppendAnswer
  <2> QED
    BY <2>2 DEF DrainFails, IInv, TypeOK
<1>3. TypeOK'
  <2>1. /\ told' = [told EXCEPT ![r] = Append(told[r], "error")] /\ told \in [Ids -> Seq(Messages)]
        /\ r \in Ids
    BY DEF DrainFails, IInv, TypeOK, Ids
  <2>2. told'[r] \in Seq(Messages) /\ told'[r] = Append(told[r], "error")
    BY <1>2, <2>1
  <2>3. told' \in [Ids -> Seq(Messages)]
    BY <2>1, <2>2
  <2> QED
    BY <1>1, <2>3, ServeAssumption DEF DrainFails, IInv, TypeOK, reader, pipe
<1>4. OncePerId' /\ SlotsExclusive'
  BY <1>1 DEF IInv, OncePerId, SlotsExclusive, InFlight, Reading
<1>5. SlotsHeld'
  BY <1>1 DEF IInv, SlotsHeld, Place, HeadWaits, HeadAdmitted
<1>6. NoAnswerYet' /\ AnsweredOnce'
  BY <1>1, <1>2 DEF IInv, NoAnswerYet, AnsweredOnce, Owed, Answered
<1>7. HalfDoneHeld'
  BY <1>1 DEF IInv, HalfDoneHeld
<1>8. PipeHeld' /\ LanesHold' /\ HalfDoneAlone'
  BY <1>1 DEF IInv, PipeHeld, LanesHold, HalfDoneAlone
<1> QED
  BY <1>3, <1>4, <1>5, <1>6, <1>7, <1>8 DEF IInv

LEMMA DrainEndKeeps ==
  ASSUME IInv, DrainEnd
  PROVE  IInv'
<1>1. /\ wpc = "la_drain" /\ todo = {} /\ wpc' = after
      /\ UNCHANGED <<after, head, active, slot, pending, undrained, todo, lanes, mid, piped>>
  BY DEF DrainEnd, flight, pipe, ghost
<1>2. Still
  BY DEF DrainEnd, Still, reader, flight, ghost
<1>3. after \in {"dispatch", "batch", "reading"}
  BY DEF IInv, TypeOK
<1>4. TypeOK'
  BY <1>3 DEF DrainEnd, IInv, TypeOK, reader, flight, pipe, ghost
<1>5. SlotsHeld'
  BY <1>1, <1>3 DEF IInv, SlotsHeld, Place, HeadWaits, HeadAdmitted
<1>6. PipeHeld' /\ LanesHold' /\ HalfDoneHeld' /\ HalfDoneAlone'
  BY <1>1, <1>3 DEF IInv, PipeHeld, LanesHold, HalfDoneHeld, HalfDoneAlone
<1> QED
  BY <1>2, <1>4, <1>5, <1>6, StillKeeps DEF IInv

-----------------------------------------------------------------------------
(* The worker's steps: requests *)

\* The head is answered and gone.
LEMMA HeadAnswered ==
  ASSUME IInv, wpc = "dispatch", head # None, NEW m \in Messages,
         told' = [told EXCEPT ![head] = Append(@, m)],
         wpc' = "main", head' = None,
         UNCHANGED <<reader, after, todo, flight, pipe, ghost, failures>>
  PROVE  IInv'
<1> USE DEF IInv, reader, flight, pipe, ghost
<1>1. head \in Ids /\ (head \in Reqs => slot[head] = None) /\ None \notin Ids
  BY ServeAssumption DEF SlotsHeld, Place, HeadWaits, TypeOK
<1>2. /\ Append(told[head], m) \in Seq(Messages)
      /\ Quiet(told[head]) => EndsWithAnswer(Append(told[head], m))
  BY <1>1, AppendAnswer DEF TypeOK
<1>3. TypeOK'
  BY <1>2 DEF TypeOK
<1>4. OncePerId' /\ SlotsExclusive'
  BY <1>1, ServeAssumption DEF OncePerId, SlotsExclusive, InFlight, Reading, TypeOK, Ids
<1>5. SlotsHeld'
  BY <1>1 DEF SlotsHeld, Place
<1>6. NoAnswerYet' /\ AnsweredOnce'
  <2>1. \A i \in Ids : Owed(i)' => Owed(i) /\ i # head
    BY <1>1 DEF Owed, OncePerId, ToSet
  <2>2. told'[head] = Append(told[head], m) /\ \A i \in Ids : i # head => told'[i] = told[i]
    BY <1>1 DEF TypeOK
  <2>3. ASSUME NEW i \in Ids, i = head
        PROVE  ~Answered(i) => Ended(i)'
    BY <1>2, <2>2, <2>3 DEF Ended, Answered, Quiet, EndsWithAnswer
  <2>4. \A i \in Ids \ undrained' :
          \/ told'[i] = told[i]
          \/ Owed(i) /\ (~Answered(i) => Ended(i)' /\ (Owed(i)' => ~Answered(i)'))
    BY <2>1, <2>2, <2>3 DEF Owed
  <2> QED
    BY <2>1, <2>4, ToldKept
<1>7. PipeHeld' /\ LanesHold' /\ HalfDoneHeld' /\ HalfDoneAlone'
  BY DEF PipeHeld, LanesHold, HalfDoneHeld, HalfDoneAlone
<1> QED
  BY <1>3, <1>4, <1>5, <1>6, <1>7

LEMMA ResetKeeps ==
  ASSUME IInv, Reset
  PROVE  IInv'
BY HeadAnswered, ServeAssumption DEF Reset, Messages, Ids

LEMMA RefuseKeeps ==
  ASSUME IInv, Refuse
  PROVE  IInv'
BY HeadAnswered, ServeAssumption DEF Refuse, Messages, Ids

LEMMA AdmitKeeps ==
  ASSUME IInv, Admit
  PROVE  IInv'
<1> USE DEF IInv, Admit, reader, pipe, ghost
<1>1. PICK s \in FreeSlots : slot' = [slot EXCEPT ![head] = s] /\ busy' = SlotsOf(active) \cup {s}
  OBVIOUS
<1>2. /\ wpc = "dispatch" /\ wpc' = "reading" /\ head \in Reqs
      /\ UNCHANGED <<sent, queue, after, head, active, told, pending, undrained, todo, lanes, mid, piped>>
  OBVIOUS
<1>3. s \in Slots /\ s # None /\ \A r \in active : slot[r] # s
  BY ServeAssumption DEF FreeSlots, SlotsOf
<1>4. slot'[head] = s /\ \A r \in Reqs : r # head => slot'[r] = slot[r]
  BY <1>1, <1>2 DEF TypeOK
<1>5. TypeOK'
  <2>1. SlotsOf(active) \subseteq Slots
    BY ActiveFinite DEF SlotsOf
  <2>2. slot' \in [Reqs -> Slots \cup {None}] /\ busy' \subseteq Slots
    BY <1>1, <1>3, <2>1 DEF TypeOK
  <2>3. chunks' \in 0..MaxChunks
    BY ServeAssumption
  <2> QED
    BY <1>2, <2>2, <2>3 DEF TypeOK
<1>6. OncePerId'
  BY <1>2 DEF OncePerId
<1>7. head \notin active
  BY DEF OncePerId
<1>8. SlotsHeld'
  BY <1>2, <1>3, <1>4, <1>7 DEF SlotsHeld, Place, HeadAdmitted, HeadWaits, TypeOK
<1>9. SlotsExclusive'
  <2>1. InFlight' = active \cup {head}
    BY <1>2, <1>3, <1>4 DEF InFlight, Reading
  <2>2. \A r, q \in active : r # q => slot[r] # slot[q]
    BY DEF SlotsExclusive, InFlight
  <2>3. \A r \in active : slot'[r] = slot[r] /\ slot'[r] # slot'[head]
    BY <1>3, <1>4, <1>7 DEF TypeOK
  <2> QED
    BY <2>1, <2>2, <2>3 DEF SlotsExclusive
<1>10. NoAnswerYet' /\ AnsweredOnce'
  BY <1>2 DEF NoAnswerYet, AnsweredOnce, Owed, Answered
<1>11. PipeHeld' /\ LanesHold' /\ HalfDoneHeld' /\ HalfDoneAlone'
  BY <1>2 DEF PipeHeld, LanesHold, HalfDoneHeld, HalfDoneAlone
<1> QED
  BY <1>5, <1>6, <1>8, <1>9, <1>10, <1>11

LEMMA ReadChunkKeeps ==
  ASSUME IInv, ReadChunk
  PROVE  IInv'
<1>1. moved' \in SUBSET Reqs /\ undrained' = undrained
  BY ForwardMoves DEF ReadChunk
<1>2. /\ wpc = "reading" /\ wpc' \in {"reading", "between"}
      /\ UNCHANGED <<after, head, active, slot, pending, todo, lanes, mid, piped>>
  BY DEF ReadChunk, pipe
<1>3. Still
  BY <1>1 DEF ReadChunk, Still, reader
<1>4. TypeOK'
  <2>1. chunks' \in 0..MaxChunks
    BY ServeAssumption DEF IInv, TypeOK, ReadChunk
  <2> QED
    BY <1>1, <1>2, <2>1 DEF ReadChunk, IInv, TypeOK, reader, pipe
<1>5. SlotsHeld'
  BY <1>2 DEF IInv, SlotsHeld, Place, HeadAdmitted
<1>6. PipeHeld' /\ LanesHold' /\ HalfDoneHeld' /\ HalfDoneAlone'
  BY <1>1, <1>2 DEF IInv, PipeHeld, LanesHold, HalfDoneHeld, HalfDoneAlone
<1> QED
  BY <1>3, <1>4, <1>5, <1>6, StillKeeps DEF IInv

\* la_drain is called from between two chunks of a prompt, or before a batch.
LEMMA DrainCalled ==
  ASSUME IInv, Still, NEW return \in {"reading", "batch"}, Drain(return),
         wpc \in {"main", "between"}, ~piped,
         return = "reading" => wpc = "between",
         UNCHANGED <<quit, cancelled, stop, produced, pending, chunks, busy, pipe, moved, failures>>
  PROVE  IInv'
<1> USE DEF pipe
<1>1. /\ wpc' = "la_drain" /\ after' = return /\ todo' = active \cap pending
      /\ UNCHANGED <<head, active, slot, pending, undrained>>
  BY DEF Drain, Still
<1>2. TypeOK'
  BY <1>1 DEF IInv, TypeOK, Still
<1>3. SlotsHeld'
  BY <1>1 DEF IInv, SlotsHeld, Place, HeadAdmitted
<1>4. PipeHeld' /\ LanesHold' /\ HalfDoneHeld' /\ HalfDoneAlone'
  BY <1>1 DEF IInv, PipeHeld, LanesHold, HalfDoneHeld, HalfDoneAlone
<1> QED
  BY <1>2, <1>3, <1>4, StillKeeps DEF IInv

LEMMA BackToPromptKeeps ==
  ASSUME IInv, BackToPrompt
  PROVE  IInv'
<1>1. ~piped
  BY DEF IInv, PipeHeld, BackToPrompt
<1> QED
  BY <1>1, DrainCalled DEF BackToPrompt, Still, reader, flight, pipe, ghost

\* A prompt's read is over: what it says, and that nothing else is half done.
LEMMA ReadingHeld ==
  ASSUME IInv, wpc = "reading"
  PROVE  /\ head \in Reqs /\ head \in Ids /\ head # None /\ slot[head] \in Slots /\ head \in sent
         /\ head \notin active /\ InFlight = active \cup {head}
         /\ pending \subseteq undrained /\ ~piped
         /\ \A k \in DOMAIN queue : queue[k] # head
<1> USE ServeAssumption DEF IInv
<1>1. HeadAdmitted
  BY DEF SlotsHeld, Place
<1>2. head \in Reqs /\ head \in Ids /\ head # None /\ slot[head] # None
  BY <1>1 DEF HeadAdmitted, Ids
<1>3. slot[head] \in Slots /\ InFlight = active \cup {head}
  BY <1>2 DEF TypeOK, InFlight, Reading
<1>4. pending \subseteq undrained /\ ~piped
  BY DEF HalfDoneAlone
<1> QED
  BY <1>2, <1>3, <1>4 DEF OncePerId

LEMMA ReadFailsKeeps ==
  ASSUME IInv, ReadFails
  PROVE  IInv'
<1>1. /\ head \in Reqs /\ head \in Ids /\ head # None /\ head \notin active /\ head \in sent
      /\ pending \subseteq undrained /\ ~piped
      /\ \A k \in DOMAIN queue : queue[k] # head
  BY ReadingHeld DEF ReadFails
<1>2. /\ wpc = "reading" /\ head' = None /\ wpc' \in {"main", "exit"} /\ slot' = [slot EXCEPT ![head] = None]
      /\ told' = [told EXCEPT ![head] = Append(told[head], "error")]
      /\ UNCHANGED <<sent, queue, after, active, pending, undrained, todo, lanes, mid, piped>>
  BY DEF ReadFails, reader, pipe, ghost
<1> USE DEF IInv
<1>3. /\ Append(told[head], "error") \in Seq(Messages)
      /\ Quiet(told[head]) => EndsWithAnswer(Append(told[head], "error"))
  <2>1. "error" \in Messages /\ told[head] \in Seq(Messages)
    BY <1>1 DEF Messages, TypeOK
  <2> QED
    BY <2>1, AppendAnswer
<1>4. TypeOK'
  <2>1. told' \in [Ids -> Seq(Messages)] /\ slot' \in [Reqs -> Slots \cup {None}]
    BY <1>2, <1>3 DEF TypeOK
  <2>2. failures' \in 0..MaxFailures /\ chunks' \in 0..MaxChunks /\ head' \in Ids \cup {None}
    BY ServeAssumption DEF TypeOK, ReadFails
  <2> QED
    BY <1>2, <2>1, <2>2 DEF TypeOK, ReadFails, reader, pipe, ghost
<1>5. OncePerId'
  BY <1>2, ServeAssumption DEF OncePerId, TypeOK, Ids
<1>6. \A r \in Reqs : slot'[r] = IF r = head THEN None ELSE slot[r]
  BY <1>2 DEF TypeOK
<1>7. SlotsHeld'
  <2>1. \A r \in active' : slot'[r] # None
    BY <1>1, <1>2, <1>6 DEF SlotsHeld, TypeOK
  <2>2. \A r \in Reqs : slot'[r] # None => r \in active'
    BY <1>2, <1>6 DEF SlotsHeld
  <2> QED
    BY <1>2, <2>1, <2>2 DEF SlotsHeld, Place
<1>8. SlotsExclusive'
  <2>1. InFlight' = active
    BY <1>2, ServeAssumption DEF InFlight, Reading, Ids
  <2>2. \A r \in active : slot'[r] = slot[r] /\ r \in InFlight
    BY <1>1, <1>6 DEF TypeOK, InFlight
  <2> QED
    BY <2>1, <2>2 DEF SlotsExclusive
<1>9. NoAnswerYet' /\ AnsweredOnce'
  <2>0. None \notin Ids
    BY ServeAssumption
  <2>1. \A i \in Ids : Owed(i)' => Owed(i) /\ i # head
    BY <1>1, <1>2, <2>0 DEF Owed, ToSet
  <2>2. told'[head] = Append(told[head], "error") /\ \A i \in Ids : i # head => told'[i] = told[i]
    BY <1>1, <1>2 DEF TypeOK
  <2>3. ASSUME NEW i \in Ids, i = head
        PROVE  ~Answered(i) => Ended(i)'
    BY <1>3, <2>2, <2>3 DEF Ended, Answered, Quiet, EndsWithAnswer
  <2>4. \A i \in Ids \ undrained' :
          \/ told'[i] = told[i]
          \/ Owed(i) /\ (~Answered(i) => Ended(i)' /\ (Owed(i)' => ~Answered(i)'))
    BY <2>1, <2>2, <2>3 DEF Owed
  <2> QED
    BY <1>2, <2>1, <2>4, ToldKept
<1>10. PipeHeld' /\ LanesHold' /\ HalfDoneHeld' /\ HalfDoneAlone'
  BY <1>1, <1>2 DEF PipeHeld, LanesHold, HalfDoneHeld, HalfDoneAlone
<1> QED
  BY <1>4, <1>5, <1>7, <1>8, <1>9, <1>10

LEMMA EndReadKeeps ==
  ASSUME IInv, EndRead
  PROVE  IInv'
<1>1. /\ head \in Reqs /\ head \in Ids /\ head # None /\ slot[head] \in Slots /\ head \in sent
      /\ head \notin active /\ InFlight = active \cup {head}
      /\ pending \subseteq undrained /\ ~piped
      /\ \A k \in DOMAIN queue : queue[k] # head
  BY ReadingHeld DEF EndRead
<1>0. PICK o \in Outcomes :
        LET over == head \in StopAfter({head}, [r \in {head} |-> o])
        IN  /\ told' = [told EXCEPT ![head] = WithTokens(Append(@, "prefill"), head, o)
                                            \o (IF over THEN <<"done">> ELSE <<>>)]
            /\ active' = Enter(over)
            /\ slot' = IF over THEN [slot EXCEPT ![head] = None] ELSE slot
            /\ cancelled' = IF over THEN cancelled \ {head} ELSE cancelled
  BY DEF EndRead
<1> DEFINE over == head \in StopAfter({head}, [r \in {head} |-> o])
<1>2. /\ told' = [told EXCEPT ![head] = WithTokens(Append(told[head], "prefill"), head, o)
                                          \o (IF over THEN <<"done">> ELSE <<>>)]
      /\ active' = Enter(over)
      /\ slot' = IF over THEN [slot EXCEPT ![head] = None] ELSE slot
      /\ cancelled' = IF over THEN cancelled \ {head} ELSE cancelled
  BY <1>0
<1> HIDE DEF over
<1>3. /\ wpc = "reading" /\ head' = None /\ wpc' = "main" /\ chunks' = 0 /\ produced' = [produced EXCEPT ![head] = 1]
      /\ UNCHANGED <<sent, queue, after, pending, todo, lanes, mid, piped>>
  BY DEF EndRead, pipe
<1>4. moved' \in SUBSET Reqs /\ undrained' = undrained
  BY ForwardMoves DEF EndRead
<1>5. active' = IF over THEN active ELSE active \cup {head}
  BY <1>2 DEF Enter
<1>6. \A r \in Reqs : slot'[r] = IF over /\ r = head THEN None ELSE slot[r]
  BY <1>2 DEF IInv, TypeOK
<1> DEFINE said == WithTokens(Append(told[head], "prefill"), head, o)
           now == said \o (IF over THEN <<"done">> ELSE <<>>)
<1>7. /\ now \in Seq(Messages)
      /\ Quiet(told[head]) => EndsWithAnswer(now) /\ (~over => Quiet(now))
  <2>1. told[head] \in Seq(Messages) /\ "prefill" \in Messages \ Answers /\ "done" \in Messages
    BY <1>1 DEF IInv, TypeOK, Messages, Answers
  <2>2. /\ Append(told[head], "prefill") \in Seq(Messages)
        /\ Quiet(told[head]) => Quiet(Append(told[head], "prefill"))
    BY <2>1, AppendAnswer
  <2>3. said \in Seq(Messages) /\ (Quiet(told[head]) => Quiet(said))
    BY <2>2, TokensQuiet
  <2> HIDE DEF said
  <2>4. CASE over
    <3>1. now = Append(said, "done") /\ Append(said, "done") \in Seq(Messages)
      BY <2>1, <2>3, <2>4, AppendAnswer
    <3>2. Quiet(said) => EndsWithAnswer(Append(said, "done"))
      BY <2>1, <2>3, AppendAnswer
    <3> QED
      BY <2>3, <2>4, <3>1, <3>2
  <2>5. CASE ~over
    <3>1. now = said
      BY <2>3, <2>5, ConcatEmptySeq
    <3> QED
      BY <2>3, <3>1 DEF Quiet, EndsWithAnswer
  <2> QED
    BY <1>2, <2>4, <2>5
<1>8. told'[head] = now /\ told' \in [Ids -> Seq(Messages)] /\ \A i \in Ids : i # head => told'[i] = told[i]
  BY <1>1, <1>2, <1>7 DEF IInv, TypeOK
<1> HIDE DEF now, said
<1> USE DEF IInv
<1>9. TypeOK'
  <2>1. produced' \in [Reqs -> Nat]
    BY <1>3 DEF TypeOK
  <2>3. chunks' \in 0..MaxChunks /\ head' \in Ids \cup {None}
    BY <1>3, ServeAssumption
  <2>2. active' \in SUBSET Reqs /\ slot' \in [Reqs -> Slots \cup {None}] /\ cancelled' \in SUBSET Ids
    BY <1>1, <1>2, <1>5 DEF TypeOK
  <2> QED
    BY <1>3, <1>4, <1>8, <2>1, <2>2, <2>3 DEF TypeOK, EndRead, pipe
<1>10. None \notin Ids /\ active \subseteq Ids
  BY ServeAssumption DEF TypeOK, Ids
<1>11. OncePerId'
  BY <1>1, <1>3, <1>5, <1>10 DEF OncePerId, TypeOK
<1>12. SlotsHeld'
  <2>1. \A r \in active' : slot'[r] # None
    BY <1>1, <1>5, <1>6, ServeAssumption DEF SlotsHeld, TypeOK
  <2>2. \A r \in Reqs : slot'[r] # None => r \in active'
    BY <1>5, <1>6 DEF SlotsHeld
  <2> QED
    BY <1>3, <2>1, <2>2 DEF SlotsHeld, Place
<1>13. SlotsExclusive'
  <2>1. InFlight' = active' /\ active' \subseteq InFlight
    BY <1>1, <1>3, <1>5, <1>10 DEF InFlight, Reading, Ids
  <2>2. \A r \in active' : slot'[r] = slot[r]
    BY <1>1, <1>5, <1>6 DEF TypeOK
  <2> QED
    BY <2>1, <2>2 DEF SlotsExclusive
<1>14. NoAnswerYet' /\ AnsweredOnce'
  <2>1. \A i \in Ids : Owed(i)' => Owed(i) /\ (i = head => ~over)
    BY <1>1, <1>3, <1>5, <1>10 DEF Owed, ToSet
  <2>2. ASSUME NEW i \in Ids, i = head
        PROVE  ~Answered(i) => Ended(i)' /\ (~over => ~Answered(i)')
    BY <1>7, <1>8, <2>2 DEF Ended, Answered, Quiet, EndsWithAnswer
  <2>3. \A i \in Ids \ undrained' :
          \/ told'[i] = told[i]
          \/ Owed(i) /\ (~Answered(i) => Ended(i)' /\ (Owed(i)' => ~Answered(i)'))
    BY <1>8, <2>1, <2>2 DEF Owed
  <2> QED
    BY <1>4, <2>1, <2>3, ToldKept
<1>15. PipeHeld' /\ LanesHold'
  BY <1>1, <1>3 DEF PipeHeld, LanesHold
<1>16. HalfDoneHeld' /\ HalfDoneAlone'
  BY <1>1, <1>3, <1>4, <1>5 DEF HalfDoneHeld, HalfDoneAlone
<1> QED
  BY <1>9, <1>11, <1>12, <1>13, <1>14, <1>15, <1>16

-----------------------------------------------------------------------------
(* The worker's steps: rounds *)

LEMMA LookaheadRoundKeeps ==
  ASSUME IInv, LookaheadRound
  PROVE  IInv'
<1>1. PICK half \in {{}, active} : DeliverRound(active, active, half)
  BY DEF LookaheadRound
<1>2. /\ ~piped /\ wpc \in {"main", "between"} /\ Cardinality(active) = 1 /\ Forward(active)
      /\ UNCHANGED <<sent, queue, quit, wpc, after, todo, head, chunks, lanes, mid, piped, failures>>
  BY DEF LookaheadRound, MayRound, Lookahead, control, pipe
<1>3. PICK r \in active : active = {r}
  BY <1>2, OneAlone
<1>4. moved' \in SUBSET Reqs /\ undrained' = undrained
  BY <1>2, ForwardMoves
<1>5. RequestsKept /\ pending' \subseteq active' /\ busy' \in SUBSET Slots
  <2>1. active \in SUBSET active /\ half \in SUBSET active
    OBVIOUS
  <2>2. UNCHANGED <<sent, queue, head, undrained>>
    BY <1>2, <1>4
  <2>3. /\ RequestsKept /\ busy' \in SUBSET Slots
        /\ pending' \subseteq ((pending \ active) \cup half) \cap active'
    BY <1>1, <2>1, <2>2, DeliveredKeeps
  <2> QED
    BY <2>3
<1>6. active' \subseteq active
  BY <1>5 DEF RequestsKept
<1>7. TypeOK'
  BY <1>2, <1>4, <1>5, <1>6 DEF IInv, TypeOK, RequestsKept
<1>8. SlotsHeld'
  BY <1>2, <1>5 DEF IInv, SlotsHeld, Place, RequestsKept
<1>9. HalfDoneHeld'
  BY <1>2, <1>3, <1>5, <1>6 DEF HalfDoneHeld
<1>10. PipeHeld' /\ LanesHold' /\ HalfDoneAlone'
  BY <1>2 DEF IInv, PipeHeld, LanesHold, HalfDoneAlone
<1> QED
  BY <1>5, <1>7, <1>8, <1>9, <1>10 DEF IInv, RequestsKept

LEMMA StartBatchKeeps ==
  ASSUME IInv, StartBatch
  PROVE  IInv'
BY DrainCalled DEF StartBatch, MayRound, Still, reader, flight, pipe, ghost

LEMMA BatchKeeps ==
  ASSUME IInv, Batch
  PROVE  IInv'
<1>1. /\ wpc = "batch" /\ Forward(active) /\ DeliverRound(active, active, {}) /\ wpc' = Home
      /\ UNCHANGED <<sent, queue, quit, after, todo, head, chunks, lanes, mid, piped, failures>>
  BY DEF Batch, pipe
<1>2. moved' \in SUBSET Reqs /\ undrained' = undrained
  BY <1>1, ForwardMoves
<1>3. RequestsKept /\ pending' = {} /\ busy' \in SUBSET Slots
  <2> DEFINE none == {}
  <2>1. active \in SUBSET active /\ none \in SUBSET active
    OBVIOUS
  <2>2. DeliverRound(active, active, none) /\ UNCHANGED <<sent, queue, head, undrained>>
    BY <1>1, <1>2
  <2> HIDE DEF none
  <2>3. /\ RequestsKept /\ busy' \in SUBSET Slots
        /\ pending' \subseteq ((pending \ active) \cup none) \cap active'
    BY <2>1, <2>2, DeliveredKeeps
  <2>4. pending \subseteq active
    BY DEF IInv, HalfDoneHeld
  <2> QED
    BY <2>3, <2>4 DEF none
<1>4. active' \subseteq active
  BY <1>3 DEF RequestsKept
<1>5. ~piped
  BY <1>1 DEF IInv, HalfDoneAlone
<1>6. wpc' = IF head = None THEN "main" ELSE "between"
  BY <1>1 DEF Home
<1>7. TypeOK'
  BY <1>1, <1>2, <1>3, <1>4, <1>6 DEF IInv, TypeOK, RequestsKept
<1>8. SlotsHeld'
  BY <1>1, <1>3, <1>6 DEF IInv, SlotsHeld, Place, RequestsKept
<1>9. PipeHeld' /\ LanesHold' /\ HalfDoneHeld' /\ HalfDoneAlone'
  BY <1>1, <1>3, <1>5, <1>6 DEF IInv, PipeHeld, LanesHold, HalfDoneHeld, HalfDoneAlone
<1> QED
  BY <1>3, <1>7, <1>8, <1>9 DEF IInv, RequestsKept

LEMMA RoundFailsKeeps ==
  ASSUME IInv, RoundFails
  PROVE  IInv'
<1>1. EveryoneFails(Home) /\ wpc \in {"batch", "main", "between"} /\ UNCHANGED <<busy, lanes, mid, piped>> /\ ~piped
  BY DEF RoundFails, MayRound, pipe, IInv, HalfDoneAlone
<1>2. /\ RequestsKept /\ active' = {} /\ pending' = {} /\ failures' \in 0..MaxFailures
      /\ wpc' \in {Home, "exit"}
      /\ UNCHANGED <<moved, undrained, chunks, after, todo, head, reader>>
  BY <1>1, FailedKeeps
<1>3. wpc' \in {IF head = None THEN "main" ELSE "between", "exit"}
  BY <1>2 DEF Home
<1>4. TypeOK'
  BY <1>1, <1>2, <1>3 DEF IInv, TypeOK, RequestsKept, reader
<1>5. SlotsHeld'
  BY <1>1, <1>2, <1>3 DEF IInv, SlotsHeld, Place, RequestsKept
<1>6. PipeHeld' /\ LanesHold' /\ HalfDoneHeld' /\ HalfDoneAlone'
  BY <1>1, <1>2, <1>3 DEF IInv, PipeHeld, LanesHold, HalfDoneHeld, HalfDoneAlone
<1> QED
  BY <1>2, <1>4, <1>5, <1>6 DEF IInv, RequestsKept

LEMMA PipeStepKeeps ==
  ASSUME IInv, PipeStep
  PROVE  IInv'
<1>1. /\ wpc = "main" /\ Cardinality(active) >= 2 /\ mid' = ReadyLane /\ piped' = TRUE
      /\ UNCHANGED <<sent, queue, quit, after, todo, head, chunks, failures>>
  BY DEF PipeStep, MayStep
<1>2. pending \subseteq undrained
  BY <1>1, NotAlone DEF IInv, HalfDoneHeld
<1>3. CASE mid = -1
  <2>1. ~piped
    BY <1>3 DEF IInv, PipeHeld
  <2>2. /\ Forward(FormLanes[ReadyLane]) /\ lanes' = FormLanes /\ mid' = 0
        /\ UNCHANGED <<active, slot, stop, produced, pending, busy, cancelled, told, wpc>>
    BY <1>1, <1>3, <2>1 DEF PipeStep, ReadyLane
  <2>3. moved' \in SUBSET Reqs /\ undrained' = undrained
    BY <2>2, ForwardMoves
  <2>4. Still
    BY <1>1, <2>2, <2>3 DEF Still
  <2>5. /\ lanes' \in [{0, 1} -> SUBSET active]
        /\ lanes'[0] \cup lanes'[1] = active /\ lanes'[0] \cap lanes'[1] = {}
        /\ lanes'[0] # {} /\ lanes'[1] # {}
    BY <1>1, <2>2, LanesFormed
  <2>6. TypeOK'
    <3>1. lanes' \in [{0, 1} -> SUBSET Reqs]
      BY <2>5 DEF IInv, TypeOK
    <3> QED
      BY <1>1, <2>2, <2>3, <3>1 DEF IInv, TypeOK
  <2>7. SlotsHeld'
    BY <1>1, <2>2 DEF IInv, SlotsHeld, Place, HeadWaits, HeadAdmitted
  <2>8. PipeHeld' /\ LanesHold'
    BY <1>1, <2>2, <2>5 DEF PipeHeld, LanesHold
  <2>9. HalfDoneHeld' /\ HalfDoneAlone'
    BY <1>1, <1>2, <2>2, <2>3 DEF IInv, HalfDoneHeld, HalfDoneAlone
  <2> QED
    BY <2>4, <2>6, <2>7, <2>8, <2>9, StillKeeps DEF IInv
<1>4. CASE mid # -1
  <2>1. piped /\ mid \in {0, 1}
    BY <1>4 DEF IInv, PipeHeld, TypeOK
  <2> DEFINE lane == lanes[mid]
             other == lanes[1 - mid]
  <2>2. /\ lane \cup other = active /\ lane \cap other = {} /\ lane # {} /\ other # {}
        /\ lane \in SUBSET Reqs /\ other \in SUBSET Reqs
    BY <1>1, <2>1 DEF IInv, LanesHold, TypeOK
  <2>3. /\ Forward(active) /\ DeliverRound(lane, lane, {})
        /\ lanes' = [lanes EXCEPT ![mid] = lane \cap active']
        /\ wpc' = IF lanes'[mid] = {} THEN "step_drain" ELSE "main"
        /\ mid' = 1 - mid
    BY <1>1, <1>4, <2>1 DEF PipeStep, ReadyLane
  <2>4. moved' \in SUBSET Reqs /\ undrained' = undrained
    BY <2>3, ForwardMoves
  <2>5. /\ RequestsKept /\ busy' \in SUBSET Slots
        /\ pending' \subseteq pending \cap active' /\ active \ active' \subseteq lane
    <3> DEFINE none == {}
    <3>1. lane \in SUBSET active /\ lane \in SUBSET lane /\ none \in SUBSET active
      BY <2>2
    <3>2. DeliverRound(lane, lane, none) /\ UNCHANGED <<sent, queue, head, undrained>>
      BY <1>1, <2>3, <2>4
    <3> HIDE DEF none, lane
    <3>3. /\ RequestsKept /\ busy' \in SUBSET Slots
          /\ pending' \subseteq ((pending \ lane) \cup none) \cap active' /\ active \ active' \subseteq lane
      BY <3>1, <3>2, DeliveredKeeps
    <3> QED
      BY <3>3 DEF none
  <2>6. active' \subseteq active
    BY <2>5 DEF RequestsKept
  <2>7. /\ lanes'[mid] = lane \cap active' /\ lanes'[1 - mid] = other /\ other \subseteq active'
        /\ lanes' \in [{0, 1} -> SUBSET Reqs]
    BY <2>1, <2>2, <2>3, <2>5 DEF IInv, TypeOK
  <2>8. wpc' \in {"main", "step_drain"} /\ (wpc' = "main" => lane \cap active' # {})
    BY <2>3, <2>7
  <2>9. TypeOK'
    <3>1. active' \in SUBSET Reqs /\ pending' \in SUBSET Reqs /\ mid' \in {-1, 0, 1}
      BY <2>1, <2>3, <2>5, <2>6 DEF IInv, TypeOK
    <3>2. TypeOK
      BY DEF IInv
    <3> HIDE DEF lane, other
    <3> QED
      BY <1>1, <2>4, <2>5, <2>7, <2>8, <3>1, <3>2 DEF TypeOK, RequestsKept
  <2>10. SlotsHeld'
    BY <1>1, <2>5, <2>8 DEF IInv, SlotsHeld, Place, RequestsKept
  <2>11. PipeHeld'
    BY <1>1, <2>1, <2>3, <2>8 DEF PipeHeld
  <2>12. LanesHold'
    <3>1. (lane \cap active') \cup other = active' /\ (lane \cap active') \cap other = {}
      BY <2>2, <2>6, <2>7
    <3> HIDE DEF lane, other
    <3>2. CASE mid = 0
      BY <2>1, <2>2, <2>3, <2>7, <2>8, <3>1, <3>2 DEF LanesHold
    <3>3. CASE mid = 1
      BY <2>1, <2>2, <2>3, <2>7, <2>8, <3>1, <3>3 DEF LanesHold
    <3> QED
      BY <2>1, <3>2, <3>3
  <2>13. HalfDoneHeld' /\ HalfDoneAlone'
    BY <1>1, <1>2, <2>4, <2>5, <2>8 DEF HalfDoneHeld, HalfDoneAlone
  <2> QED
    BY <2>5, <2>9, <2>10, <2>11, <2>12, <2>13 DEF IInv, RequestsKept
<1> QED
  BY <1>3, <1>4

-----------------------------------------------------------------------------
(* The server loop's invariants *)

LEMMA InitHolds == Init => IInv
<1> SUFFICES ASSUME Init PROVE IInv
  OBVIOUS
<1> USE ServeAssumption DEF Init
<1>1. TypeOK
  <2>1. queue \in Seq(Ids) /\ told \in [Ids -> Seq(Messages)]
    OBVIOUS
  <2>2. lanes \in [{0, 1} -> SUBSET Reqs] /\ mid \in {-1, 0, 1}
    BY DEF NoLanes
  <2>3. slot \in [Reqs -> Slots \cup {None}] /\ produced \in [Reqs -> Nat]
    OBVIOUS
  <2>4. chunks \in 0..MaxChunks /\ failures \in 0..MaxFailures
    OBVIOUS
  <2> HIDE ServeAssumption
  <2> QED
    BY <2>1, <2>2, <2>3, <2>4 DEF TypeOK
<1>2. OncePerId
  BY DEF OncePerId
<1>3. SlotsHeld /\ SlotsExclusive
  BY DEF SlotsHeld, Place, SlotsExclusive, InFlight, Reading
<1>4. PipeHeld /\ LanesHold /\ HalfDoneHeld /\ HalfDoneAlone
  BY DEF PipeHeld, LanesHold, HalfDoneHeld, HalfDoneAlone
<1>5. NoAnswerYet /\ AnsweredOnce
  BY DEF NoAnswerYet, AnsweredOnce, Answered
<1> QED
  BY <1>1, <1>2, <1>3, <1>4, <1>5 DEF IInv

LEMMA StepHolds == IInv /\ [Next]_vars => IInv'
<1> SUFFICES ASSUME IInv, [Next]_vars PROVE IInv'
  OBVIOUS
<1>1. CASE UNCHANGED vars
  <2>1. Still
    BY <1>1 DEF Still, vars, reader, control, flight, ghost
  <2>2. TypeOK'
    BY <1>1 DEF IInv, TypeOK, vars, reader, control, flight, pipe, ghost
  <2>3. UNCHANGED <<control, flight, pipe, ghost>>
    BY <1>1 DEF vars
  <2>4. SlotsHeld' /\ PipeHeld' /\ LanesHold' /\ HalfDoneHeld' /\ HalfDoneAlone'
    BY <2>3, FrameKept
  <2> QED
    BY <2>1, <2>2, <2>4, StillKeeps DEF IInv
<1>2. CASE Reader
  BY <1>2, ReadRequestKeeps, ReadCancelKeeps, ReadQuitKeeps DEF Reader
<1>3. CASE TakeHead \/ Leave \/ PipeDrain \/ PipeFails
  BY <1>3, TakeHeadKeeps, LeaveKeeps, PipeDrainKeeps, PipeFailsKeeps
<1>4. CASE \E r \in Reqs : DrainOne(r) \/ DrainFails(r)
  BY <1>4, DrainOneKeeps, DrainFailsKeeps
<1>5. CASE DrainEnd \/ Reset \/ Refuse \/ Admit
  BY <1>5, DrainEndKeeps, ResetKeeps, RefuseKeeps, AdmitKeeps
<1>6. CASE ReadChunk \/ BackToPrompt \/ EndRead \/ ReadFails
  BY <1>6, ReadChunkKeeps, BackToPromptKeeps, EndReadKeeps, ReadFailsKeeps
<1>7. CASE LookaheadRound \/ StartBatch \/ Batch \/ RoundFails \/ PipeStep
  BY <1>7, LookaheadRoundKeeps, StartBatchKeeps, BatchKeeps, RoundFailsKeeps, PipeStepKeeps
<1> QED
  BY <1>1, <1>2, <1>3, <1>4, <1>5, <1>6, <1>7 DEF Next, Worker

\* IInv holds of the server loop, whatever it is asked and wherever a forward fails.
THEOREM Inductive == Spec => []IInv
BY InitHolds, StepHolds, PTL DEF Spec

\* Every variable of serve.cpp's loop stays in its type.
THEOREM Typed == Spec => []TypeOK
<1>1. IInv => TypeOK
  BY DEF IInv
<1> QED
  BY <1>1, Inductive, PTL

\* Requests in flight never share a slot, the lanes hold each of them once, and a prompt read, a batch
\* or a lane finds no window half done (run_round, pipe_step, la_drain).
THEOREM EngineSharedHolds == Spec => []EngineShared
<1>1. IInv => EngineShared
  BY DEF IInv, EngineShared
<1> QED
  BY <1>1, Inductive, PTL

\* A request is answered at most once, and nothing follows its answer (finish_request, emit_error).
THEOREM AnsweredOnceHolds == Spec => []AnsweredOnce
<1>1. IInv => AnsweredOnce
  BY DEF IInv
<1> QED
  BY <1>1, Inductive, PTL
=============================================================================
