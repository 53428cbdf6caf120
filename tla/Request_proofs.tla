-------------------------- MODULE Request_proofs --------------------------
(* Proofs about Request. *)
EXTENDS Request, FiniteSetTheorems, SequenceTheorems, NaturalsInduction, WellFoundedInduction, TLAPS

Conv   == [id : Nat \ {0}, dlg : {Dialogue[r] : r \in Requests}, turn : Nat,
           status : {"idle", "queued", "reading", "generating"}]
Side   == [st : {"none", "queued", "generating"}, left : Nat, cancelled : BOOLEAN]
Spoken == [type : {"prefill", "tokens", "done", "error"}, reason : {None, "stop", "length", "cancel"}]

Typed ==
  /\ TypeOK /\ convs \in Seq(Conv) /\ nextId \in Nat \ {0}
  /\ engine \in [Requests -> Side] /\ events \in [Requests -> Seq(Spoken)]

\* What is said of a request: the prompt's end first, the end of the answer last.
Ordered(e) ==
  \A k \in DOMAIN e : (e[k].type = "prefill" => k = 1) /\ (e[k].type \in {"done", "error"} => k = Len(e))

\* It has been answered: nothing follows.
EndIn(e) == e # <<>> /\ e[Len(e)].type \in {"done", "error"}

\* The tokens among the events under way.
TokensIn(e) == Len(e) - (IF e # <<>> /\ e[1].type = "prefill" THEN 1 ELSE 0) - (IF EndIn(e) THEN 1 ELSE 0)

EventsInOrder(r) ==
  /\ pc[r] # "events" => events[r] = <<>> /\ engine[r].st = "none"
  /\ engine[r].st = "queued" => events[r] = <<>>
  /\ engine[r].st # "none" => engine[r].left > 0 /\ ~EndIn(events[r])
  /\ Ordered(events[r])

\* The tokens yielded, those under way and those the engine may still make.
WithinBudget(r) ==
  /\ pc[r] = "events" => generated[r] + TokensIn(events[r]) + engine[r].left <= MaxTokens[r]
  /\ generated[r] <= MaxTokens[r]
  /\ pc[r] \in {"ask", "line"} => generated[r] < MaxTokens[r]

\* A request counts as waiting until it hears that its prompt is read, which is said before anything else.
CountedUntilRead(r) ==
  /\ counted[r] <=> (ToBeRead(r) /\ ~wrapped[r])
  /\ pc[r] = "events" /\ ~heard[r] => engine[r].st = "queued" \/ (events[r] # <<>> /\ events[r][1].type \in {"prefill", "error"})

StopStays(r) == stopped[r] => outcome[r] = "stop" /\ pc[r] \notin {"ask", "line"}

Unbegun(r) == pc[r] = "new" => generated[r] = 0 /\ ~stopped[r] /\ ~wrapped[r]

Local(r) == EventsInOrder(r) /\ WithinBudget(r) /\ CountedUntilRead(r) /\ StopStays(r) /\ Unbegun(r)

InLine == \A r \in Requests : pc[r] = "line" => \E k \in DOMAIN line : line[k] = r

Counted == {r \in Requests : counted[r]}
Taken   == {r \in Requests : pc[r] = "events"}
CountsRight ==
  /\ IsFiniteSet(Counted) /\ waiting = Cardinality(Counted)
  /\ IsFiniteSet(Taken) /\ running = Cardinality(Taken)

OneEntryEach == \A i, j \in DOMAIN convs : convs[i].id = convs[j].id => i = j
KnownIds == \A r \in Requests : InFlight(r) => cid[r] \in 1..(nextId - 1)
Conversations == OneEntryEach /\ KnownIds /\ ConversationsApart

IInv == Typed /\ (\A r \in Requests : Local(r)) /\ InLine /\ CountsRight /\ Conversations

-----------------------------------------------------------------------------
(* Sequences *)

LEMMA Appended ==
  ASSUME NEW S, NEW s \in Seq(S), NEW e \in S
  PROVE  /\ Append(s, e) \in Seq(S) /\ Len(Append(s, e)) = Len(s) + 1 /\ Append(s, e)[Len(s) + 1] = e
         /\ DOMAIN s = 1..Len(s) /\ Len(s) \in Nat /\ DOMAIN Append(s, e) = 1..Len(s) + 1
         /\ \A k \in DOMAIN s : k \in DOMAIN Append(s, e) /\ Append(s, e)[k] = s[k]
         /\ \A k \in DOMAIN Append(s, e) : k = Len(s) + 1 \/ k \in DOMAIN s
<1>1. /\ Append(s, e) \in Seq(S) /\ Len(Append(s, e)) = Len(s) + 1 /\ Append(s, e)[Len(s) + 1] = e
      /\ \A k \in 1..Len(s) : Append(s, e)[k] = s[k]
  BY AppendProperties
<1>2. DOMAIN s = 1..Len(s) /\ Len(s) \in Nat /\ DOMAIN Append(s, e) = 1..Len(Append(s, e))
  BY <1>1, LenProperties
<1> QED
  BY <1>1, <1>2

LEMMA HeadAndTail ==
  ASSUME NEW S, NEW s \in Seq(S), s # <<>>
  PROVE  /\ 1 \in DOMAIN s /\ Head(s) = s[1] /\ Head(s) \in S /\ Tail(s) \in Seq(S)
         /\ Len(s) \in Nat \ {0} /\ Len(Tail(s)) = Len(s) - 1
         /\ DOMAIN s = 1..Len(s) /\ DOMAIN Tail(s) = 1..(Len(s) - 1)
         /\ \A k \in DOMAIN Tail(s) : k + 1 \in DOMAIN s /\ Tail(s)[k] = s[k + 1]
         /\ \A k \in DOMAIN s : k # 1 => k - 1 \in DOMAIN Tail(s) /\ Tail(s)[k - 1] = s[k]
<1>1. /\ Head(s) \in S /\ Tail(s) \in Seq(S) /\ Len(Tail(s)) = Len(s) - 1
      /\ \A k \in 1..Len(Tail(s)) : Tail(s)[k] = s[k + 1]
  BY HeadTailProperties
<1>2. DOMAIN s = 1..Len(s) /\ Len(s) \in Nat \ {0} /\ DOMAIN Tail(s) = 1..Len(Tail(s))
  BY <1>1, LenProperties, EmptySeq
<1> QED
  BY <1>1, <1>2

\* Every element of a sequence with one position left out, or of its end, is one of the sequence, in the same order.
LEMMA Removed ==
  ASSUME NEW S, NEW s \in Seq(S), NEW i \in DOMAIN s
  PROVE  /\ RemoveAt(s, i) \in Seq(S) /\ Len(RemoveAt(s, i)) = Len(s) - 1
         /\ \A k \in 1..(Len(s) - 1) : RemoveAt(s, i)[k] = s[IF k < i THEN k ELSE k + 1]
<1> DEFINE a == SubSeq(s, 1, i - 1)
           b == SubSeq(s, i + 1, Len(s))
<1>1. /\ Len(s) \in Nat /\ i \in 1..Len(s) /\ DOMAIN s = 1..Len(s) /\ i \in Int /\ Len(s) \in Int
      /\ \A k \in 1..Len(s) : s[k] \in S
  BY LenProperties, ElementOfSeq
<1>2. /\ a \in Seq(S) /\ Len(a) = i - 1 /\ \A k \in 1..(i - 1) : a[k] = s[k]
  <2>1. /\ 1 \in Int /\ i - 1 \in Int /\ \A k \in 1..(i - 1) : s[k] \in S
    BY <1>1
  <2>2. /\ a \in Seq(S) /\ Len(a) = (IF 1 <= i - 1 THEN (i - 1) - 1 + 1 ELSE 0)
        /\ \A k \in 1..((i - 1) - 1 + 1) : a[k] = s[1 + k - 1]
    BY <2>1, SubSeqProperties
  <2> HIDE DEF a
  <2> QED
    BY <2>2, <1>1
<1>3. /\ b \in Seq(S) /\ Len(b) = Len(s) - i /\ \A k \in 1..(Len(s) - i) : b[k] = s[k + i]
  <2>1. /\ i + 1 \in Int /\ \A k \in (i + 1)..Len(s) : s[k] \in S
    BY <1>1
  <2>2. /\ b \in Seq(S) /\ Len(b) = (IF i + 1 <= Len(s) THEN Len(s) - (i + 1) + 1 ELSE 0)
        /\ \A k \in 1..(Len(s) - (i + 1) + 1) : b[k] = s[(i + 1) + k - 1]
    BY <1>1, <2>1, SubSeqProperties
  <2> HIDE DEF b
  <2>3. \A k \in 1..(Len(s) - i) : (i + 1) + k - 1 = k + i /\ k \in 1..(Len(s) - (i + 1) + 1)
    BY <1>1
  <2> QED
    BY <2>2, <2>3, <1>1
<1> HIDE DEF a, b
<1>4. /\ a \o b \in Seq(S) /\ Len(a \o b) = Len(s) - 1
      /\ \A k \in 1..(Len(s) - 1) : (a \o b)[k] = IF k <= i - 1 THEN a[k] ELSE b[k - (i - 1)]
  <2>1. /\ a \o b \in Seq(S) /\ Len(a \o b) = Len(a) + Len(b)
        /\ \A k \in 1..(Len(a) + Len(b)) : (a \o b)[k] = IF k <= Len(a) THEN a[k] ELSE b[k - Len(a)]
    BY <1>2, <1>3, ConcatProperties
  <2>2. Len(a) + Len(b) = Len(s) - 1 /\ Len(a) = i - 1
    BY <1>1, <1>2, <1>3
  <2> QED
    BY <2>1, <2>2
<1>5. \A k \in 1..(Len(s) - 1) : (a \o b)[k] = s[IF k < i THEN k ELSE k + 1]
  <2> TAKE k \in 1..(Len(s) - 1)
  <2>1. CASE k < i
    BY <1>1, <1>2, <1>4, <2>1
  <2>2. CASE ~(k < i)
    <3>1. k - (i - 1) \in 1..(Len(s) - i) /\ (k - (i - 1)) + i = k + 1 /\ ~(k <= i - 1)
      BY <1>1, <2>2
    <3> QED
      BY <1>3, <1>4, <2>2, <3>1
  <2> QED
    BY <2>1, <2>2
<1> QED
  BY <1>4, <1>5 DEF RemoveAt, a, b

LEMMA BoundedEnd ==
  ASSUME NEW S, NEW s \in Seq(S)
  PROVE  /\ Bounded(s) \in Seq(S) /\ Len(Bounded(s)) <= MaxConvs
         /\ Len(Bounded(s)) <= Len(s)
         /\ \A k \in 1..Len(Bounded(s)) : /\ k + (Len(s) - Len(Bounded(s))) \in 1..Len(s)
                                          /\ Bounded(s)[k] = s[k + (Len(s) - Len(Bounded(s)))]
<1> DEFINE m == IF Len(s) > MaxConvs THEN MaxConvs ELSE Len(s)
<1>1. /\ Len(s) \in Nat /\ \A k \in 1..Len(s) : s[k] \in S
  BY LenProperties, ElementOfSeq
<1>2. m \in Nat /\ m <= Len(s) /\ m <= MaxConvs
  BY <1>1, RequestAssumption
<1> HIDE DEF m
<1>3. Bounded(s) = SubSeq(s, Len(s) - m + 1, Len(s))
  BY DEF Bounded, m
<1> DEFINE b == SubSeq(s, Len(s) - m + 1, Len(s))
<1>4. Len(s) - m + 1 \in Int /\ Len(s) \in Int /\ \A k \in (Len(s) - m + 1)..Len(s) : s[k] \in S
  BY <1>1, <1>2
<1>5. /\ b \in Seq(S) /\ Len(b) = (IF Len(s) - m + 1 <= Len(s) THEN Len(s) - (Len(s) - m + 1) + 1 ELSE 0)
      /\ \A k \in 1..(Len(s) - (Len(s) - m + 1) + 1) : b[k] = s[(Len(s) - m + 1) + k - 1]
  BY <1>4, SubSeqProperties
<1> HIDE DEF b
<1>6. Len(b) = m
  BY <1>1, <1>2, <1>5
<1>7. \A k \in 1..m : /\ k + (Len(s) - m) \in 1..Len(s) /\ (Len(s) - m + 1) + k - 1 = k + (Len(s) - m)
                      /\ k \in 1..(Len(s) - (Len(s) - m + 1) + 1)
  BY <1>1, <1>2
<1>8. b = Bounded(s)
  BY <1>3 DEF b
<1> QED
  BY <1>2, <1>5, <1>6, <1>7, <1>8

-----------------------------------------------------------------------------
(* The two counts *)

LEMMA OneMore ==
  ASSUME NEW T, IsFiniteSet(T), NEW x, x \notin T
  PROVE  IsFiniteSet(T \cup {x}) /\ Cardinality(T \cup {x}) = Cardinality(T) + 1 /\ Cardinality(T) \in Nat
BY FS_AddElement, FS_CardinalityType

LEMMA OneLess ==
  ASSUME NEW T, IsFiniteSet(T), NEW x \in T
  PROVE  IsFiniteSet(T \ {x}) /\ Cardinality(T \ {x}) = Cardinality(T) - 1 /\ Cardinality(T) \in Nat \ {0}
BY FS_RemoveElement, FS_CardinalityType, FS_EmptySet

CountsNow == IsFiniteSet(Counted) /\ waiting = Cardinality(Counted) /\ waiting \in Nat
TurnsNow  == IsFiniteSet(Taken) /\ running = Cardinality(Taken)

LEMMA WaitingCount ==
  ASSUME NEW r \in Requests, IInv,
         \/ UNCHANGED <<waiting, counted>>
         \/ Uncount(r)
         \/ ~counted[r] /\ waiting' = waiting + 1 /\ counted' = [counted EXCEPT ![r] = TRUE]
  PROVE  /\ CountsNow' /\ counted' \in [Requests -> BOOLEAN]
         /\ \A s \in Requests : counted'[s] => counted[s] \/ s = r
<1> USE DEF IInv, Typed, TypeOK, CountsRight
<1>1. CASE UNCHANGED <<waiting, counted>>
  BY <1>1 DEF CountsNow, Counted
<1>2. CASE Uncount(r)
  <2>1. CASE counted[r]
    <3>1. Counted' = Counted \ {r} /\ r \in Counted /\ waiting' = waiting - 1
      <4>1. \A s \in Requests : counted'[s] <=> (s # r /\ counted[s])
        BY <1>2 DEF Uncount
      <4>2. Counted' = Counted \ {r} /\ r \in Counted
        BY <2>1, <4>1 DEF Counted
      <4>3. waiting' = waiting - 1
        BY <1>2, <2>1 DEF Uncount
      <4> QED
        BY <4>2, <4>3
    <3>2. CountsNow'
      <4>1. IsFiniteSet(Counted) /\ waiting = Cardinality(Counted)
        OBVIOUS
      <4>2. /\ IsFiniteSet(Counted \ {r}) /\ Cardinality(Counted \ {r}) = Cardinality(Counted) - 1
            /\ Cardinality(Counted) \in Nat \ {0}
        BY <3>1, <4>1, OneLess
      <4> HIDE DEF IInv, Typed, TypeOK, CountsRight
      <4> QED
        BY <3>1, <4>1, <4>2 DEF CountsNow
    <3> QED
      BY <1>2, <3>2 DEF Uncount
  <2>2. CASE ~counted[r]
    <3>1. Counted' = Counted /\ waiting' = waiting
      BY <1>2, <2>2 DEF Uncount, Counted
    <3> QED
      BY <1>2, <3>1 DEF Uncount, CountsNow
  <2> QED
    BY <2>1, <2>2
<1>3. CASE ~counted[r] /\ waiting' = waiting + 1 /\ counted' = [counted EXCEPT ![r] = TRUE]
  <2>1. Counted' = Counted \cup {r} /\ r \notin Counted
    BY <1>3 DEF Counted
  <2>2. CountsNow'
    BY <1>3, <2>1, OneMore DEF CountsNow
  <2> QED
    BY <1>3, <2>2
<1> QED
  BY <1>1, <1>2, <1>3

LEMMA Turns ==
  ASSUME NEW r \in Requests, NEW l, IInv, Goto(r, l) \/ UNCHANGED pc,
         \/ UNCHANGED running /\ ((l = "events") <=> (pc[r] = "events"))
         \/ UNCHANGED <<running, pc>>
         \/ GiveTurn /\ l # "events" /\ pc[r] = "events" /\ Goto(r, l)
         \/ running < Slots /\ running' = running + 1 /\ l = "events" /\ pc[r] # "events" /\ Goto(r, l)
  PROVE  TurnsNow' /\ running' \in 0..Slots
<1> USE DEF IInv, Typed, TypeOK, CountsRight, Goto
<1>0. Slots \in Nat
  BY RequestAssumption
<1>1. CASE UNCHANGED running /\ (UNCHANGED pc \/ ((l = "events") <=> (pc[r] = "events")))
  <2>1. Taken' = Taken
    BY <1>1 DEF Taken
  <2> QED
    BY <1>1, <2>1 DEF TurnsNow
<1>2. CASE GiveTurn /\ l # "events" /\ pc[r] = "events" /\ Goto(r, l)
  <2>1. Taken' = Taken \ {r} /\ r \in Taken /\ running' = running - 1
    BY <1>2 DEF Taken, GiveTurn
  <2> QED
    BY <1>0, <2>1, OneLess DEF TurnsNow
<1>3. CASE running < Slots /\ running' = running + 1 /\ l = "events" /\ pc[r] # "events" /\ Goto(r, l)
  <2>1. Taken' = Taken \cup {r} /\ r \notin Taken
    BY <1>3 DEF Taken
  <2> QED
    BY <1>0, <1>3, <2>1, OneMore DEF TurnsNow
<1> QED
  BY <1>1, <1>2, <1>3

-----------------------------------------------------------------------------
(* Conversations *)

\* No other request begins to be in flight, and those that are keep their conversations.
SameClaims == \A s \in Requests : InFlight(s)' => InFlight(s) /\ cid'[s] = cid[s]

ConvsNow == convs' \in Seq(Conv) /\ Len(convs') <= MaxConvs /\ nextId' \in Nat \ {0}
            /\ \A i \in DOMAIN convs' : convs'[i].status \in {"idle", "queued", "reading", "generating"} /\ convs'[i].id < nextId'

LEMMA ConvsUntouched ==
  ASSUME IInv, UNCHANGED <<convs, nextId>>, SameClaims
  PROVE  ConvsNow /\ Conversations'
<1>1. ConvsNow
  BY DEF IInv, Typed, TypeOK, ConvsNow
<1>2. OneEntryEach' /\ KnownIds' /\ ConversationsApart'
  BY DEF IInv, Conversations, OneEntryEach, KnownIds, ConversationsApart, SameClaims
<1> QED
  BY <1>1, <1>2 DEF Conversations

LEMMA StatusKept ==
  ASSUME IInv, NEW r \in Requests, NEW st \in {"idle", "queued", "reading", "generating"},
         Status(r, st), SameClaims, InFlight(r), st = "idle" => ~InFlight(r)'
  PROVE  ConvsNow /\ Conversations'
<1> DEFINE new == [i \in DOMAIN convs |-> IF convs[i].id = cid[r] THEN [convs[i] EXCEPT !.status = st] ELSE convs[i]]
<1>1. convs' = new /\ nextId' = nextId
  BY DEF Status
<1>2. Len(convs) \in Nat /\ DOMAIN convs = 1..Len(convs) /\ \A i \in DOMAIN convs : convs[i] \in Conv
  BY LenProperties, ElementOfSeq DEF IInv, Typed
<1>3. \A i \in DOMAIN convs : new[i] \in Conv /\ new[i].id = convs[i].id
                              /\ new[i].status = IF convs[i].id = cid[r] THEN st ELSE convs[i].status
  BY <1>2 DEF Conv
<1>4. new \in Seq(Conv) /\ DOMAIN new = DOMAIN convs
  <2>1. new \in [1..Len(convs) -> Conv]
    BY <1>2, <1>3
  <2> QED
    BY <1>2, <2>1, SeqDef
<1> HIDE DEF new
<1>5. Len(new) = Len(convs)
  BY <1>2, <1>4, LenProperties
<1>6. ConvsNow
  BY <1>1, <1>2, <1>3, <1>4, <1>5 DEF IInv, Typed, TypeOK, ConvsNow, Conv
<1>7. OneEntryEach'
  BY <1>1, <1>3, <1>4 DEF IInv, Conversations, OneEntryEach
<1>8. KnownIds'
  BY <1>1 DEF IInv, Conversations, KnownIds, SameClaims
<1>9. ConversationsApart'
  <2> SUFFICES ASSUME NEW s \in Requests, InFlight(s)'
               PROVE  /\ \A t \in Requests : InFlight(t)' /\ cid'[t] = cid'[s] => t = s
                      /\ \A i \in DOMAIN new : new[i].id = cid'[s] => new[i].status # "idle"
    BY <1>1 DEF ConversationsApart
  <2>1. InFlight(s) /\ cid'[s] = cid[s]
    BY DEF SameClaims
  <2>2. \A t \in Requests : InFlight(t)' /\ cid'[t] = cid'[s] => t = s
    BY <2>1 DEF SameClaims, IInv, Conversations, ConversationsApart
  <2>3. cid[s] = cid[r] => s = r
    BY <2>1 DEF IInv, Conversations, ConversationsApart
  <2>4. ASSUME NEW i \in DOMAIN new, new[i].id = cid'[s]
        PROVE  new[i].status # "idle"
    <3>1. convs[i].id = cid[s] /\ i \in DOMAIN convs
      BY <1>3, <1>4, <2>1, <2>4
    <3>2. CASE s = r
      BY <1>3, <3>1, <3>2
    <3>3. CASE s # r
      BY <1>3, <2>1, <2>3, <3>1, <3>3 DEF IInv, Conversations, ConversationsApart
    <3> QED
      BY <3>2, <3>3
  <2> QED
    BY <2>2, <2>4
<1> QED
  BY <1>6, <1>7, <1>8, <1>9 DEF Conversations

LEMMA BestIsCandidate ==
  ASSUME IInv, NEW r \in Requests, Candidates(r) # {}
  PROVE  BestOf(Candidates(r)) \in Candidates(r)
<1>1. Len(convs) \in Nat /\ DOMAIN convs = 1..Len(convs) /\ \A i \in DOMAIN convs : convs[i] \in Conv
  BY LenProperties, ElementOfSeq DEF IInv, Typed
<1>2. Turn[r] \in Nat /\ \A i \in Candidates(r) : i \in Nat /\ convs[i].turn \in Nat /\ Turn[r] - convs[i].turn \in Nat
  BY <1>1, RequestAssumption DEF Candidates, Continues, Conv
<1> DEFINE far == {Turn[r] - convs[i].turn : i \in Candidates(r)}
<1>3. PICK x \in far : \A y \in far : <<y, x>> \notin OpToRel(<, Nat)
  <2>1. far \subseteq Nat /\ far # {}
    BY <1>2
  <2> QED
    BY <2>1, NatLessThanWellFounded, WFMin
<1> DEFINE near == {i \in Candidates(r) : Turn[r] - convs[i].turn = x}
<1>4. PICK b \in near : \A c \in near : <<c, b>> \notin OpToRel(<, Nat)
  <2>1. near \subseteq Nat /\ near # {}
    BY <1>2, <1>3
  <2> QED
    BY <2>1, NatLessThanWellFounded, WFMin
<1>5. b \in Candidates(r) /\ x = Turn[r] - convs[b].turn
  BY <1>4
<1>6. \A j \in Candidates(r) : convs[j].turn < convs[b].turn \/ (convs[j].turn = convs[b].turn /\ b <= j)
  <2> TAKE j \in Candidates(r)
  <2>1. /\ j \in Nat /\ b \in Nat /\ convs[j].turn \in Nat /\ convs[b].turn \in Nat /\ Turn[r] \in Nat
        /\ Turn[r] - convs[j].turn \in Nat /\ Turn[r] - convs[b].turn \in Nat
    BY <1>2, <1>5
  <2>2. ~(Turn[r] - convs[j].turn < Turn[r] - convs[b].turn)
    <3>1. <<Turn[r] - convs[j].turn, x>> \notin OpToRel(<, Nat)
      BY <1>3
    <3> QED
      BY <1>5, <2>1, <3>1 DEF OpToRel
  <2>3. CASE convs[j].turn = convs[b].turn
    <3>1. <<j, b>> \notin OpToRel(<, Nat)
      BY <1>4, <1>5, <2>3
    <3>2. ~(j < b)
      BY <2>1, <3>1 DEF OpToRel
    <3> QED
      BY <2>1, <2>3, <3>2
  <2>4. CASE convs[j].turn # convs[b].turn
    BY <2>1, <2>2, <2>4
  <2> QED
    BY <2>3, <2>4
<1> QED
  BY <1>5, <1>6 DEF BestOf

\* Begin takes an idle conversation out of the register, or a new number, and appends it.
LEMMA ConversationBegun ==
  ASSUME IInv, NEW r \in Requests, BeginConversation(r), pc[r] = "new", Goto(r, "ask")
  PROVE  ConvsNow /\ Conversations' /\ cid' \in [Requests -> Nat]
<1> DEFINE best == Candidates(r)
           id   == IF best = {} THEN nextId ELSE convs[BestOf(best)].id
           rest == IF best = {} THEN convs ELSE RemoveAt(convs, BestOf(best))
           own  == [id |-> id, dlg |-> Dialogue[r], turn |-> Turn[r], status |-> "queued"]
           all  == Append(rest, own)
<1>1. /\ convs' = Bounded(all) /\ cid' = [cid EXCEPT ![r] = id]
      /\ nextId' = IF best = {} THEN nextId + 1 ELSE nextId
  BY DEF BeginConversation
<1>2. /\ Len(convs) \in Nat /\ DOMAIN convs = 1..Len(convs) /\ \A i \in DOMAIN convs : convs[i] \in Conv
      /\ nextId \in Nat \ {0} /\ convs \in Seq(Conv)
  BY LenProperties, ElementOfSeq DEF IInv, Typed
<1>3. \A i \in DOMAIN convs : convs[i].id \in 1..(nextId - 1)
  <2>1. \A i \in DOMAIN convs : convs[i].id < nextId
    BY DEF IInv, Typed, TypeOK
  <2>2. \A i \in DOMAIN convs : convs[i].id \in Nat \ {0}
    BY <1>2 DEF Conv
  <2> QED
    BY <1>2, <2>1, <2>2
<1>4. /\ id \in Nat \ {0} /\ id < nextId' /\ nextId' \in Nat \ {0} /\ nextId <= nextId'
      /\ rest \in Seq(Conv)
      /\ \A i \in DOMAIN rest : rest[i].id # id /\ \E j \in DOMAIN convs : rest[i] = convs[j]
      /\ \A i, j \in DOMAIN rest : rest[i].id = rest[j].id => i = j
      /\ \A s \in Requests : InFlight(s) => cid[s] # id
  <2>1. CASE best = {}
    <3>1. id = nextId /\ rest = convs /\ nextId' = nextId + 1
      BY <1>1, <2>1
    <3> HIDE DEF id, rest
    <3> QED
      BY <1>2, <1>3, <3>1 DEF IInv, Conversations, OneEntryEach, KnownIds
  <2>2. CASE best # {}
    <3> DEFINE b == BestOf(best)
    <3>1. b \in DOMAIN convs /\ convs[b].status = "idle"
      <4>1. BestOf(Candidates(r)) \in Candidates(r)
        BY <2>2, BestIsCandidate
      <4> QED
        BY <4>1 DEF Candidates
    <3>2. id = convs[b].id /\ rest = RemoveAt(convs, b) /\ nextId' = nextId
      BY <1>1, <2>2
    <3> HIDE DEF b, id, rest
    <3>3. /\ rest \in Seq(Conv) /\ Len(rest) = Len(convs) - 1
          /\ \A k \in 1..(Len(convs) - 1) : rest[k] = convs[IF k < b THEN k ELSE k + 1]
      BY <1>2, <3>1, <3>2, Removed
    <3>4. DOMAIN rest = 1..(Len(convs) - 1)
      BY <3>3, LenProperties
    <3> DEFINE of(k) == IF k < b THEN k ELSE k + 1
    <3>5. \A k \in DOMAIN rest : of(k) \in DOMAIN convs /\ of(k) # b /\ rest[k] = convs[of(k)]
      BY <1>2, <3>1, <3>3, <3>4
    <3>6. \A k, j \in DOMAIN rest : of(k) = of(j) => k = j
      BY <1>2, <3>1, <3>4
    <3> HIDE DEF of
    <3>7. \A i \in DOMAIN rest : rest[i].id # id /\ \E j \in DOMAIN convs : rest[i] = convs[j]
      BY <3>1, <3>2, <3>5 DEF IInv, Conversations, OneEntryEach
    <3>8. \A i, j \in DOMAIN rest : rest[i].id = rest[j].id => i = j
      BY <3>5, <3>6 DEF IInv, Conversations, OneEntryEach
    <3>9. \A s \in Requests : InFlight(s) => cid[s] # id
      BY <3>1, <3>2 DEF IInv, Conversations, ConversationsApart
    <3> QED
      BY <1>2, <1>3, <3>1, <3>2, <3>3, <3>7, <3>8, <3>9
  <2> QED
    BY <2>1, <2>2
<1> HIDE DEF id, rest, best
<1>5. own \in Conv /\ own.id = id /\ own.status = "queued"
  BY <1>4, RequestAssumption DEF Conv
<1> HIDE DEF own
<1>6. /\ all \in Seq(Conv) /\ Len(all) = Len(rest) + 1 /\ all[Len(rest) + 1] = own
      /\ DOMAIN rest = 1..Len(rest) /\ Len(rest) \in Nat /\ DOMAIN all = 1..Len(rest) + 1
      /\ \A k \in DOMAIN rest : k \in DOMAIN all /\ all[k] = rest[k]
      /\ \A k \in DOMAIN all : k = Len(rest) + 1 \/ k \in DOMAIN rest
  BY <1>4, <1>5, Appended
<1> HIDE DEF all
<1>7. /\ \A i, j \in DOMAIN all : all[i].id = all[j].id => i = j
      /\ \A i \in DOMAIN all : all[i].id < nextId' /\ all[i] \in Conv
      /\ \A i \in DOMAIN all : all[i].id = id => all[i].status # "idle"
      /\ \A i \in DOMAIN all : all[i].id # id => \E j \in DOMAIN convs : all[i] = convs[j]
  <2>1. \A i, j \in DOMAIN all : all[i].id = all[j].id => i = j
    BY <1>4, <1>5, <1>6
  <2>2. \A i \in DOMAIN all : all[i].id < nextId'
    <3> TAKE i \in DOMAIN all
    <3>1. CASE i \in DOMAIN rest
      <4>1. PICK j \in DOMAIN convs : all[i] = convs[j]
        BY <1>4, <1>6, <3>1
      <4> QED
        BY <1>2, <1>3, <1>4, <4>1
    <3>2. CASE i = Len(rest) + 1
      BY <1>4, <1>5, <1>6, <3>2
    <3> QED
      BY <1>6, <3>1, <3>2
  <2>3. \A i \in DOMAIN all : all[i] \in Conv
    BY <1>6, ElementOfSeq
  <2>4. \A i \in DOMAIN all : /\ all[i].id = id => all[i].status # "idle"
                              /\ all[i].id # id => \E j \in DOMAIN convs : all[i] = convs[j]
    BY <1>4, <1>5, <1>6
  <2> QED
    BY <2>1, <2>2, <2>3, <2>4
<1> DEFINE end == Bounded(all)
           d   == Len(all) - Len(end)
<1>8. /\ end \in Seq(Conv) /\ Len(end) <= MaxConvs /\ Len(end) <= Len(all)
      /\ \A k \in 1..Len(end) : k + d \in 1..Len(all) /\ end[k] = all[k + d]
  BY <1>6, BoundedEnd
<1>9. DOMAIN end = 1..Len(end) /\ DOMAIN all = 1..Len(all) /\ Len(end) \in Nat /\ d \in Int
  BY <1>6, <1>8, LenProperties
<1> HIDE DEF end, d
<1>10. /\ \A k \in DOMAIN end : k + d \in DOMAIN all /\ end[k] = all[k + d]
       /\ \A k, j \in DOMAIN end : k + d = j + d => k = j
  BY <1>8, <1>9
<1>11. convs' = end
  BY <1>1 DEF end
<1>12. ConvsNow
  <2>1. \A i \in DOMAIN end : end[i].id < nextId' /\ end[i].status \in {"idle", "queued", "reading", "generating"}
    BY <1>7, <1>10 DEF Conv
  <2> QED
    BY <1>4, <1>8, <1>11, <2>1 DEF ConvsNow
<1>13. OneEntryEach'
  <2> SUFFICES ASSUME NEW i \in DOMAIN end, NEW j \in DOMAIN end, end[i].id = end[j].id
               PROVE  i = j
    BY <1>11 DEF OneEntryEach
  <2>1. i + d \in DOMAIN all /\ j + d \in DOMAIN all /\ all[i + d].id = all[j + d].id
    BY <1>10
  <2> QED
    BY <1>7, <1>10, <2>1
<1>14. cid \in [Requests -> Nat] /\ cid' \in [Requests -> Nat]
  BY <1>1, <1>4 DEF IInv, Typed, TypeOK
<1>15. cid'[r] = id /\ \A s \in Requests : s # r => cid'[s] = cid[s] /\ (InFlight(s)' => InFlight(s))
  BY <1>1, <1>14 DEF InFlight, Goto, IInv, Typed, TypeOK
<1>16. KnownIds'
  <2> SUFFICES ASSUME NEW s \in Requests, InFlight(s)'
               PROVE  cid'[s] \in 1..(nextId' - 1)
    BY DEF KnownIds
  <2> QED
    BY <1>2, <1>4, <1>15 DEF IInv, Conversations, KnownIds
<1>17. ConversationsApart'
  <2> SUFFICES ASSUME NEW s \in Requests, InFlight(s)'
               PROVE  /\ \A t \in Requests : InFlight(t)' /\ cid'[t] = cid'[s] => t = s
                      /\ \A i \in DOMAIN end : end[i].id = cid'[s] => end[i].status # "idle"
    BY <1>11 DEF ConversationsApart
  <2>1. \A t \in Requests : InFlight(t)' /\ cid'[t] = cid'[s] => t = s
    BY <1>4, <1>15 DEF IInv, Conversations, ConversationsApart
  <2>2. ASSUME NEW i \in DOMAIN end, end[i].id = cid'[s]
        PROVE  end[i].status # "idle"
    <3>1. i + d \in DOMAIN all /\ end[i] = all[i + d]
      BY <1>10
    <3>2. CASE s = r
      BY <1>7, <1>15, <2>2, <3>1, <3>2
    <3>3. CASE s # r
      BY <1>4, <1>7, <1>15, <2>2, <3>1, <3>3 DEF IInv, Conversations, ConversationsApart
    <3> QED
      BY <3>2, <3>3
  <2> QED
    BY <2>1, <2>2
<1> QED
  BY <1>12, <1>13, <1>14, <1>16, <1>17 DEF Conversations

-----------------------------------------------------------------------------
(* Events *)

LEMMA FewMarks ==
  ASSUME NEW e \in Seq(Spoken), Ordered(e)
  PROVE  TokensIn(e) \in Nat
<1>1. Len(e) \in Nat /\ DOMAIN e = 1..Len(e)
  BY LenProperties
<1>2. CASE e = <<>>
  BY <1>2, EmptySeq DEF TokensIn, EndIn
<1>3. CASE e # <<>>
  <2>1. Len(e) \in Nat \ {0} /\ 1 \in DOMAIN e
    BY <1>1, <1>3, EmptySeq
  <2>2. CASE Len(e) = 1
    BY <2>1, <2>2 DEF TokensIn, EndIn
  <2>3. CASE Len(e) # 1
    BY <2>1, <2>3 DEF TokensIn, EndIn
  <2> QED
    BY <2>2, <2>3
<1> QED
  BY <1>2, <1>3

LEMMA FirstTaken ==
  ASSUME NEW e \in Seq(Spoken), e # <<>>, Ordered(e)
  PROVE  /\ Head(e) = e[1] /\ Head(e) \in Spoken /\ Tail(e) \in Seq(Spoken) /\ Ordered(Tail(e))
         /\ Head(e).type \in {"done", "error"} => EndIn(e) /\ Tail(e) = <<>>
         /\ Head(e).type \in {"prefill", "tokens"} => (EndIn(Tail(e)) <=> EndIn(e))
         /\ Head(e).type = "prefill" => TokensIn(Tail(e)) = TokensIn(e)
         /\ Head(e).type = "tokens" => TokensIn(Tail(e)) = TokensIn(e) - 1
<1> DEFINE t == Tail(e)
<1>1. /\ 1 \in DOMAIN e /\ Head(e) = e[1] /\ Head(e) \in Spoken /\ t \in Seq(Spoken)
      /\ Len(e) \in Nat \ {0} /\ Len(t) = Len(e) - 1
      /\ DOMAIN e = 1..Len(e) /\ DOMAIN t = 1..(Len(e) - 1)
      /\ \A k \in DOMAIN t : k + 1 \in DOMAIN e /\ t[k] = e[k + 1]
      /\ \A k \in DOMAIN e : k # 1 => k - 1 \in DOMAIN t /\ t[k - 1] = e[k]
  BY HeadAndTail
<1> HIDE DEF t
<1>2. t = <<>> <=> Len(e) = 1
  BY <1>1, EmptySeq
<1>3. Ordered(t) /\ \A k \in DOMAIN t : t[k].type # "prefill"
  BY <1>1 DEF Ordered
<1>4. Head(e).type \in {"done", "error"} => EndIn(e) /\ t = <<>>
  <2> SUFFICES ASSUME Head(e).type \in {"done", "error"}
               PROVE  EndIn(e) /\ t = <<>>
    OBVIOUS
  <2>1. Len(e) = 1
    BY <1>1 DEF Ordered
  <2> QED
    BY <1>1, <1>2, <2>1 DEF EndIn
<1>5. Head(e).type \in {"prefill", "tokens"} => (EndIn(t) <=> EndIn(e))
  <2> SUFFICES ASSUME Head(e).type \in {"prefill", "tokens"}
               PROVE  EndIn(t) <=> EndIn(e)
    OBVIOUS
  <2>1. CASE Len(e) = 1
    BY <1>1, <1>2, <2>1 DEF EndIn
  <2>2. CASE Len(e) # 1
    <3>1. Len(e) \in DOMAIN e /\ t[Len(t)] = e[Len(e)] /\ t # <<>>
      BY <1>1, <1>2, <2>2
    <3> QED
      BY <3>1 DEF EndIn
  <2> QED
    BY <2>1, <2>2
<1>6. ~(t # <<>> /\ t[1].type = "prefill")
  BY <1>1, <1>2, <1>3
<1>7. /\ Head(e).type = "prefill" => TokensIn(t) = TokensIn(e)
      /\ Head(e).type = "tokens" => TokensIn(t) = TokensIn(e) - 1
  <2>1. TokensIn(t) = Len(t) - (IF EndIn(t) THEN 1 ELSE 0)
    BY <1>1, <1>6 DEF TokensIn
  <2>2. TokensIn(e) = Len(e) - (IF Head(e).type = "prefill" THEN 1 ELSE 0) - (IF EndIn(e) THEN 1 ELSE 0)
    BY <1>1 DEF TokensIn
  <2> DEFINE last == IF EndIn(e) THEN 1 ELSE 0
  <2>3. Head(e).type \in {"prefill", "tokens"} => TokensIn(t) = Len(e) - 1 - last
    BY <1>1, <1>5, <2>1
  <2>4. last \in Int
    OBVIOUS
  <2> HIDE DEF last
  <2>5. /\ Head(e).type = "prefill" => TokensIn(e) = Len(e) - 1 - last
        /\ Head(e).type = "tokens" => TokensIn(e) = Len(e) - last
    BY <1>1, <2>2, <2>4 DEF last
  <2> QED
    BY <1>1, <2>3, <2>4, <2>5
<1> QED
  BY <1>1, <1>3, <1>4, <1>5, <1>7 DEF t

LEMMA OneSaid ==
  ASSUME NEW e \in Seq(Spoken), Ordered(e), ~EndIn(e), NEW x \in Spoken, x.type = "prefill" => e = <<>>
  PROVE  /\ e \o <<x>> \in Seq(Spoken) /\ Ordered(e \o <<x>>) /\ e \o <<x>> # <<>>
         /\ EndIn(e \o <<x>>) <=> x.type \in {"done", "error"}
         /\ TokensIn(e \o <<x>>) = TokensIn(e) + (IF x.type = "tokens" THEN 1 ELSE 0)
         /\ (e \o <<x>>)[1] = IF e = <<>> THEN x ELSE e[1]
<1> DEFINE a == Append(e, x)
<1>1. /\ a \in Seq(Spoken) /\ Len(a) = Len(e) + 1 /\ a[Len(e) + 1] = x
      /\ DOMAIN e = 1..Len(e) /\ Len(e) \in Nat /\ DOMAIN a = 1..Len(e) + 1
      /\ \A k \in DOMAIN e : k \in DOMAIN a /\ a[k] = e[k]
      /\ \A k \in DOMAIN a : k = Len(e) + 1 \/ k \in DOMAIN e
  BY Appended
<1>2. a = e \o <<x>>
  BY AppendIsConcat
<1> HIDE DEF a
<1>3. e = <<>> <=> Len(e) = 0
  BY EmptySeq, <1>1
<1>4. a # <<>> /\ a[1] = IF e = <<>> THEN x ELSE e[1]
  BY <1>1, <1>3, EmptySeq
<1>5. EndIn(a) <=> x.type \in {"done", "error"}
  BY <1>1, <1>4 DEF EndIn
<1>6. Ordered(a)
  <2> SUFFICES ASSUME NEW k \in DOMAIN a
               PROVE  (a[k].type = "prefill" => k = 1) /\ (a[k].type \in {"done", "error"} => k = Len(a))
    BY DEF Ordered
  <2>1. CASE k = Len(e) + 1
    BY <1>1, <1>3, <2>1
  <2>2. CASE k \in DOMAIN e
    <3>1. a[k] = e[k] /\ (e[k].type = "prefill" => k = 1) /\ (e[k].type \in {"done", "error"} => k = Len(e))
      BY <1>1, <2>2 DEF Ordered
    <3>2. e # <<>> /\ (k = Len(e) => e[k].type \notin {"done", "error"})
      BY <1>1, <1>3, <2>2 DEF EndIn
    <3> QED
      BY <3>1, <3>2
  <2> QED
    BY <1>1, <2>1, <2>2
<1>7. x.type \in {"prefill", "tokens", "done", "error"}
  BY DEF Spoken
<1>8. TokensIn(a) = TokensIn(e) + (IF x.type = "tokens" THEN 1 ELSE 0)
  <2>1. CASE e = <<>>
    <3>1. TokensIn(e) = 0
      BY <1>3, <2>1 DEF TokensIn, EndIn
    <3> QED
      BY <1>1, <1>3, <1>4, <1>5, <1>7, <2>1, <3>1 DEF TokensIn
  <2>2. CASE e # <<>>
    <3>1. x.type # "prefill" /\ a[1] = e[1]
      BY <1>4, <2>2
    <3>2. TokensIn(a) = Len(e) + 1 - (IF e[1].type = "prefill" THEN 1 ELSE 0) - (IF x.type \in {"done", "error"} THEN 1 ELSE 0)
      BY <1>1, <1>4, <1>5, <3>1 DEF TokensIn
    <3>3. TokensIn(e) = Len(e) - (IF e[1].type = "prefill" THEN 1 ELSE 0)
      BY <1>1, <2>2 DEF TokensIn
    <3> DEFINE first == IF e[1].type = "prefill" THEN 1 ELSE 0
    <3>4. first \in Int /\ TokensIn(e) = Len(e) - first
      BY <3>3
    <3>5. TokensIn(a) = Len(e) + 1 - first - (IF x.type \in {"done", "error"} THEN 1 ELSE 0)
      BY <3>2
    <3> HIDE DEF first
    <3>6. CASE x.type = "tokens"
      BY <1>1, <3>4, <3>5, <3>6
    <3>7. CASE x.type \in {"done", "error"}
      BY <1>1, <3>4, <3>5, <3>7
    <3> QED
      BY <1>7, <3>1, <3>6, <3>7
  <2> QED
    BY <2>1, <2>2
<1> QED
  BY <1>1, <1>2, <1>4, <1>5, <1>6, <1>8

-----------------------------------------------------------------------------
(* A step of one request *)

\* What the others' Local speaks of stays.
OnlyFor(r) ==
  \A s \in Requests : s # r =>
    /\ pc'[s] = pc[s] /\ outcome'[s] = outcome[s] /\ generated'[s] = generated[s] /\ stopped'[s] = stopped[s]
    /\ counted'[s] = counted[s] /\ engine'[s] = engine[s] /\ events'[s] = events[s]
    /\ heard'[s] = heard[s] /\ wrapped'[s] = wrapped[s]

RunTyped ==
  /\ pc' \in [Requests -> {"new", "ask", "line", "events", "decide", "last", "ended"}]
  /\ outcome' \in [Requests -> {None, "stop", "loop", "length", "yield", "cancel"}]
  /\ generated' \in [Requests -> Nat] /\ cid' \in [Requests -> Nat]
  /\ stopped' \in [Requests -> BOOLEAN] /\ guarded' \in [Requests -> BOOLEAN]
  /\ heard' \in [Requests -> BOOLEAN] /\ wrapped' \in [Requests -> BOOLEAN]

EngineTyped ==
  /\ engine' \in [Requests -> Side] /\ events' \in [Requests -> Seq(Spoken)]
  /\ \A s \in Requests : engine'[s].left <= MaxTokens[s]

LEMMA Together ==
  ASSUME IInv, NEW r \in Requests, OnlyFor(r), Local(r)', RunTyped, EngineTyped, ConvsNow, Conversations',
         CountsNow', counted' \in [Requests -> BOOLEAN], TurnsNow', running' \in 0..Slots,
         line' \in Seq(Requests), InLine'
  PROVE  IInv'
<1>1. \A s \in Requests : Local(s)'
  <2> TAKE s \in Requests
  <2>1. CASE s = r
    BY <2>1
  <2>2. CASE s # r
    <3>1. Local(s)
      BY DEF IInv
    <3>2. /\ pc'[s] = pc[s] /\ outcome'[s] = outcome[s] /\ generated'[s] = generated[s] /\ stopped'[s] = stopped[s]
          /\ counted'[s] = counted[s] /\ engine'[s] = engine[s] /\ events'[s] = events[s]
          /\ heard'[s] = heard[s] /\ wrapped'[s] = wrapped[s]
      BY <2>2 DEF OnlyFor
    <3> QED
      BY <3>1, <3>2 DEF Local, EventsInOrder, WithinBudget, CountedUntilRead, ToBeRead, StopStays, Unbegun
  <2> QED
    BY <2>1, <2>2
<1>2. \A s \in Requests : engine'[s].st \in {"none", "queued", "generating"} /\ engine'[s].left \in 0..MaxTokens[s]
  BY RequestAssumption DEF EngineTyped, Side
<1>3. TypeOK'
  BY <1>2 DEF TypeOK, RunTyped, ConvsNow, CountsNow
<1>4. Typed'
  BY <1>3 DEF Typed, EngineTyped, ConvsNow
<1> QED
  BY <1>1, <1>4 DEF IInv, CountsRight, CountsNow, TurnsNow

\* The line, when nobody joins it.
LEMMA LineSame ==
  ASSUME IInv, UNCHANGED line, \A s \in Requests : pc'[s] = "line" => pc[s] = "line"
  PROVE  line' \in Seq(Requests) /\ InLine'
BY DEF IInv, Typed, TypeOK, InLine

\* The head of the line leaves it.
LEMMA LineShorter ==
  ASSUME IInv, NEW r \in Requests, pc[r] = "line", Head(line) = r, line' = Tail(line),
         \A s \in Requests : pc'[s] = "line" => pc[s] = "line" /\ s # r
  PROVE  line' \in Seq(Requests) /\ InLine'
<1>1. line \in Seq(Requests) /\ line # <<>>
  BY EmptySeq DEF IInv, Typed, TypeOK, InLine
<1>2. /\ Head(line) = line[1] /\ Tail(line) \in Seq(Requests)
      /\ \A k \in DOMAIN line : k # 1 => k - 1 \in DOMAIN Tail(line) /\ Tail(line)[k - 1] = line[k]
  BY <1>1, HeadAndTail
<1>3. \A s \in Requests : pc'[s] = "line" => \E k \in DOMAIN line' : line'[k] = s
  <2> TAKE s \in Requests
  <2> HAVE pc'[s] = "line"
  <2>1. PICK k \in DOMAIN line : line[k] = s
    BY DEF IInv, InLine
  <2>2. k # 1
    BY <1>2, <2>1
  <2> QED
    BY <1>2, <2>1, <2>2
<1> QED
  BY <1>2, <1>3 DEF InLine

LEMMA EngineNow ==
  ASSUME IInv
  PROVE  /\ engine \in [Requests -> Side] /\ events \in [Requests -> Seq(Spoken)]
         /\ \A s \in Requests : engine[s].left <= MaxTokens[s]
BY RequestAssumption DEF IInv, Typed, TypeOK

\* What is known of a request before its step.
LEMMA Before ==
  ASSUME IInv, NEW r \in Requests
  PROVE  /\ Local(r) /\ engine[r] \in Side /\ events[r] \in Seq(Spoken) /\ generated[r] \in Nat /\ MaxTokens[r] \in Nat \ {0}
         /\ engine[r].left \in Nat /\ engine[r].st \in {"none", "queued", "generating"} /\ TokensIn(events[r]) \in Nat
<1>1. Local(r) /\ engine[r] \in Side /\ events[r] \in Seq(Spoken) /\ generated[r] \in Nat /\ MaxTokens[r] \in Nat \ {0}
  BY RequestAssumption DEF IInv, Typed, TypeOK
<1> QED
  BY <1>1, FewMarks DEF Side, Local, EventsInOrder

-----------------------------------------------------------------------------
(* run() *)

LEMMA BeginKeeps ==
  ASSUME IInv, NEW r \in Requests, Begin(r)
  PROVE  IInv'
<1>1. /\ pc[r] = "new" /\ pc' = [pc EXCEPT ![r] = "ask"] /\ BeginConversation(r)
      /\ waiting' = waiting + 1 /\ counted' = [counted EXCEPT ![r] = TRUE]
      /\ UNCHANGED <<outcome, generated, stopped, guarded, line, running, engine, events, heard, wrapped>>
  BY DEF Begin, Goto, asked
<1>2. Local(r) /\ generated[r] \in Nat /\ MaxTokens[r] \in Nat \ {0}
  BY Before
<1>3. CountsNow' /\ counted' \in [Requests -> BOOLEAN]
  <2>1. ~counted[r]
    BY <1>1, <1>2 DEF Local, CountedUntilRead, ToBeRead
  <2> QED
    BY <1>1, <2>1, WaitingCount
<1>4. TurnsNow' /\ running' \in 0..Slots
  BY <1>1, Turns DEF Goto
<1>5. ConvsNow /\ Conversations' /\ cid' \in [Requests -> Nat]
  BY <1>1, ConversationBegun DEF Goto
<1>6. line' \in Seq(Requests) /\ InLine'
  <2>1. \A s \in Requests : pc'[s] = "line" => pc[s] = "line"
    BY <1>1 DEF IInv, Typed, TypeOK
  <2> QED
    BY <1>1, <2>1, LineSame
<1>7. OnlyFor(r) /\ pc'[r] = "ask" /\ counted'[r]
  BY <1>1 DEF OnlyFor, IInv, Typed, TypeOK
<1>8. Local(r)'
  <2>1. ~wrapped'[r] /\ ~stopped'[r] /\ generated'[r] = 0
    BY <1>1, <1>2 DEF Local, Unbegun
  <2>2. CountedUntilRead(r)'
    BY <1>7, <2>1 DEF CountedUntilRead, ToBeRead
  <2>3. EventsInOrder(r)' /\ WithinBudget(r)' /\ StopStays(r)' /\ Unbegun(r)'
    BY <1>1, <1>2, <1>7, <2>1 DEF Local, EventsInOrder, WithinBudget, StopStays, Unbegun
  <2> QED
    BY <2>2, <2>3 DEF Local
<1>9. RunTyped /\ EngineTyped
  <2>1. RunTyped
    BY <1>1, <1>5 DEF RunTyped, IInv, Typed, TypeOK
  <2>2. EngineTyped
    BY <1>1, RequestAssumption DEF EngineTyped, IInv, Typed, TypeOK
  <2> QED
    BY <2>1, <2>2
<1> QED
  BY <1>3, <1>4, <1>5, <1>6, <1>7, <1>8, <1>9, Together

LEMMA AskKeeps ==
  ASSUME IInv, NEW r \in Requests, Ask(r)
  PROVE  IInv'
<1>1. /\ pc[r] = "ask" /\ pc' = [pc EXCEPT ![r] = "line"] /\ line' = Append(line, r)
      /\ outcome' = [outcome EXCEPT ![r] = None]
      /\ UNCHANGED <<generated, stopped, guarded, cid, counted, waiting, convs, nextId, running, engine, events, heard, wrapped>>
  BY DEF Ask, Goto, convVars, asked
<1>2. Local(r) /\ generated[r] \in Nat /\ MaxTokens[r] \in Nat \ {0}
  BY Before
<1>3. CountsNow' /\ counted' \in [Requests -> BOOLEAN]
  BY <1>1, WaitingCount
<1>4. TurnsNow' /\ running' \in 0..Slots
  BY <1>1, Turns DEF Goto
<1>5. ConvsNow /\ Conversations'
  <2>1. SameClaims
    BY <1>1 DEF SameClaims, InFlight, IInv, Typed, TypeOK
  <2> QED
    BY <1>1, <2>1, ConvsUntouched
<1>6. line' \in Seq(Requests) /\ InLine'
  <2>1. line \in Seq(Requests)
    BY DEF IInv, Typed, TypeOK
  <2>2. /\ Append(line, r) \in Seq(Requests) /\ Append(line, r)[Len(line) + 1] = r
        /\ Len(line) + 1 \in DOMAIN Append(line, r)
        /\ \A k \in DOMAIN line : k \in DOMAIN Append(line, r) /\ Append(line, r)[k] = line[k]
    BY <2>1, Appended
  <2>3. \A s \in Requests : pc'[s] = "line" => pc[s] = "line" \/ s = r
    BY <1>1 DEF IInv, Typed, TypeOK
  <2> QED
    BY <1>1, <2>2, <2>3 DEF IInv, InLine
<1>7. OnlyFor(r) /\ pc'[r] = "line"
  BY <1>1 DEF OnlyFor, IInv, Typed, TypeOK
<1>8. Local(r)'
  BY <1>1, <1>2, <1>7 DEF Local, EventsInOrder, WithinBudget, CountedUntilRead, ToBeRead, StopStays, Unbegun
<1>9. RunTyped /\ EngineTyped
  BY <1>1 DEF RunTyped, EngineTyped, IInv, Typed, TypeOK
<1> QED
  BY <1>3, <1>4, <1>5, <1>6, <1>7, <1>8, <1>9, Together

LEMMA StartKeeps ==
  ASSUME IInv, NEW r \in Requests, Start(r)
  PROVE  IInv'
<1> DEFINE sent == [st |-> "queued", left |-> Room(r), cancelled |-> FALSE]
<1>1. /\ pc[r] = "line" /\ running < Slots /\ Head(line) = r /\ pc' = [pc EXCEPT ![r] = "events"]
      /\ line' = Tail(line) /\ running' = running + 1 /\ engine' = [engine EXCEPT ![r] = sent]
      /\ Status(r, "reading") /\ heard' = [heard EXCEPT ![r] = FALSE]
      /\ UNCHANGED <<outcome, generated, stopped, guarded, cid, counted, waiting, events, wrapped>>
  BY DEF Start, Goto, run
<1>2. Local(r) /\ generated[r] \in Nat /\ MaxTokens[r] \in Nat \ {0}
  BY Before
<1>3. CountsNow' /\ counted' \in [Requests -> BOOLEAN]
  BY <1>1, WaitingCount
<1>4. TurnsNow' /\ running' \in 0..Slots
  BY <1>1, Turns DEF Goto
<1>5. ConvsNow /\ Conversations'
  <2>1. SameClaims /\ InFlight(r)
    BY <1>1 DEF SameClaims, InFlight, IInv, Typed, TypeOK
  <2> QED
    BY <1>1, <2>1, StatusKept
<1>6. line' \in Seq(Requests) /\ InLine'
  <2>1. \A s \in Requests : pc'[s] = "line" => pc[s] = "line" /\ s # r
    BY <1>1 DEF IInv, Typed, TypeOK
  <2> QED
    BY <1>1, <2>1, LineShorter
<1>7. OnlyFor(r) /\ pc'[r] = "events" /\ engine'[r] = sent /\ ~heard'[r]
  BY <1>1 DEF OnlyFor, IInv, Typed, TypeOK
<1>8. sent \in Side /\ sent.left > 0 /\ sent.st = "queued" /\ generated[r] + sent.left = MaxTokens[r]
  <2>1. generated[r] < MaxTokens[r]
    BY <1>1, <1>2 DEF Local, WithinBudget
  <2> QED
    BY <1>2, <2>1 DEF Room, Side
<1> HIDE DEF sent
<1>9. Local(r)'
  <2>1. events[r] = <<>> /\ TokensIn(<<>>) = 0
    BY <1>1, <1>2, EmptySeq DEF Local, EventsInOrder, TokensIn, EndIn
  <2> QED
    BY <1>1, <1>2, <1>7, <1>8, <2>1 DEF Local, EventsInOrder, WithinBudget, CountedUntilRead, ToBeRead, StopStays, Unbegun, EndIn
<1>10. RunTyped
  BY <1>1 DEF RunTyped, IInv, Typed, TypeOK
<1>11. EngineTyped
  <2>1. sent.left <= MaxTokens[r] /\ sent \in Side
    BY <1>2, <1>8 DEF Side
  <2> QED
    BY <1>1, <2>1 DEF EngineTyped, IInv, Typed, TypeOK
<1> QED
  BY <1>3, <1>4, <1>5, <1>6, <1>7, <1>9, <1>10, <1>11, Together

LEMMA PrefilledKeeps ==
  ASSUME IInv, NEW r \in Requests, Prefilled(r)
  PROVE  IInv'
<1>1. /\ pc[r] = "events" /\ events[r] # <<>> /\ Head(events[r]).type = "prefill"
      /\ events' = [events EXCEPT ![r] = Tail(events[r])] /\ Uncount(r) /\ Status(r, "generating")
      /\ heard' = [heard EXCEPT ![r] = TRUE]
      /\ UNCHANGED <<pc, outcome, generated, stopped, guarded, cid, line, running, engine, wrapped>>
  BY DEF Prefilled, NextEvent, run
<1>2. Local(r) /\ events[r] \in Seq(Spoken) /\ generated[r] \in Nat /\ MaxTokens[r] \in Nat \ {0}
  BY Before
<1>3. CountsNow' /\ counted' \in [Requests -> BOOLEAN]
  BY <1>1, WaitingCount
<1>4. TurnsNow' /\ running' \in 0..Slots
  BY <1>1, Turns
<1>5. ConvsNow /\ Conversations'
  <2>1. SameClaims /\ InFlight(r)
    BY <1>1 DEF SameClaims, InFlight
  <2> QED
    BY <1>1, <2>1, StatusKept
<1>6. line' \in Seq(Requests) /\ InLine'
  BY <1>1, LineSame
<1>7. OnlyFor(r) /\ events'[r] = Tail(events[r]) /\ ~counted'[r] /\ heard'[r]
  BY <1>1 DEF OnlyFor, IInv, Typed, TypeOK, Uncount
<1>8. Local(r)'
  <2>1. /\ Tail(events[r]) \in Seq(Spoken) /\ Ordered(Tail(events[r])) /\ (EndIn(Tail(events[r])) <=> EndIn(events[r]))
        /\ TokensIn(Tail(events[r])) = TokensIn(events[r])
    BY <1>1, <1>2, FirstTaken DEF Local, EventsInOrder
  <2> QED
    BY <1>1, <1>2, <1>7, <2>1 DEF Local, EventsInOrder, WithinBudget, CountedUntilRead, ToBeRead, StopStays, Unbegun
<1>9. RunTyped
  BY <1>1 DEF RunTyped, IInv, Typed, TypeOK
<1>10. EngineTyped
  <2>1. Tail(events[r]) \in Seq(Spoken)
    BY <1>1, <1>2, HeadAndTail
  <2> QED
    BY <1>1, <2>1, RequestAssumption DEF EngineTyped, IInv, Typed, TypeOK
<1> QED
  BY <1>3, <1>4, <1>5, <1>6, <1>7, <1>8, <1>9, <1>10, Together

\* An engine told of a cancel has the same left to do.
LEMMA CancelledSide ==
  ASSUME IInv, NEW r \in Requests, engine' = engine \/ engine' = Cancelled(r)
  PROVE  /\ engine' \in [Requests -> Side] /\ \A s \in Requests : s # r => engine'[s] = engine[s]
         /\ engine'[r].st = engine[r].st /\ engine'[r].left = engine[r].left
         /\ \A s \in Requests : engine'[s].left <= MaxTokens[s]
<1>1. engine \in [Requests -> Side] /\ \A s \in Requests : engine[s].left <= MaxTokens[s]
  BY RequestAssumption DEF IInv, Typed, TypeOK
<1>2. CASE engine' = engine
  BY <1>1, <1>2
<1>3. CASE engine' = Cancelled(r)
  <2> DEFINE c == engine[r].st # "none"
             side == [engine[r] EXCEPT !.cancelled = c]
  <2>1. c \in BOOLEAN /\ engine[r] \in Side
    BY <1>1
  <2>2. engine' = [engine EXCEPT ![r] = side]
    BY <1>1, <1>3 DEF Cancelled
  <2> HIDE DEF c
  <2>3. side \in Side /\ side.st = engine[r].st /\ side.left = engine[r].left
    BY <2>1 DEF Side
  <2> HIDE DEF side
  <2> QED
    BY <1>1, <2>2, <2>3
<1> QED
  BY <1>2, <1>3

LEMMA TokensKeeps ==
  ASSUME IInv, NEW r \in Requests, Tokens(r)
  PROVE  IInv'
<1>1. /\ pc[r] = "events" /\ events[r] # <<>> /\ Head(events[r]).type = "tokens"
      /\ events' = [events EXCEPT ![r] = Tail(events[r])]
      /\ UNCHANGED <<pc, counted, waiting, convs, nextId, line, running, guarded, cid, heard, wrapped>>
  BY DEF Tokens, NextEvent, convVars, run, asked
<1>2. /\ Local(r) /\ events[r] \in Seq(Spoken) /\ generated[r] \in Nat /\ MaxTokens[r] \in Nat \ {0}
      /\ engine[r].left \in Nat
  BY Before
<1>3. CountsNow' /\ counted' \in [Requests -> BOOLEAN]
  BY <1>1, WaitingCount
<1>4. TurnsNow' /\ running' \in 0..Slots
  BY <1>1, Turns
<1>5. ConvsNow /\ Conversations'
  <2>1. SameClaims
    BY <1>1 DEF SameClaims, InFlight
  <2> QED
    BY <1>1, <2>1, ConvsUntouched
<1>6. line' \in Seq(Requests) /\ InLine'
  BY <1>1, LineSame
<1>7. /\ outcome' \in [Requests -> {None, "stop", "loop", "length", "yield", "cancel"}]
      /\ stopped' \in [Requests -> BOOLEAN] /\ generated' \in [Requests -> Nat]
      /\ \A s \in Requests : s # r => outcome'[s] = outcome[s] /\ stopped'[s] = stopped[s] /\ generated'[s] = generated[s]
      /\ generated'[r] <= generated[r] + 1
      /\ stopped[r] => outcome'[r] = outcome[r]
      /\ stopped'[r] => stopped[r] \/ outcome'[r] = "stop"
      /\ engine' = engine \/ engine' = Cancelled(r)
  <2> USE DEF IInv, Typed, TypeOK
  <2>1. CASE stopped[r]
    BY <1>2, <2>1 DEF Tokens, run
  <2>2. CASE ~stopped[r]
    <3>1. PICK o \in {None, "stop", "length", "loop", "yield", "cancel"} :
            /\ Found(r, o) /\ generated' = [generated EXCEPT ![r] = @ + 1] /\ outcome' = [outcome EXCEPT ![r] = o]
            /\ engine' = IF o # outcome[r] \/ stopped'[r] THEN Cancelled(r) ELSE engine
      BY <2>2 DEF Tokens
    <3>2. engine' = engine \/ engine' = Cancelled(r)
      BY <3>1
    <3>3. UNCHANGED stopped \/ (o = "stop" /\ stopped' = [stopped EXCEPT ![r] = TRUE])
      BY <3>1 DEF Found, StopFor
    <3>4. outcome'[r] = o /\ generated'[r] = generated[r] + 1
      BY <3>1
    <3>5. /\ outcome' \in [Requests -> {None, "stop", "loop", "length", "yield", "cancel"}]
          /\ generated' \in [Requests -> Nat]
          /\ \A s \in Requests : s # r => outcome'[s] = outcome[s] /\ generated'[s] = generated[s]
      BY <1>2, <3>1
    <3>6. /\ stopped' \in [Requests -> BOOLEAN] /\ \A s \in Requests : s # r => stopped'[s] = stopped[s]
          /\ stopped'[r] => stopped[r] \/ outcome'[r] = "stop"
      BY <3>3, <3>4
    <3>7. generated'[r] <= generated[r] + 1
      BY <1>2, <3>4
    <3> QED
      BY <2>2, <3>2, <3>5, <3>6, <3>7
  <2> QED
    BY <2>1, <2>2
<1>8. /\ engine' \in [Requests -> Side] /\ \A s \in Requests : s # r => engine'[s] = engine[s]
      /\ engine'[r].st = engine[r].st /\ engine'[r].left = engine[r].left
      /\ \A s \in Requests : engine'[s].left <= MaxTokens[s]
  BY <1>7, CancelledSide
<1>9. OnlyFor(r) /\ events'[r] = Tail(events[r])
  BY <1>1, <1>7, <1>8 DEF OnlyFor, IInv, Typed, TypeOK
<1>10. /\ Tail(events[r]) \in Seq(Spoken) /\ Ordered(Tail(events[r])) /\ (EndIn(Tail(events[r])) <=> EndIn(events[r]))
       /\ TokensIn(Tail(events[r])) = TokensIn(events[r]) - 1 /\ Head(events[r]) = events[r][1]
  BY <1>1, <1>2, FirstTaken DEF Local, EventsInOrder
<1>11. TokensIn(events[r]) \in Nat /\ TokensIn(Tail(events[r])) \in Nat
  BY <1>2, <1>10, FewMarks DEF Local, EventsInOrder
<1>12. Local(r)'
  <2>1. EventsInOrder(r)'
    BY <1>1, <1>2, <1>8, <1>9, <1>10 DEF Local, EventsInOrder
  <2>2. WithinBudget(r)'
    <3>1. /\ generated[r] + TokensIn(events[r]) + engine[r].left <= MaxTokens[r] /\ generated'[r] \in Nat
          /\ generated'[r] <= generated[r] + 1 /\ generated[r] \in Nat /\ engine[r].left \in Nat /\ MaxTokens[r] \in Nat
      BY <1>1, <1>2, <1>7 DEF Local, WithinBudget
    <3>2. ASSUME NEW g \in Nat, NEW h \in Nat, NEW t \in Nat, NEW u \in Nat, NEW l \in Nat, NEW m \in Nat,
                 g + t + l <= m, h <= g + 1, u = t - 1
          PROVE  h + u + l <= m /\ h <= m
      BY <3>2
    <3>3. TokensIn(Tail(events[r])) = TokensIn(events[r]) - 1
      BY <1>10
    <3>4. generated'[r] + TokensIn(Tail(events[r])) + engine[r].left <= MaxTokens[r] /\ generated'[r] <= MaxTokens[r]
      BY <1>11, <3>1, <3>2, <3>3
    <3> QED
      BY <1>1, <1>8, <1>9, <3>4 DEF WithinBudget
  <2>3. CountedUntilRead(r)'
    <3>1. heard[r] /\ ~counted[r]
      BY <1>1, <1>2, <1>10 DEF Local, CountedUntilRead, ToBeRead, EventsInOrder
    <3> QED
      BY <1>1, <3>1 DEF CountedUntilRead, ToBeRead
  <2>4. StopStays(r)' /\ Unbegun(r)'
    BY <1>1, <1>2, <1>7 DEF Local, StopStays, Unbegun
  <2> QED
    BY <2>1, <2>2, <2>3, <2>4 DEF Local
<1>13. RunTyped
  BY <1>1, <1>7 DEF RunTyped, IInv, Typed, TypeOK
<1>14. EngineTyped
  BY <1>1, <1>8, <1>10 DEF EngineTyped, IInv, Typed, TypeOK
<1> QED
  BY <1>3, <1>4, <1>5, <1>6, <1>9, <1>12, <1>13, <1>14, Together

LEMMA DoneKeeps ==
  ASSUME IInv, NEW r \in Requests, Done(r)
  PROVE  IInv'
<1>1. /\ pc[r] = "events" /\ events[r] # <<>> /\ Head(events[r]).type = "done" /\ Goto(r, "decide")
      /\ events' = [events EXCEPT ![r] = Tail(events[r])] /\ GiveTurn
      /\ outcome' = [outcome EXCEPT ![r] = IF outcome[r] = None THEN Head(events[r]).reason ELSE outcome[r]]
      /\ UNCHANGED <<generated, stopped, guarded, cid, counted, waiting, convs, nextId, line, engine, heard, wrapped>>
  BY DEF Done, NextEvent, convVars, asked
<1>2. Local(r) /\ events[r] \in Seq(Spoken) /\ generated[r] \in Nat /\ MaxTokens[r] \in Nat \ {0}
  BY Before
<1>3. /\ Head(events[r]) = events[r][1] /\ Head(events[r]) \in Spoken
      /\ EndIn(events[r]) /\ Tail(events[r]) = <<>>
  BY <1>1, <1>2, FirstTaken DEF Local, EventsInOrder
<1>4. CountsNow' /\ counted' \in [Requests -> BOOLEAN]
  BY <1>1, WaitingCount
<1>5. TurnsNow' /\ running' \in 0..Slots
  BY <1>1, Turns
<1>6. ConvsNow /\ Conversations'
  <2>1. SameClaims
    BY <1>1 DEF SameClaims, InFlight, Goto, IInv, Typed, TypeOK
  <2> QED
    BY <1>1, <2>1, ConvsUntouched
<1>7. line' \in Seq(Requests) /\ InLine'
  <2>1. \A s \in Requests : pc'[s] = "line" => pc[s] = "line"
    BY <1>1 DEF Goto, IInv, Typed, TypeOK
  <2> QED
    BY <1>1, <2>1, LineSame
<1>8. OnlyFor(r) /\ pc'[r] = "decide" /\ events'[r] = <<>>
  BY <1>1, <1>3 DEF OnlyFor, Goto, IInv, Typed, TypeOK
<1>9. Local(r)'
  <2>1. engine[r].st = "none" /\ ~counted[r]
    <3>1. engine[r].st = "none" /\ events[r] # <<>> /\ events[r][1].type = "done"
      BY <1>1, <1>2, <1>3 DEF Local, EventsInOrder
    <3>2. heard[r]
      BY <1>1, <1>2, <3>1 DEF Local, CountedUntilRead
    <3> QED
      BY <1>1, <1>2, <3>1, <3>2 DEF Local, CountedUntilRead, ToBeRead
  <2>2. stopped[r] => outcome'[r] = "stop"
    <3>1. stopped[r] => outcome[r] = "stop"
      BY <1>2 DEF Local, StopStays
    <3>2. outcome'[r] = IF outcome[r] = None THEN Head(events[r]).reason ELSE outcome[r]
      BY <1>1 DEF IInv, Typed, TypeOK
    <3> QED
      BY <3>1, <3>2, RequestAssumption
  <2>3. Ordered(<<>>) /\ ~EndIn(<<>>)
    BY EmptySeq DEF Ordered, EndIn
  <2> QED
    BY <1>1, <1>2, <1>8, <2>1, <2>2, <2>3 DEF Local, EventsInOrder, WithinBudget, CountedUntilRead, ToBeRead, StopStays, Unbegun
<1>10. RunTyped
  <2>1. (IF outcome[r] = None THEN Head(events[r]).reason ELSE outcome[r]) \in {None, "stop", "loop", "length", "yield", "cancel"}
    BY <1>3 DEF Spoken, IInv, Typed, TypeOK
  <2> QED
    BY <1>1, <2>1 DEF RunTyped, Goto, IInv, Typed, TypeOK
<1>11. EngineTyped
  BY <1>1, <1>3, EmptySeq, RequestAssumption DEF EngineTyped, IInv, Typed, TypeOK
<1> QED
  BY <1>4, <1>5, <1>6, <1>7, <1>8, <1>9, <1>10, <1>11, Together

\* Between two answers: only the place, the count and the conversation change.
LEMMA MovesOn ==
  ASSUME IInv, NEW r \in Requests, pc[r] = "decide", NEW l \in {"ask", "last"}, Goto(r, l),
         UNCHANGED <<outcome, generated, stopped, cid, line, running, engine, events>>,
         guarded' \in [Requests -> BOOLEAN],
         l = "ask" => generated[r] < MaxTokens[r] /\ outcome[r] # "stop",
         Status(r, "queued") \/ UNCHANGED <<convs, nextId>>,
         UNCHANGED heard,
         \/ l = "ask" /\ UNCHANGED <<waiting, counted>> /\ wrapped' = [wrapped EXCEPT ![r] = TRUE]
         \/ l = "last" /\ Uncount(r) /\ UNCHANGED wrapped
         \/ /\ l = "ask" /\ waiting' = waiting + 1 /\ counted' = [counted EXCEPT ![r] = TRUE]
            /\ wrapped' = [wrapped EXCEPT ![r] = FALSE]
  PROVE  IInv'
<1>1. Local(r) /\ events[r] \in Seq(Spoken) /\ generated[r] \in Nat /\ MaxTokens[r] \in Nat \ {0}
  BY Before
<1>2. ~counted[r] /\ events[r] = <<>> /\ engine[r].st = "none"
  BY <1>1 DEF Local, CountedUntilRead, ToBeRead, EventsInOrder
<1>3. CountsNow' /\ counted' \in [Requests -> BOOLEAN]
  BY <1>2, WaitingCount
<1>4. /\ \A s \in Requests : s # r => counted'[s] = counted[s] /\ wrapped'[s] = wrapped[s]
      /\ wrapped' \in [Requests -> BOOLEAN]
  BY DEF Uncount, IInv, Typed, TypeOK
<1>5. TurnsNow' /\ running' \in 0..Slots
  BY Turns
<1>6. ConvsNow /\ Conversations'
  <2>1. SameClaims /\ InFlight(r)
    BY DEF SameClaims, InFlight, Goto, IInv, Typed, TypeOK
  <2>2. CASE Status(r, "queued")
    BY <2>1, <2>2, StatusKept
  <2>3. CASE UNCHANGED <<convs, nextId>>
    BY <2>1, <2>3, ConvsUntouched
  <2> QED
    BY <2>2, <2>3
<1>7. line' \in Seq(Requests) /\ InLine'
  <2>1. \A s \in Requests : pc'[s] = "line" => pc[s] = "line"
    BY DEF Goto, IInv, Typed, TypeOK
  <2> QED
    BY <2>1, LineSame
<1>8. OnlyFor(r) /\ pc'[r] = l
  BY <1>4 DEF OnlyFor, Goto, IInv, Typed, TypeOK
<1>9. Local(r)'
  <2>1. counted'[r] <=> (l = "ask" /\ ~wrapped'[r])
    BY <1>2 DEF Uncount, IInv, Typed, TypeOK
  <2> QED
    BY <1>1, <1>2, <1>8, <2>1 DEF Local, EventsInOrder, WithinBudget, CountedUntilRead, ToBeRead, StopStays, Unbegun
<1>10. RunTyped
  BY <1>4 DEF RunTyped, Goto, IInv, Typed, TypeOK
<1>11. EngineTyped
  BY RequestAssumption DEF EngineTyped, IInv, Typed, TypeOK
<1> QED
  BY <1>3, <1>5, <1>6, <1>7, <1>8, <1>9, <1>10, <1>11, Together

LEMMA YieldKeeps ==
  ASSUME IInv, NEW r \in Requests, Yield(r)
  PROVE  IInv'
<1>1. /\ pc[r] = "decide" /\ Goto(r, "ask") /\ generated[r] < MaxTokens[r] /\ outcome[r] # "stop" /\ Status(r, "queued")
      /\ waiting' = waiting + 1 /\ counted' = [counted EXCEPT ![r] = TRUE]
      /\ wrapped' = [wrapped EXCEPT ![r] = FALSE]
      /\ UNCHANGED <<outcome, generated, stopped, guarded, cid, line, running, engine, events, heard>>
  BY DEF Yield, GoOn, run
<1>2. guarded' \in [Requests -> BOOLEAN]
  BY <1>1 DEF IInv, Typed, TypeOK
<1> QED
  BY <1>1, <1>2, MovesOn

LEMMA WrapUpKeeps ==
  ASSUME IInv, NEW r \in Requests, WrapUp(r)
  PROVE  IInv'
<1>1. /\ pc[r] = "decide" /\ Goto(r, "ask") /\ Room(r) > 0 /\ outcome[r] # "stop"
      /\ guarded' = [guarded EXCEPT ![r] = FALSE] /\ wrapped' = [wrapped EXCEPT ![r] = TRUE]
      /\ UNCHANGED <<outcome, generated, stopped, cid, counted, waiting, convs, nextId, line, running, engine, events, heard>>
  BY DEF WrapUp, convVars
<1>2. guarded' \in [Requests -> BOOLEAN]
  BY <1>1 DEF IInv, Typed, TypeOK
<1>3. generated[r] < MaxTokens[r]
  BY <1>1, Before DEF Room
<1> QED
  BY <1>1, <1>2, <1>3, MovesOn

LEMMA BreakKeeps ==
  ASSUME IInv, NEW r \in Requests, Break(r)
  PROVE  IInv'
<1>1. /\ pc[r] = "decide" /\ Goto(r, "last") /\ Uncount(r)
      /\ UNCHANGED <<outcome, generated, stopped, guarded, cid, convs, nextId, line, running, engine, events, heard, wrapped>>
  BY DEF Break, convVars, run, asked
<1>2. guarded' \in [Requests -> BOOLEAN]
  BY <1>1 DEF IInv, Typed, TypeOK
<1> QED
  BY <1>1, <1>2, MovesOn

\* However run() is left.
LEMMA ReturnKeeps ==
  ASSUME IInv, NEW r \in Requests, Return(r), InFlight(r),
         \/ pc[r] # "events" /\ UNCHANGED <<running, events, engine>>
         \/ pc[r] = "events" /\ GiveTurn /\ events' = [events EXCEPT ![r] = <<>>] /\ engine' = Abandoned(r),
         Uncount(r) \/ (pc[r] = "last" /\ UNCHANGED <<counted, waiting>>),
         Status(r, "idle") \/ UNCHANGED <<convs, nextId>>,
         UNCHANGED line \/ (pc[r] = "line" /\ Head(line) = r /\ line' = Tail(line))
  PROVE  IInv'
<1>1. /\ Goto(r, "ended") /\ outcome' = [outcome EXCEPT ![r] = None] /\ generated' = [generated EXCEPT ![r] = 0]
      /\ stopped' = [stopped EXCEPT ![r] = FALSE] /\ guarded' = [guarded EXCEPT ![r] = TRUE]
      /\ cid' = [cid EXCEPT ![r] = 0]
      /\ heard' = [heard EXCEPT ![r] = FALSE] /\ wrapped' = [wrapped EXCEPT ![r] = FALSE]
  BY DEF Return
<1>2. Local(r) /\ MaxTokens[r] \in Nat \ {0}
  BY Before
<1>3. CountsNow' /\ counted' \in [Requests -> BOOLEAN]
  BY WaitingCount
<1>4. ~counted'[r] /\ \A s \in Requests : s # r => counted'[s] = counted[s]
  BY <1>2 DEF Uncount, IInv, Typed, TypeOK, Local, CountedUntilRead, ToBeRead
<1>5. TurnsNow' /\ running' \in 0..Slots
  BY <1>1, Turns
<1>6. ConvsNow /\ Conversations'
  <2>1. SameClaims /\ ~InFlight(r)'
    BY <1>1 DEF SameClaims, InFlight, Goto, IInv, Typed, TypeOK
  <2>2. CASE Status(r, "idle")
    BY <2>1, <2>2, StatusKept
  <2>3. CASE UNCHANGED <<convs, nextId>>
    BY <2>1, <2>3, ConvsUntouched
  <2> QED
    BY <2>2, <2>3
<1>7. line' \in Seq(Requests) /\ InLine'
  <2>1. \A s \in Requests : pc'[s] = "line" => pc[s] = "line" /\ s # r
    BY <1>1 DEF Goto, IInv, Typed, TypeOK
  <2> QED
    BY <2>1, LineSame, LineShorter
<1> DEFINE gone == [st |-> "none", left |-> 0, cancelled |-> FALSE]
<1>8. /\ EngineTyped /\ events'[r] = <<>> /\ engine'[r].st = "none"
      /\ \A s \in Requests : s # r => events'[s] = events[s] /\ engine'[s] = engine[s]
  <2>1. /\ engine \in [Requests -> Side] /\ events \in [Requests -> Seq(Spoken)]
        /\ \A s \in Requests : engine[s].left <= MaxTokens[s]
    BY EngineNow
  <2>2. gone \in Side /\ gone.left <= MaxTokens[r] /\ gone.st = "none" /\ <<>> \in Seq(Spoken)
    BY <1>2, EmptySeq DEF Side
  <2>3. CASE UNCHANGED <<events, engine>> /\ pc[r] # "events"
    BY <1>2, <2>1, <2>3 DEF EngineTyped, Local, EventsInOrder
  <2>4. CASE events' = [events EXCEPT ![r] = <<>>] /\ engine' = [engine EXCEPT ![r] = gone]
    <3> HIDE DEF gone
    <3> QED
      BY <2>1, <2>2, <2>4 DEF EngineTyped
  <2> QED
    BY <2>3, <2>4 DEF Abandoned
<1>9. OnlyFor(r) /\ pc'[r] = "ended" /\ generated'[r] = 0 /\ ~stopped'[r]
  BY <1>1, <1>4, <1>8 DEF OnlyFor, Goto, IInv, Typed, TypeOK
<1>10. Local(r)'
  <2>1. Ordered(<<>>) /\ ~EndIn(<<>>)
    BY EmptySeq DEF Ordered, EndIn
  <2> QED
    BY <1>2, <1>4, <1>8, <1>9, <2>1 DEF Local, EventsInOrder, WithinBudget, CountedUntilRead, ToBeRead, StopStays, Unbegun
<1>11. RunTyped
  BY <1>1 DEF RunTyped, Goto, IInv, Typed, TypeOK
<1> QED
  BY <1>3, <1>5, <1>6, <1>7, <1>8, <1>9, <1>10, <1>11, Together

LEMMA LeavesKeep ==
  ASSUME IInv, NEW r \in Requests, StartFails(r) \/ WrapUpFails(r) \/ PassRest(r) \/ PassRestFails(r) \/ Fail(r)
  PROVE  IInv'
<1>1. CASE StartFails(r)
  <2>1. /\ pc[r] = "line" /\ InFlight(r) /\ Head(line) = r /\ Return(r) /\ line' = Tail(line)
        /\ Uncount(r) /\ Status(r, "idle") /\ UNCHANGED <<running, events, engine>>
    BY <1>1 DEF StartFails, InFlight
  <2> QED
    BY <2>1, ReturnKeeps
<1>2. CASE WrapUpFails(r)
  <2>1. /\ pc[r] = "decide" /\ InFlight(r) /\ Return(r) /\ UNCHANGED line
        /\ Uncount(r) /\ Status(r, "idle") /\ UNCHANGED <<running, events, engine>>
    BY <1>2 DEF WrapUpFails, InFlight
  <2> QED
    BY <2>1, ReturnKeeps
<1>3. CASE PassRest(r) \/ PassRestFails(r)
  <2>1. /\ pc[r] = "last" /\ InFlight(r) /\ Return(r) /\ UNCHANGED line /\ UNCHANGED <<counted, waiting>>
        /\ Status(r, "idle") \/ UNCHANGED <<convs, nextId>>
        /\ UNCHANGED <<running, events, engine>>
    BY <1>3 DEF PassRest, PassRestFails, InFlight, convVars
  <2> QED
    BY <2>1, ReturnKeeps
<1>4. CASE Fail(r)
  <2>1. /\ pc[r] = "events" /\ InFlight(r) /\ Return(r) /\ UNCHANGED line /\ GiveTurn
        /\ Uncount(r) /\ Status(r, "idle") /\ events' = [events EXCEPT ![r] = <<>>] /\ engine' = Abandoned(r)
    BY <1>4 DEF Fail, NextEvent, InFlight
  <2> QED
    BY <2>1, ReturnKeeps
<1> QED
  BY <1>1, <1>2, <1>3, <1>4

-----------------------------------------------------------------------------
(* The engine's side *)

\* The engine says one thing of a request, with so many tokens left to make.
LEMMA SaidKeeps ==
  ASSUME IInv, NEW r \in Requests, engine[r].st # "none", NEW es \in Seq(Spoken), NEW side \in Side,
         events' = [events EXCEPT ![r] = es], engine' = [engine EXCEPT ![r] = side],
         UNCHANGED <<pc, outcome, generated, stopped, guarded, cid, counted, waiting, convs, nextId, line, running>>,
         UNCHANGED <<heard, wrapped>>,
         Ordered(es), es # <<>>, side.st # "queued", side.st # "none" => side.left > 0 /\ ~EndIn(es),
         TokensIn(es) + side.left <= TokensIn(events[r]) + engine[r].left, side.left <= engine[r].left,
         events[r] = <<>> => es[1].type \in {"prefill", "error"} \/ engine[r].st # "queued",
         events[r] # <<>> => es[1] = events[r][1]
  PROVE  IInv'
<1>1. /\ Local(r) /\ events[r] \in Seq(Spoken) /\ generated[r] \in Nat /\ MaxTokens[r] \in Nat \ {0}
      /\ engine[r].left \in Nat /\ TokensIn(events[r]) \in Nat
  BY Before
<1>2. pc[r] = "events"
  BY <1>1 DEF Local, EventsInOrder
<1>3. CountsNow' /\ counted' \in [Requests -> BOOLEAN]
  BY WaitingCount
<1>4. TurnsNow' /\ running' \in 0..Slots
  BY Turns
<1>5. ConvsNow /\ Conversations'
  <2>1. SameClaims
    BY DEF SameClaims, InFlight
  <2> QED
    BY <2>1, ConvsUntouched
<1>6. line' \in Seq(Requests) /\ InLine'
  BY LineSame
<1>7. OnlyFor(r) /\ events'[r] = es /\ engine'[r] = side
  BY DEF OnlyFor, IInv, Typed, TypeOK
<1>8. Local(r)'
  <2>1. EventsInOrder(r)'
    BY <1>2, <1>7 DEF EventsInOrder
  <2>2. WithinBudget(r)'
    <3>1. TokensIn(es) \in Nat /\ side.left \in Nat
      BY FewMarks DEF Side
    <3>2. generated[r] + TokensIn(events[r]) + engine[r].left <= MaxTokens[r]
      BY <1>1, <1>2 DEF Local, WithinBudget
    <3>3. ASSUME NEW g \in Nat, NEW t \in Nat, NEW l \in Nat, NEW u \in Nat, NEW k \in Nat, NEW m \in Nat,
                 g + t + l <= m, u + k <= t + l
          PROVE  g + u + k <= m
      BY <3>3
    <3>4. generated[r] + TokensIn(es) + side.left <= MaxTokens[r]
      BY <1>1, <3>1, <3>2, <3>3
    <3> QED
      BY <1>1, <1>2, <1>7, <3>4 DEF Local, WithinBudget
  <2>3. CountedUntilRead(r)'
    BY <1>1, <1>2, <1>7 DEF Local, CountedUntilRead, ToBeRead, EventsInOrder
  <2>4. StopStays(r)' /\ Unbegun(r)'
    BY <1>1 DEF Local, StopStays, Unbegun
  <2> QED
    BY <2>1, <2>2, <2>3, <2>4 DEF Local
<1>9. RunTyped
  BY DEF RunTyped, IInv, Typed, TypeOK
<1>10. EngineTyped
  <2>1. side.left <= MaxTokens[r]
    <3>1. engine[r].left <= MaxTokens[r] /\ side.left \in Nat
      BY <1>1 DEF IInv, Typed, TypeOK, Side
    <3> QED
      BY <1>1, <3>1
  <2>2. \A s \in Requests : engine[s].left <= MaxTokens[s]
    BY RequestAssumption DEF IInv, Typed, TypeOK
  <2> QED
    BY <2>1, <2>2 DEF EngineTyped, IInv, Typed, TypeOK
<1> QED
  BY <1>3, <1>4, <1>5, <1>6, <1>7, <1>8, <1>9, <1>10, Together

LEMMA EngineKeeps ==
  ASSUME IInv, NEW r \in Requests, Engine(r)
  PROVE  IInv'
<1> DEFINE e == events[r]
           n == engine[r].left
           side(st, left) == [st |-> st, left |-> left, cancelled |-> engine[r].cancelled /\ st # "none"]
<1>1. /\ Local(r) /\ e \in Seq(Spoken) /\ n \in Nat /\ TokensIn(e) \in Nat /\ engine[r] \in Side
      /\ engine[r].st \in {"none", "queued", "generating"} /\ engine \in [Requests -> Side]
  BY Before, EngineNow
<1>2. engine[r].st # "none"
  BY DEF Engine, Read, Round, Stop, Broken
<1>3. Ordered(e) /\ ~EndIn(e) /\ n > 0 /\ (engine[r].st = "queued" => e = <<>>)
  BY <1>1, <1>2 DEF Local, EventsInOrder
<1>4. /\ UNCHANGED <<pc, outcome, generated, stopped, guarded, cid, counted, waiting, convs, nextId, line, running>>
      /\ UNCHANGED <<heard, wrapped>>
  BY DEF Engine, Read, Round, Stop, Broken, OfHandler, run, convVars, asked
<1>5. \A st \in {"none", "generating"} : \A left \in Nat :
        side(st, left) \in Side /\ side(st, left).st = st /\ side(st, left).left = left
  <2> TAKE st \in {"none", "generating"}
  <2> TAKE left \in Nat
  <2>1. (engine[r].cancelled /\ st # "none") \in BOOLEAN
    OBVIOUS
  <2> QED
    BY <2>1 DEF Side
<1>6. \A st, left : EngineSt(r, st, left) => engine' = [engine EXCEPT ![r] = side(st, left)]
  BY <1>1 DEF EngineSt
<1>7. \A es : Say(r, es) => events' = [events EXCEPT ![r] = e \o es]
  BY DEF Say
<1> HIDE DEF side
<1>8. /\ Event("prefill") \in Spoken /\ Event("tokens") \in Spoken /\ Event("error") \in Spoken
      /\ \A reason \in {"stop", "length", "cancel"} : DoneFor(reason) \in Spoken /\ DoneFor(reason).type = "done"
      /\ Event("prefill").type = "prefill" /\ Event("tokens").type = "tokens" /\ Event("error").type = "error"
  BY DEF Event, DoneFor, Spoken
<1>9. \A x \in Spoken : (x.type = "prefill" => e = <<>>) =>
        /\ e \o <<x>> \in Seq(Spoken) /\ Ordered(e \o <<x>>) /\ e \o <<x>> # <<>>
        /\ EndIn(e \o <<x>>) <=> x.type \in {"done", "error"}
        /\ TokensIn(e \o <<x>>) = TokensIn(e) + (IF x.type = "tokens" THEN 1 ELSE 0)
        /\ (e \o <<x>>)[1] = IF e = <<>> THEN x ELSE e[1]
  BY <1>1, <1>3, OneSaid
<1>10. CASE Read(r)
  <2>1. /\ engine[r].st = "queued" /\ engine' = [engine EXCEPT ![r] = side("generating", n)]
        /\ events' = [events EXCEPT ![r] = e \o <<Event("prefill")>>]
    BY <1>6, <1>7, <1>10 DEF Read
  <2> DEFINE es == e \o <<Event("prefill")>>
             sd == side("generating", n)
  <2>2. /\ es \in Seq(Spoken) /\ Ordered(es) /\ es # <<>> /\ ~EndIn(es) /\ TokensIn(es) = TokensIn(e)
        /\ es[1].type = "prefill" /\ e = <<>>
    BY <1>1, <1>3, <1>8, <1>9, <2>1
  <2>3. sd \in Side /\ sd.st = "generating" /\ sd.left = n
    BY <1>1, <1>5
  <2> HIDE DEF es, sd, e, n
  <2>4. events' = [events EXCEPT ![r] = es] /\ engine' = [engine EXCEPT ![r] = sd]
    BY <2>1 DEF es, sd
  <2>5. TokensIn(es) + sd.left <= TokensIn(events[r]) + engine[r].left /\ sd.left <= engine[r].left
    BY <1>1, <2>2, <2>3 DEF e, n
  <2>6. /\ es # <<>> /\ sd.st # "queued" /\ (sd.st # "none" => sd.left > 0 /\ ~EndIn(es))
        /\ (events[r] = <<>> => es[1].type \in {"prefill", "error"} \/ engine[r].st # "queued")
        /\ (events[r] # <<>> => es[1] = events[r][1])
    BY <1>3, <2>2, <2>3 DEF e
  <2> QED
    BY <1>2, <1>4, <2>2, <2>3, <2>4, <2>5, <2>6, SaidKeeps
<1>11. ASSUME NEW x \in Spoken, x.type \in {"done", "error"}, x.type # "error" => engine[r].st = "generating",
              engine' = [engine EXCEPT ![r] = side("none", 0)], events' = [events EXCEPT ![r] = e \o <<x>>]
       PROVE  IInv'
  <2> DEFINE es == e \o <<x>>
             sd == side("none", 0)
  <2>1. /\ es \in Seq(Spoken) /\ Ordered(es) /\ es # <<>> /\ TokensIn(es) = TokensIn(e)
        /\ es[1] = IF e = <<>> THEN x ELSE e[1]
    BY <1>1, <1>9, <1>11
  <2>2. sd \in Side /\ sd.st = "none" /\ sd.left = 0
    BY <1>5
  <2> HIDE DEF es, sd, e, n
  <2>3. events' = [events EXCEPT ![r] = es] /\ engine' = [engine EXCEPT ![r] = sd]
    BY <1>11 DEF es, sd
  <2>4. TokensIn(es) + sd.left <= TokensIn(events[r]) + engine[r].left /\ sd.left <= engine[r].left
    BY <1>1, <2>1, <2>2 DEF e, n
  <2>5. /\ sd.st # "queued" /\ (sd.st # "none" => sd.left > 0 /\ ~EndIn(es))
        /\ (events[r] = <<>> => es[1].type \in {"prefill", "error"} \/ engine[r].st # "queued")
        /\ (events[r] # <<>> => es[1] = events[r][1])
    BY <1>11, <2>1, <2>2 DEF e
  <2> QED
    BY <1>2, <1>4, <2>1, <2>2, <2>3, <2>4, <2>5, SaidKeeps
<1>12. CASE Stop(r)
  <2>1. /\ engine[r].st = "generating" /\ engine' = [engine EXCEPT ![r] = side("none", 0)]
        /\ events' = [events EXCEPT ![r] = e \o <<DoneFor("stop")>>]
    BY <1>6, <1>7, <1>12 DEF Stop
  <2> QED
    BY <1>8, <1>11, <2>1
<1>13. CASE Broken(r)
  <2>1. /\ engine' = [engine EXCEPT ![r] = side("none", 0)]
        /\ events' = [events EXCEPT ![r] = e \o <<Event("error")>>]
    BY <1>6, <1>7, <1>13 DEF Broken
  <2> QED
    BY <1>8, <1>11, <2>1
<1> DEFINE more == e \o <<Event("tokens")>>
<1>14. /\ more \in Seq(Spoken) /\ Ordered(more) /\ more # <<>> /\ ~EndIn(more) /\ TokensIn(more) = TokensIn(e) + 1
       /\ (e # <<>> => more[1] = e[1])
  BY <1>1, <1>8, <1>9
<1>15. ASSUME engine[r].st = "generating", n > 1,
              engine' = [engine EXCEPT ![r] = side("generating", n - 1)], events' = [events EXCEPT ![r] = more]
       PROVE  IInv'
  <2> DEFINE sd == side("generating", n - 1)
  <2>1. sd \in Side /\ sd.st = "generating" /\ sd.left = n - 1
    BY <1>1, <1>5, <1>15
  <2> HIDE DEF sd, e, n, more
  <2>2. engine' = [engine EXCEPT ![r] = sd]
    BY <1>15 DEF sd
  <2>3. TokensIn(more) + sd.left <= TokensIn(events[r]) + engine[r].left /\ sd.left <= engine[r].left /\ sd.left > 0
    BY <1>1, <1>14, <1>15, <2>1 DEF e, n
  <2>4. /\ sd.st # "queued" /\ (sd.st # "none" => sd.left > 0 /\ ~EndIn(more))
        /\ (events[r] = <<>> => more[1].type \in {"prefill", "error"} \/ engine[r].st # "queued")
        /\ (events[r] # <<>> => more[1] = events[r][1])
    BY <1>14, <1>15, <2>1, <2>3 DEF e
  <2> QED
    BY <1>2, <1>4, <1>14, <1>15, <2>1, <2>2, <2>3, <2>4, SaidKeeps
<1>16. ASSUME NEW reason \in {"length", "cancel"}, engine[r].st = "generating",
              engine' = [engine EXCEPT ![r] = side("none", 0)],
              events' = [events EXCEPT ![r] = e \o <<Event("tokens"), DoneFor(reason)>>]
       PROVE  IInv'
  <2> DEFINE d  == DoneFor(reason)
             es == more \o <<d>>
             sd == side("none", 0)
  <2>1. d \in Spoken /\ d.type = "done"
    BY <1>8
  <2>2. e \o <<Event("tokens"), d>> = es
    <3> DEFINE t == Event("tokens")
    <3>1. t \in Spoken /\ <<t>> \in Seq(Spoken) /\ <<d>> \in Seq(Spoken) /\ <<t, d>> = <<t>> \o <<d>>
      BY <1>8, <2>1
    <3> HIDE DEF t, d, e
    <3>2. (e \o <<t>>) \o <<d>> = e \o (<<t>> \o <<d>>)
      BY <1>1, <3>1, ConcatAssociative
    <3> QED
      BY <3>1, <3>2 DEF t
  <2> HIDE DEF d
  <2>3. /\ es \in Seq(Spoken) /\ Ordered(es) /\ es # <<>> /\ TokensIn(es) = TokensIn(e) + 1
        /\ es[1] = more[1]
    <3>1. more \in Seq(Spoken) /\ Ordered(more) /\ ~EndIn(more) /\ more # <<>> /\ (d.type = "prefill" => more = <<>>)
      BY <1>14, <2>1
    <3> HIDE DEF more
    <3>2. /\ es \in Seq(Spoken) /\ Ordered(es) /\ es # <<>>
          /\ TokensIn(es) = TokensIn(more) + (IF d.type = "tokens" THEN 1 ELSE 0)
          /\ es[1] = IF more = <<>> THEN d ELSE more[1]
      BY <2>1, <3>1, OneSaid
    <3> QED
      BY <1>1, <1>14, <2>1, <3>1, <3>2
  <2>4. sd \in Side /\ sd.st = "none" /\ sd.left = 0
    BY <1>5
  <2>5. events' = [events EXCEPT ![r] = es] /\ engine' = [engine EXCEPT ![r] = sd]
    BY <1>16, <2>2 DEF d
  <2> HIDE DEF es, sd, e, n, more
  <2>6. TokensIn(es) + sd.left <= TokensIn(events[r]) + engine[r].left /\ sd.left <= engine[r].left
    BY <1>1, <1>3, <2>3, <2>4 DEF e, n
  <2>7. /\ sd.st # "queued" /\ (sd.st # "none" => sd.left > 0 /\ ~EndIn(es))
        /\ (events[r] = <<>> => es[1].type \in {"prefill", "error"} \/ engine[r].st # "queued")
        /\ (events[r] # <<>> => es[1] = events[r][1])
    BY <1>14, <1>16, <2>3, <2>4 DEF e
  <2> QED
    BY <1>2, <1>4, <2>3, <2>4, <2>5, <2>6, <2>7, SaidKeeps
<1>17. CASE Round(r)
  <2>1. engine[r].st = "generating"
    BY <1>17 DEF Round
  <2>2. \/ EngineSt(r, "none", 0) /\ \E reason \in {"length", "cancel"} : Say(r, <<Event("tokens"), DoneFor(reason)>>)
        \/ n - 1 # 0 /\ EngineSt(r, "generating", n - 1) /\ Say(r, <<Event("tokens")>>)
    <3>1. CASE n - 1 = 0
      BY <1>17, <3>1 DEF Round
    <3>2. CASE n - 1 # 0 /\ n - 1 > 0 /\ engine[r].cancelled
      BY <1>17, <3>2 DEF Round
    <3>3. CASE n - 1 # 0 /\ ~(n - 1 > 0 /\ engine[r].cancelled)
      BY <1>17, <3>3 DEF Round
    <3> QED
      BY <3>1, <3>2, <3>3
  <2>3. CASE EngineSt(r, "none", 0) /\ \E reason \in {"length", "cancel"} : Say(r, <<Event("tokens"), DoneFor(reason)>>)
    <3>1. PICK reason \in {"length", "cancel"} : Say(r, <<Event("tokens"), DoneFor(reason)>>)
      BY <2>3
    <3>2. /\ engine' = [engine EXCEPT ![r] = side("none", 0)]
          /\ events' = [events EXCEPT ![r] = e \o <<Event("tokens"), DoneFor(reason)>>]
      BY <1>6, <1>7, <2>3, <3>1
    <3> QED
      BY <1>16, <2>1, <3>2
  <2>4. CASE n - 1 # 0 /\ EngineSt(r, "generating", n - 1) /\ Say(r, <<Event("tokens")>>)
    <3>1. /\ engine' = [engine EXCEPT ![r] = side("generating", n - 1)]
          /\ events' = [events EXCEPT ![r] = more]
      BY <1>6, <1>7, <2>4
    <3>2. n > 1
      BY <1>1, <1>3, <2>4
    <3> QED
      BY <1>15, <2>1, <3>1, <3>2
  <2> QED
    BY <2>2, <2>3, <2>4
<1> QED
  BY <1>10, <1>12, <1>13, <1>17 DEF Engine

-----------------------------------------------------------------------------
(* The specification *)

LEMMA InitHolds == Init => IInv
<1> SUFFICES ASSUME Init
             PROVE  IInv
  OBVIOUS
<1> USE DEF Init
<1>1. /\ pc = [r \in Requests |-> "new"] /\ outcome = [r \in Requests |-> None]
      /\ generated = [r \in Requests |-> 0] /\ cid = [r \in Requests |-> 0]
      /\ stopped = [r \in Requests |-> FALSE] /\ counted = [r \in Requests |-> FALSE]
      /\ heard = [r \in Requests |-> FALSE] /\ wrapped = [r \in Requests |-> FALSE]
      /\ guarded = [r \in Requests |-> TRUE] /\ waiting = 0 /\ convs = <<>> /\ nextId = 1 /\ line = <<>> /\ running = 0
  OBVIOUS
<1> DEFINE idle == [st |-> "none", left |-> 0, cancelled |-> FALSE]
<1>2. idle \in Side /\ idle.st = "none" /\ idle.left = 0
  BY DEF Side
<1>3. engine = [r \in Requests |-> idle] /\ events = [r \in Requests |-> <<>>]
  OBVIOUS
<1> HIDE DEF Init, idle
<1>4. <<>> \in Seq(Conv) /\ Len(<<>>) = 0 /\ <<>> \in Seq(Requests) /\ <<>> \in Seq(Spoken) /\ DOMAIN <<>> = {}
  BY EmptySeq
<1>5. MaxConvs \in Nat /\ Slots \in Nat /\ MaxTokens \in [Requests -> Nat \ {0}]
  BY RequestAssumption
<1>6. engine \in [Requests -> Side] /\ events \in [Requests -> Seq(Spoken)]
  BY <1>2, <1>3, <1>4
<1>7. TypeOK
  <2>1. /\ pc \in [Requests -> {"new", "ask", "line", "events", "decide", "last", "ended"}]
        /\ outcome \in [Requests -> {None, "stop", "loop", "length", "yield", "cancel"}]
        /\ generated \in [Requests -> Nat] /\ cid \in [Requests -> Nat] /\ waiting \in Nat
        /\ stopped \in [Requests -> BOOLEAN] /\ guarded \in [Requests -> BOOLEAN] /\ counted \in [Requests -> BOOLEAN]
        /\ heard \in [Requests -> BOOLEAN] /\ wrapped \in [Requests -> BOOLEAN]
    BY <1>1
  <2>2. Len(convs) <= MaxConvs /\ DOMAIN convs = {} /\ line \in Seq(Requests) /\ running \in 0..Slots
    BY <1>1, <1>4, <1>5
  <2>3. \A r \in Requests : engine[r].st \in {"none", "queued", "generating"} /\ engine[r].left \in 0..MaxTokens[r]
    BY <1>2, <1>3, <1>5
  <2> QED
    BY <2>1, <2>2, <2>3 DEF TypeOK
<1>8. Typed
  BY <1>1, <1>4, <1>6, <1>7 DEF Typed
<1>9. \A r \in Requests : Local(r)
  <2> TAKE r \in Requests
  <2>1. Ordered(<<>>) /\ ~EndIn(<<>>)
    BY EmptySeq DEF Ordered, EndIn
  <2>2. pc[r] = "new" /\ events[r] = <<>> /\ engine[r].st = "none" /\ generated[r] = 0 /\ ~counted[r] /\ ~stopped[r]
        /\ ~wrapped[r]
    BY <1>1, <1>2, <1>3
  <2> QED
    BY <1>5, <2>1, <2>2 DEF Local, EventsInOrder, WithinBudget, CountedUntilRead, ToBeRead, StopStays, Unbegun
<1>10. InLine
  BY <1>1 DEF InLine
<1>11. CountsRight
  <2>1. Counted = {} /\ Taken = {}
    BY <1>1 DEF Counted, Taken
  <2> QED
    BY <1>1, <2>1, FS_EmptySet DEF CountsRight
<1>12. Conversations
  BY <1>1, <1>4 DEF Conversations, OneEntryEach, KnownIds, ConversationsApart, InFlight
<1> QED
  BY <1>8, <1>9, <1>10, <1>11, <1>12 DEF IInv

LEMMA StepHolds == IInv /\ [Next]_vars => IInv'
<1> SUFFICES ASSUME IInv, [Next]_vars
             PROVE  IInv'
  OBVIOUS
<1>1. CASE UNCHANGED vars
  <2>1. /\ UNCHANGED <<pc, outcome, generated, stopped, guarded, cid, counted, waiting, convs, nextId, line, running, engine, events>>
        /\ UNCHANGED <<heard, wrapped>>
    BY <1>1 DEF vars, run, convVars, asked
  <2>2. Typed' /\ InLine' /\ CountsRight' /\ Conversations'
    BY <2>1 DEF IInv, Typed, TypeOK, InLine, CountsRight, Counted, Taken, Conversations, OneEntryEach, KnownIds,
       ConversationsApart, InFlight
  <2>3. \A r \in Requests : Local(r)'
    BY <2>1 DEF IInv, Local, EventsInOrder, WithinBudget, CountedUntilRead, ToBeRead, StopStays, Unbegun
  <2> QED
    BY <2>2, <2>3 DEF IInv
<1>2. CASE Next
  <2>1. PICK r \in Requests : Handler(r) \/ Engine(r)
    BY <1>2 DEF Next
  <2> QED
    BY <2>1, BeginKeeps, AskKeeps, StartKeeps, PrefilledKeeps, TokensKeeps, DoneKeeps, YieldKeeps, WrapUpKeeps,
       BreakKeeps, LeavesKeep, EngineKeeps DEF Handler
<1> QED
  BY <1>1, <1>2

\* What holds in every reachable state of run() and the conversations.
THEOREM Inductive == Spec => []IInv
BY InitHolds, StepHolds, PTL DEF Spec

\* However often an answer is cut and gone on with, it keeps to max_tokens, and a stop string ends it.
THEOREM AnswerBoundedHolds == Spec => []AnswerBounded
<1>1. IInv => AnswerBounded
  BY DEF IInv, Local, WithinBudget, StopStays, AnswerBounded, BudgetKept, StopIsFinal
<1> QED
  BY <1>1, Inductive, PTL

\* S.waiting is the number of the requests that wait to be read, whichever way the others went.
THEOREM WaitingExactHolds == Spec => []WaitingExact
<1>1. IInv => WaitingExact
  <2> SUFFICES ASSUME IInv
               PROVE  WaitingExact
    OBVIOUS
  <2>1. TypeOK /\ waiting = Cardinality(Counted)
    BY DEF IInv, Typed, CountsRight
  <2>2. Counted = {r \in Requests : ToBeRead(r) /\ ~wrapped[r]}
    BY DEF IInv, Local, CountedUntilRead, Counted
  <2> QED
    BY <2>1, <2>2 DEF WaitingExact
<1> QED
  BY <1>1, Inductive, PTL

\* Two requests in flight are never of one conversation, and none in use is offered to a third.
THEOREM ConversationsApartHolds == Spec => []ConversationsApart
<1>1. IInv => ConversationsApart
  BY DEF IInv, Conversations
<1> QED
  BY <1>1, Inductive, PTL
=============================================================================
