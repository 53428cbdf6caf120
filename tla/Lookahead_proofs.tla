-------------------------- MODULE Lookahead_proofs --------------------------
(***************************************************************************)
(* The two stages never disagree, and what is decoded by lookahead is      *)
(* decoded plainly, for every vocabulary, sampler, context and drafts.     *)
(*                                                                         *)
(* The inductive invariant names one text d, the one both stages have      *)
(* committed, and says of every phase of a round how far each stage, its   *)
(* shadow and the client are ahead of d.  Snapshots are of prefixes of d.   *)
(*                                                                         *)
(* At the end, what the rounds take from the sampler.                      *)
(***************************************************************************)
EXTENDS MC_Lookahead, FiniteSetTheorems, SequenceTheorems, NaturalsInduction, WellFoundedInduction, TLAPS

(***************************************************************************)
(* The invariant.                                                          *)
(***************************************************************************)
(* The cells hold the rows of h.                                           *)
Covers(kv, h) == Len(kv) >= Len(h) /\ \A i \in 1..Len(h) : kv[i] = Prefix(h, i)

(* Every snapshot is of the text it says, and both stages have the same.    *)
Snapshots(d) ==
  /\ ckpts[0] = ckpts[1]
  /\ \A k \in ckpts[0] : k.pos <= Len(d) /\ k.saved = [text |-> Prefix(d, k.pos), rows |-> <<>>]

Resting == specT = 0 /\ ~inflight

(* Stage s stands at the text d, with no window to commit.                 *)
At(s, d) == state[s].text = d /\ Covers(cells[s], d) /\ pendingT[s] = 0

(* The window of one row that stage 0 ran as a speculation, and nothing      *)
(* commits: its state is that row behind.                                  *)
Behind(d) ==
  /\ state[0].text \o state[0].rows = d /\ Len(state[0].rows) = 1
  /\ pendingT[0] = 1 /\ Covers(cells[0], d)

(* Stage 0 between windows.                                                *)
First(d) == IF unsettled THEN Behind(d) /\ ~stage0Done ELSE At(0, d)

(* A stage commits a window of one row in its forward, but for the one that  *)
(* stage 0 ran as a speculation.                                           *)
Inside(s, w) == Len(w) = 1 /\ ~(s = 0 /\ stage0Done)

(* Stage s has run the window w after d, which waits for its verdict unless *)
(* it was committed inside.                                                *)
Ran(s, d, w) ==
  /\ state[s] = IF Inside(s, w) THEN [text |-> d \o w, rows |-> <<>>] ELSE [text |-> d, rows |-> w]
  /\ pendingT[s] = IF Inside(s, w) THEN 0 ELSE Len(w)
  /\ lane[s][lastLane[s]] = [base |-> d, win |-> w]
  /\ Covers(cells[s], d \o w)

(* No window is under way.                                                 *)
Still(d) ==
  pc \in {"idle", "draft"} =>
    /\ \A s \in Stages : history[s] = d
    /\ First(d) /\ At(1, d)
    /\ Resting /\ ~stage0Done
    /\ pc = "idle" => ~open

(* The round's tokens are the model's, the last of them pending.            *)
Drafting(d) ==
  pc = "draft" =>
    /\ pending = verdict.bonus /\ pending \in Tokens /\ verdict.kept \in Nat /\ Len(d) > 0
    /\ open => /\ verdict.kept < Len(win) /\ text \o Out = d \o <<pending>>
               /\ Plain!Continues(text, Out) /\ ~failed
    /\ ~open => win = <<>> /\ verdict.kept = 0 /\ pending \in Support(d)

(* Between rounds stage 0 is ahead by the half-done window, if any.         *)
Ready(d) ==
  pc = "ready" =>
    /\ open /\ ~failed /\ Resting
    /\ text = d \o <<pending>> /\ pending \in Tokens
    /\ history[1] = d /\ At(1, d)
    /\ ~stage0Done => history[0] = d /\ First(d)
    /\ stage0Done => LET w == <<pending>> \o drafts IN
         /\ history[0] = d \o w /\ Ran(0, d, w) /\ ~unsettled
         /\ laLane = lastLane[0]
         /\ Len(d) + Len(w) + kMaxWindow <= MaxCtx

(* The speculation runs c over the text and the window whole.              *)
Speculated(d, w, c) ==
  /\ Len(w) > 1 /\ Len(c) > 0
  /\ shadow = [text |-> d \o w, rows |-> c]
  /\ history[0] = (d \o w) \o c
  /\ specLane = 1 - lastLane[0]
  /\ lane[0][specLane] = [base |-> d \o w, win |-> c]
  /\ Covers(cells[0], (d \o w) \o c)
  /\ Len(d) + Len(w) + Len(c) + kMaxWindow <= MaxCtx
  /\ specT = IF inflight THEN 0 ELSE Len(c)

Round(d) ==
  pc \in {"chain", "verify", "settle"} =>
    /\ open /\ ~failed /\ ~unsettled
    /\ Len(win) > 0 /\ text = d \o <<win[1]>>
    /\ history[1] = d \o win /\ Len(d) + Len(win) <= MaxCtx
    /\ lastLane[0] = lastLane[1]
    /\ Ran(0, d, win)
    /\ IF pc = "settle" THEN Ran(1, d, win) /\ verdict \in Verdicts(d) ELSE At(1, d)
    /\ pc = "chain" => Resting
    /\ IF Resting THEN history[0] = d \o win ELSE Speculated(d, win, shadow.rows)

Stands(d) == Snapshots(d) /\ Still(d) /\ Drafting(d) /\ Ready(d) /\ Round(d)

LInv == TypeOK /\ \E d \in Text : Stands(d)

(***************************************************************************)
(* Texts and windows.                                                      *)
(***************************************************************************)
(* A window is a text of bounded length.                                   *)
LEMMA WindowText ==
  ASSUME NEW n \in Nat
  PROVE  \A w : w \in Windows(n) <=> w \in Text /\ Len(w) <= n
<1>1. SUFFICES ASSUME NEW w PROVE w \in Windows(n) <=> w \in Text /\ Len(w) <= n
      OBVIOUS
<1>2. ASSUME w \in Windows(n) PROVE w \in Text /\ Len(w) <= n
  <2>1. PICK k \in 0..n : w \in [1..k -> Tokens] BY <1>2 DEF Windows
  <2>2. w \in Text BY <2>1, SeqDef DEF Text
  <2>3. Len(w) = k BY <2>1, <2>2 DEF Text
  <2> QED BY <2>1, <2>2, <2>3
<1>3. ASSUME w \in Text, Len(w) <= n PROVE w \in Windows(n)
  <2>1. Len(w) \in 0..n /\ w \in [1..Len(w) -> Tokens] BY <1>3, LenProperties DEF Text
  <2> QED BY <2>1 DEF Windows
<1> QED BY <1>2, <1>3

(* A prefix is its text's, as far as it goes.                              *)
LEMMA PrefixIs ==
  ASSUME NEW S, NEW h \in Seq(S), NEW n \in 0..Len(h)
  PROVE  /\ Prefix(h, n) \in Seq(S) /\ Len(Prefix(h, n)) = n
         /\ \A i \in 1..n : Prefix(h, n)[i] = h[i]
<1>1. Len(h) \in Nat /\ \A i \in 1..n : h[i] \in S BY ElementOfSeq, LenProperties
<1> QED BY <1>1, SubSeqProperties DEF Prefix

LEMMA PrefixWhole ==
  ASSUME NEW S, NEW h \in Seq(S)
  PROVE  Prefix(h, Len(h)) = h
BY SubSeqFull DEF Prefix

LEMMA PrefixNone ==
  ASSUME NEW h
  PROVE  Prefix(h, 0) = <<>>
BY SubSeqEmpty DEF Prefix

LEMMA PrefixOfPrefix ==
  ASSUME NEW S, NEW h \in Seq(S), NEW m \in 0..Len(h), NEW n \in 0..m
  PROVE  Prefix(Prefix(h, m), n) = Prefix(h, n)
<1>1. Len(h) \in Nat /\ n \in 0..Len(h) BY LenProperties
<1>2. /\ Prefix(h, m) \in Seq(S) /\ Len(Prefix(h, m)) = m
      /\ \A i \in 1..m : Prefix(h, m)[i] = h[i] BY PrefixIs
<1>3. /\ Prefix(h, n) \in Seq(S) /\ Len(Prefix(h, n)) = n
      /\ \A i \in 1..n : Prefix(h, n)[i] = h[i] BY <1>1, PrefixIs
<1> DEFINE g == Prefix(h, m)
<1>4. /\ Prefix(g, n) \in Seq(S) /\ Len(Prefix(g, n)) = n
      /\ \A i \in 1..n : Prefix(g, n)[i] = g[i] BY <1>2, PrefixIs
<1>5. \A i \in 1..n : Prefix(g, n)[i] = Prefix(h, n)[i] BY <1>1, <1>2, <1>3, <1>4
<1> HIDE DEF g
<1>6. Prefix(g, n) = Prefix(h, n) BY <1>3, <1>4, <1>5, SeqEqual
<1> QED BY <1>6 DEF g

LEMMA PrefixOfConcat ==
  ASSUME NEW S, NEW h \in Seq(S), NEW w \in Seq(S), NEW n \in 0..Len(h)
  PROVE  Prefix(h \o w, n) = Prefix(h, n)
<1>1. Len(h) \in Nat /\ Len(w) \in Nat BY LenProperties
<1>2. /\ h \o w \in Seq(S) /\ Len(h \o w) = Len(h) + Len(w)
      /\ \A i \in 1..Len(h) + Len(w) : (h \o w)[i] = IF i <= Len(h) THEN h[i] ELSE w[i - Len(h)]
      BY ConcatProperties
<1>3. /\ Prefix(h, n) \in Seq(S) /\ Len(Prefix(h, n)) = n
      /\ \A i \in 1..n : Prefix(h, n)[i] = h[i] BY PrefixIs
<1> DEFINE g == h \o w
<1>4. g \in Seq(S) /\ n \in 0..Len(g) BY <1>1, <1>2
<1>5. \A i \in 1..n : g[i] = h[i] BY <1>1, <1>2
<1> HIDE DEF g
<1>6. /\ Prefix(g, n) \in Seq(S) /\ Len(Prefix(g, n)) = n
      /\ \A i \in 1..n : Prefix(g, n)[i] = g[i] BY <1>4, PrefixIs
<1>7. Prefix(g, n) = Prefix(h, n) BY <1>3, <1>5, <1>6, SeqEqual
<1> QED BY <1>7 DEF g

LEMMA PrefixBeyond ==
  ASSUME NEW S, NEW h \in Seq(S), NEW w \in Seq(S), NEW n \in 0..Len(w)
  PROVE  Prefix(h \o w, Len(h) + n) = h \o Prefix(w, n)
<1>1. Len(h) \in Nat /\ Len(w) \in Nat BY LenProperties
<1> DEFINE g == h \o w  v == Prefix(w, n)
<1>2. /\ g \in Seq(S) /\ Len(g) = Len(h) + Len(w)
      /\ \A i \in 1..Len(h) + Len(w) : g[i] = IF i <= Len(h) THEN h[i] ELSE w[i - Len(h)]
      BY ConcatProperties
<1>3. v \in Seq(S) /\ Len(v) = n /\ \A i \in 1..n : v[i] = w[i] BY PrefixIs
<1> HIDE DEF g, v
<1>4. /\ h \o v \in Seq(S) /\ Len(h \o v) = Len(h) + n
      /\ \A i \in 1..Len(h) + n : (h \o v)[i] = IF i <= Len(h) THEN h[i] ELSE v[i - Len(h)]
      BY <1>3, ConcatProperties
<1>5. Len(h) + n \in 0..Len(g) BY <1>1, <1>2
<1>6. /\ Prefix(g, Len(h) + n) \in Seq(S) /\ Len(Prefix(g, Len(h) + n)) = Len(h) + n
      /\ \A i \in 1..Len(h) + n : Prefix(g, Len(h) + n)[i] = g[i] BY <1>2, <1>5, PrefixIs
<1>7. ASSUME NEW i \in 1..Len(h) + n PROVE Prefix(g, Len(h) + n)[i] = (h \o v)[i]
  <2>1. g[i] = IF i <= Len(h) THEN h[i] ELSE w[i - Len(h)] BY <1>1, <1>2
  <2>2. i > Len(h) => v[i - Len(h)] = w[i - Len(h)] BY <1>1, <1>3
  <2>3. Prefix(g, Len(h) + n)[i] = g[i] /\ (h \o v)[i] = IF i <= Len(h) THEN h[i] ELSE v[i - Len(h)] BY <1>4, <1>6
  <2>4. i \in Int /\ Len(h) \in Int BY <1>1
  <2> QED BY <2>1, <2>2, <2>3, <2>4
<1>8. Prefix(g, Len(h) + n) = h \o v BY <1>4, <1>6, <1>7, SeqEqual
<1> QED BY <1>8 DEF g, v

(* A text is a prefix of it and the rest.                                  *)
LEMMA PrefixAndRest ==
  ASSUME NEW S, NEW h \in Seq(S), NEW n \in 0..Len(h)
  PROVE  /\ SubSeq(h, n + 1, Len(h)) \in Seq(S)
         /\ Len(SubSeq(h, n + 1, Len(h))) = Len(h) - n
         /\ Prefix(h, n) \o SubSeq(h, n + 1, Len(h)) = h
<1>1. Len(h) \in Nat BY LenProperties
<1>2. \A i \in (n + 1)..Len(h) : h[i] \in S BY ElementOfSeq, <1>1
<1>3. n + 1 \in Int /\ Len(h) \in Int BY <1>1
<1>4. /\ SubSeq(h, n + 1, Len(h)) \in Seq(S)
      /\ Len(SubSeq(h, n + 1, Len(h))) = IF n + 1 <= Len(h) THEN Len(h) - (n + 1) + 1 ELSE 0
      BY <1>2, <1>3, SubSeqProperties
<1>5. 1 \in 1..Len(h) + 1 /\ n \in 1 - 1..Len(h) /\ Len(h) \in n..Len(h) BY <1>1
<1>6. SubSeq(h, 1, n) \o SubSeq(h, n + 1, Len(h)) = SubSeq(h, 1, Len(h)) BY <1>5, ConcatAdjacentSubSeq
<1>7. Prefix(h, n) \o SubSeq(h, n + 1, Len(h)) = h BY <1>6, SubSeqFull, Zenon DEF Prefix
<1> DEFINE v == SubSeq(h, n + 1, Len(h))
<1> HIDE DEF v
<1>8. Len(v) = Len(h) - n BY <1>1, <1>4 DEF v
<1> QED BY <1>4, <1>7, <1>8 DEF v

(* What follows a prefix of a concatenation.                               *)
LEMMA RestOfConcat ==
  ASSUME NEW S, NEW h \in Seq(S), NEW w \in Seq(S)
  PROVE  SubSeq(h \o w, Len(h) + 1, Len(h \o w)) = w
<1>1. Len(h) \in Nat /\ Len(w) \in Nat BY LenProperties
<1> DEFINE g == h \o w
<1>2. g \in Seq(S) /\ Len(g) = Len(h) + Len(w) BY ConcatProperties
<1>3. Prefix(g, Len(h)) = h
  <2>1. Len(h) \in 0..Len(h) BY <1>1
  <2> QED BY <2>1, PrefixOfConcat, PrefixWhole
<1> HIDE DEF g
<1>4. Len(h) \in 0..Len(g) BY <1>1, <1>2
<1> DEFINE v == SubSeq(g, Len(h) + 1, Len(g))
<1>5. v \in Seq(S) /\ h \o v = g BY <1>2, <1>3, <1>4, PrefixAndRest
<1> HIDE DEF v
<1>6. h \o v = h \o w BY <1>5 DEF g
<1>7. v = w BY <1>5, <1>6, ConcatSimplifications
<1> QED BY <1>7 DEF v, g

(* A text and windows put one after the other.                             *)
LEMMA TextConcat ==
  ASSUME NEW h \in Text, NEW w \in Text
  PROVE  h \o w \in Text /\ Len(h \o w) = Len(h) + Len(w) /\ Len(h) \in Nat /\ Len(w) \in Nat
BY ConcatProperties, LenProperties DEF Text

LEMMA TextAssociative ==
  ASSUME NEW s \in Text, NEW t \in Text, NEW u \in Text
  PROVE  (s \o t) \o u = s \o (t \o u)
BY ConcatAssociative DEF Text

LEMMA TextPrefix ==
  ASSUME NEW h \in Text, NEW n \in 0..Len(h)
  PROVE  Prefix(h, n) \in Text /\ Len(Prefix(h, n)) = n
BY PrefixIs DEF Text

(***************************************************************************)
(* Cells.                                                                  *)
(***************************************************************************)
LEMMA CoversPrefix ==
  ASSUME NEW kv, NEW h \in Text, NEW n \in 0..Len(h), Len(kv) \in Nat, Covers(kv, h)
  PROVE  Covers(kv, Prefix(h, n))
<1>1. Len(h) \in Nat /\ Len(Prefix(h, n)) = n BY TextConcat, TextPrefix
<1>2. ASSUME NEW i \in 1..n PROVE kv[i] = Prefix(Prefix(h, n), i)
  <2>1. i \in 1..Len(h) /\ i \in 0..n BY <1>1
  <2>2. kv[i] = Prefix(h, i) BY <2>1 DEF Covers
  <2>3. Prefix(Prefix(h, n), i) = Prefix(h, i) BY <2>1, PrefixOfPrefix DEF Text
  <2> QED BY <2>2, <2>3
<1>3. Len(kv) >= n BY <1>1 DEF Covers
<1> QED BY <1>1, <1>2, <1>3 DEF Covers

LEMMA CoversFirst ==
  ASSUME NEW kv, NEW h \in Text, NEW w \in Text, Len(kv) \in Nat, Covers(kv, h \o w)
  PROVE  Covers(kv, h)
<1>1. h \o w \in Text /\ Len(h) \in 0..Len(h \o w) BY TextConcat
<1>2. Covers(kv, Prefix(h \o w, Len(h))) BY <1>1, CoversPrefix
<1>3. Prefix(h \o w, Len(h)) = h
  <2>1. Len(h) \in 0..Len(h) BY TextConcat
  <2> QED BY <2>1, PrefixOfConcat, PrefixWhole DEF Text
<1> QED BY <1>2, <1>3

LEMMA CoversCut ==
  ASSUME NEW kv \in Seq(Text \cup {None}), NEW h \in Text, Covers(kv, h)
  PROVE  Prefix(kv, Len(h)) \in Seq(Text \cup {None}) /\ Covers(Prefix(kv, Len(h)), h)
<1>1. Len(h) \in Nat /\ Len(kv) \in Nat /\ Len(h) \in 0..Len(kv) BY TextConcat, LenProperties DEF Covers
<1>2. /\ Prefix(kv, Len(h)) \in Seq(Text \cup {None}) /\ Len(Prefix(kv, Len(h))) = Len(h)
      /\ \A i \in 1..Len(h) : Prefix(kv, Len(h))[i] = kv[i] BY <1>1, PrefixIs
<1> QED BY <1>1, <1>2 DEF Covers

(* A forward of w over the text h leaves the rows of both.                 *)
LEMMA WrittenCovers ==
  ASSUME NEW kv \in Seq(Text \cup {None}), NEW h \in Text, NEW w \in Text, Covers(kv, h)
  PROVE  /\ Written(kv, Len(h), h, w) \in Seq(Text \cup {None})
         /\ Covers(Written(kv, Len(h), h, w), h \o w)
<1> DEFINE S == Text \cup {None}
           a == Prefix(kv, Len(h))
           b == [i \in 1..Len(w) |-> h \o Prefix(w, i)]
<1>1. Len(h) \in Nat /\ Len(w) \in Nat /\ Len(kv) \in Nat /\ Len(h) \in 0..Len(kv)
      BY TextConcat, LenProperties DEF Covers
<1>2. a \in Seq(S) /\ Len(a) = Len(h) /\ \A i \in 1..Len(h) : a[i] = kv[i] BY <1>1, PrefixIs
<1>3. b \in [1..Len(w) -> S]
  <2>1. ASSUME NEW i \in 1..Len(w) PROVE h \o Prefix(w, i) \in S
    <3>1. i \in 0..Len(w) BY <1>1
    <3> QED BY <3>1, TextPrefix, TextConcat
  <2> QED BY <2>1
<1>4. b \in Seq(S) /\ Len(b) = Len(w)
  <2>1. b \in Seq(S) BY <1>1, <1>3, SeqDef
  <2> QED BY <1>1, <1>3, <2>1, LenProperties
<1>5. Written(kv, Len(h), h, w) = a \o b
  <2>1. h # None BY LookaheadAssumption DEF Text, LookaheadAssumption
  <2> QED BY <2>1 DEF Written
<1>6. \A i \in 1..Len(w) : b[i] = h \o Prefix(w, i) OBVIOUS
<1> HIDE DEF a, b, S
<1>0. /\ a \o b \in Seq(S) /\ Len(a \o b) = Len(a) + Len(b)
      /\ \A i \in 1..Len(a) + Len(b) : (a \o b)[i] = IF i <= Len(a) THEN a[i] ELSE b[i - Len(a)]
  <2>1. a \in Seq(S) /\ b \in Seq(S) BY <1>2, <1>4
  <2> QED BY <2>1, ConcatProperties, Zenon
<1>7. /\ a \o b \in Seq(S) /\ Len(a \o b) = Len(h) + Len(w)
      /\ \A i \in 1..Len(h) + Len(w) : (a \o b)[i] = IF i <= Len(h) THEN a[i] ELSE b[i - Len(h)]
      BY <1>0, <1>2, <1>4
<1>8. ASSUME NEW i \in 1..Len(h) + Len(w) PROVE (a \o b)[i] = Prefix(h \o w, i)
  <2>0. i \in Nat /\ Len(h) \in Nat /\ Len(w) \in Nat /\ 1 <= i /\ i <= Len(h) + Len(w) BY <1>1
  <2>1. CASE i <= Len(h)
    <3>1. i \in 1..Len(h) /\ i \in 0..Len(h) BY <1>1, <2>1
    <3>2. (a \o b)[i] = Prefix(h, i) BY <1>2, <1>7, <2>1, <3>1 DEF Covers
    <3> QED BY <3>1, <3>2, PrefixOfConcat DEF Text
  <2>2. CASE ~(i <= Len(h))
    <3>1. i - Len(h) \in 1..Len(w) /\ i - Len(h) \in 0..Len(w) /\ i = Len(h) + (i - Len(h)) BY <2>0, <2>2
    <3>2. (a \o b)[i] = b[i - Len(h)] BY <1>7, <2>0, <2>2
    <3>4. (a \o b)[i] = h \o Prefix(w, i - Len(h)) BY <1>6, <3>1, <3>2
    <3>3. Prefix(h \o w, Len(h) + (i - Len(h))) = h \o Prefix(w, i - Len(h)) BY <3>1, PrefixBeyond DEF Text
    <3> QED BY <3>1, <3>3, <3>4
  <2> QED BY <2>1, <2>2
<1>9. Len(h \o w) = Len(h) + Len(w) BY TextConcat
<1> QED BY <1>1, <1>5, <1>7, <1>8, <1>9 DEF Covers, S

(* A forward over cells and a state that stand at a text is of that text.   *)
LEMMA BaseIs ==
  ASSUME NEW st, NEW kv, NEW h, st.text = h, Covers(kv, h)
  PROVE  Base(st, kv, h) = h
BY DEF Base, Sound, Covers

(***************************************************************************)
(* Where a request resumes.                                                *)
(***************************************************************************)
(* A set of naturals has a least element.                                  *)
LEMMA LeastOf ==
  ASSUME NEW T \in SUBSET Nat, T # {}
  PROVE  \E m \in T : \A i \in T : m <= i
<1>1. PICK m \in T : \A i \in T : <<i, m>> \notin OpToRel(<, Nat)
  BY Zenon, NatLessThanWellFounded, WFMin
<1>2. ASSUME NEW i \in T PROVE m <= i
  <2>1. <<i, m>> \in Nat \X Nat /\ m \in Nat /\ i \in Nat OBVIOUS
  <2> QED BY <1>1, <2>1 DEF OpToRel
<1> QED BY <1>2

(* What two texts share is well defined.                                   *)
LEMMA CommonIs ==
  ASSUME NEW h \in Text, NEW p \in Text
  PROVE  /\ Common(h, p) \in 0..Len(h) /\ Common(h, p) <= Len(p)
         /\ Prefix(h, Common(h, p)) = Prefix(p, Common(h, p))
<1>1. Len(h) \in Nat /\ Len(p) \in Nat BY TextConcat
<1> DEFINE Ends(n) == n = Len(h) \/ n = Len(p) \/ h[n + 1] # p[n + 1]
           T == {n \in Nat : Ends(n)}
<1>2. PICK m \in T : \A i \in T : m <= i
  <2>1. Len(h) \in T BY <1>1
  <2>2. T \in SUBSET Nat /\ T # {} BY <2>1
  <2> HIDE DEF T
  <2> QED BY <2>2, LeastOf
<1>3. m \in Nat /\ m <= Len(h) /\ m <= Len(p)
  <2>1. Len(h) \in T /\ Len(p) \in T BY <1>1
  <2> QED BY <1>2, <2>1
<1>4. \A i \in 1..m : h[i] = p[i]
  <2>1. ASSUME NEW i \in 1..m PROVE h[i] = p[i]
    <3>1. i - 1 \in Nat /\ ~(m <= i - 1) /\ (i - 1) + 1 = i BY <1>3
    <3>2. i - 1 \notin T BY <1>2, <3>1
    <3> QED BY <3>1, <3>2
  <2> QED BY <2>1
<1>5. Prefix(h, m) = Prefix(p, m)
  <2>1. m \in 0..Len(h) /\ m \in 0..Len(p) BY <1>1, <1>3
  <2>2. /\ Prefix(h, m) \in Seq(Tokens) /\ Len(Prefix(h, m)) = m
        /\ \A i \in 1..m : Prefix(h, m)[i] = h[i] BY <2>1, PrefixIs DEF Text
  <2>3. /\ Prefix(p, m) \in Seq(Tokens) /\ Len(Prefix(p, m)) = m
        /\ \A i \in 1..m : Prefix(p, m)[i] = p[i] BY <2>1, PrefixIs DEF Text
  <2> QED BY <1>4, <2>2, <2>3, SeqEqual
<1>6. \E n \in 0..Len(h) : /\ n <= Len(p) /\ Prefix(h, n) = Prefix(p, n)
                           /\ n = Len(h) \/ n = Len(p) \/ h[n + 1] # p[n + 1]
  <2>1. m \in 0..Len(h) /\ Ends(m) BY <1>1, <1>2, <1>3
  <2> QED BY <1>3, <1>5, <2>1
<1> DEFINE c == Common(h, p)
<1>7. /\ c \in 0..Len(h) /\ c <= Len(p) /\ Prefix(h, c) = Prefix(p, c)
  BY <1>6, Zenon DEF Common
<1> QED BY <1>7

(* A prompt is a text that leaves a cell of the context.                   *)
LEMMA PromptText ==
  ASSUME TypeOK, NEW p \in Prompts
  PROVE  p \in Text /\ Len(p) \in 1..MaxCtx
<1>1. CASE p \in Windows(MaxPrompt) /\ p # <<>>
  <2>1. p \in Text /\ Len(p) <= MaxPrompt BY <1>1, WindowText, LookaheadAssumption DEF LookaheadAssumption
  <2>2. Len(p) \in Nat \ {0} BY <1>1, <2>1, EmptySeq DEF Text
  <2> QED BY <2>1, <2>2, LookaheadAssumption DEF LookaheadAssumption
<1>2. CASE p \in {text \o <<t>> : t \in {u \in Tokens : Len(text) + 1 < MaxCtx}}
  <2>1. PICK t \in Tokens : p = text \o <<t>> /\ Len(text) + 1 < MaxCtx BY <1>2
  <2>2. text \in Text /\ <<t>> \in Text /\ Len(<<t>>) = 1 BY DEF TypeOK, Text
  <2>3. p \in Text /\ Len(p) = Len(text) + 1 /\ Len(text) \in Nat BY <2>1, <2>2, TextConcat
  <2> QED BY <2>1, <2>3, LookaheadAssumption DEF LookaheadAssumption
<1> QED BY <1>1, <1>2 DEF Prompts

(* Both stages resume at the same place, where the prompt and the text      *)
(* before it are alike, with the state of that text.                       *)
Alike(d, p, n, keep) ==
  /\ n \in 0..Len(d) /\ n <= Len(p) /\ Prefix(d, n) = Prefix(p, n)
  /\ keep \subseteq ckpts[0] /\ \A k \in keep : k.pos <= n
  /\ \A s \in Stages : /\ Resume(s, p).pos = n /\ Resume(s, p).keep = keep
                       /\ Resume(s, p).saved.text = Prefix(d, n) \/ (n > 0 /\ unsettled)

LEMMA ResumeIs ==
  ASSUME TypeOK, NEW d \in Text, Stands(d), pc = "idle", NEW p \in Text
  PROVE  \E n, keep : Alike(d, p, n, keep)
<1> DEFINE n == Common(d, p)
           ks == {k \in ckpts[0] : /\ k.pos <= n /\ k.pos < Len(p) /\ k.pos <= Len(d)}
           whole == d # <<>> /\ n = Len(d) /\ Len(d) < Len(p)
           last == CHOOSE k \in ks : \A j \in ks : j.pos <= k.pos
<1>1. n \in 0..Len(d) /\ n <= Len(p) /\ Prefix(d, n) = Prefix(p, n) BY CommonIs
<1>2. \A s \in Stages : history[s] = d /\ (state[s].text = d \/ unsettled)
  BY DEF Stands, Still, First, At, Stages
<1>3. \A s \in Stages : ckpts[s] = ckpts[0] BY DEF Stands, Snapshots, Stages
<1>4. \A k \in ckpts[0] : k.pos \in Nat /\ k.pos <= Len(d) /\ k.saved.text = Prefix(d, k.pos)
  <2>1. \A k \in ckpts[0] : k.pos \in 1..MaxCtx BY DEF TypeOK, Stages
  <2>2. \A k \in ckpts[0] : k.pos <= Len(d) /\ k.saved = [text |-> Prefix(d, k.pos), rows |-> <<>>]
        BY DEF Stands, Snapshots
  <2>3. ASSUME NEW k \in ckpts[0]
        PROVE  k.pos \in Nat /\ k.pos <= Len(d) /\ k.saved.text = Prefix(d, k.pos)
    <3>1. k.pos \in 1..MaxCtx BY <2>1
    <3>2. k.pos <= Len(d) /\ k.saved = [text |-> Prefix(d, k.pos), rows |-> <<>>] BY <2>2
    <3>3. k.saved.text = Prefix(d, k.pos) BY <3>2
    <3> QED BY <3>1, <3>2, <3>3
  <2> QED BY <2>3, Zenon
<1>5. \A s \in Stages : Resume(s, p) =
        IF whole THEN [pos |-> Len(d), saved |-> state[s], keep |-> ckpts[0]]
        ELSE IF ks = {} THEN [pos |-> 0, saved |-> Fresh, keep |-> {}]
        ELSE [pos |-> last.pos, saved |-> last.saved, keep |-> {j \in ckpts[0] : j.pos <= last.pos}]
  <2> DEFINE R(h, st, cs) ==
        LET m == Common(h, p)
            ms == {k \in cs : /\ k.pos <= m /\ k.pos < Len(p) /\ k.pos <= Len(h)}
        IN IF h # <<>> /\ m = Len(h) /\ Len(h) < Len(p)
           THEN [pos |-> Len(h), saved |-> st, keep |-> cs]
           ELSE IF ms = {} THEN [pos |-> 0, saved |-> Fresh, keep |-> {}]
           ELSE LET k == CHOOSE k \in ms : \A j \in ms : j.pos <= k.pos
                IN [pos |-> k.pos, saved |-> k.saved, keep |-> {j \in cs : j.pos <= k.pos}]
  <2>1. ASSUME NEW s \in Stages PROVE Resume(s, p) = R(d, state[s], ckpts[0])
    <3>1. Resume(s, p) = R(history[s], state[s], ckpts[s]) BY Zenon DEF Resume
    <3>2. history[s] = d /\ ckpts[s] = ckpts[0] BY <1>2, <1>3
    <3> HIDE DEF R
    <3> QED BY <3>1, <3>2
  <2> QED BY <2>1, Zenon
<1>6. Len(d) \in Nat /\ Len(p) \in Nat BY TextConcat
<1>7. CASE whole
  <2>1. Alike(d, p, Len(d), ckpts[0])
    <3>1. \A s \in Stages : Resume(s, p) = [pos |-> Len(d), saved |-> state[s], keep |-> ckpts[0]] BY <1>5, <1>7
    <3>2. Prefix(d, Len(d)) = d BY PrefixWhole DEF Text
    <3>3. Prefix(d, Len(d)) = Prefix(p, Len(d)) BY <1>1, <1>7
    <3>4. \A s \in Stages : /\ Resume(s, p).pos = Len(d) /\ Resume(s, p).keep = ckpts[0]
                            /\ Resume(s, p).saved = state[s] BY <3>1
    <3>5. Len(d) \in 0..Len(d) /\ Len(d) <= Len(p) BY <1>6, <1>7
    <3>6. Len(d) > 0
      <4>1. d # <<>> BY <1>7
      <4> QED BY <1>6, <4>1, EmptySeq DEF Text
    <3> HIDE DEF n, whole
    <3> QED BY <1>2, <1>4, <3>2, <3>3, <3>4, <3>5, <3>6 DEF Alike
  <2> QED BY <2>1
<1>8. CASE ~whole /\ ks = {}
  <2>1. Alike(d, p, 0, {})
    <3>1. \A s \in Stages : Resume(s, p) = [pos |-> 0, saved |-> Fresh, keep |-> {}] BY <1>5, <1>8
    <3>2. Prefix(d, 0) = <<>> /\ Prefix(p, 0) = <<>> BY PrefixNone
    <3> QED BY <1>6, <3>1, <3>2 DEF Alike, Fresh
  <2> QED BY <2>1
<1>9. CASE ~whole /\ ks # {}
  <2>1. \E k \in ks : \A j \in ks : j.pos <= k.pos
    <3> DEFINE T == {Len(d) - k.pos : k \in ks}
    <3>1. T \in SUBSET Nat /\ T # {} BY <1>4, <1>6, <1>9
    <3>2. PICK m \in T : \A i \in T : m <= i
      <4> HIDE DEF T
      <4> QED BY <3>1, LeastOf
    <3>3. PICK k \in ks : m = Len(d) - k.pos OBVIOUS
    <3>4. ASSUME NEW j \in ks PROVE j.pos <= k.pos
      <4>1. Len(d) - k.pos <= Len(d) - j.pos BY <3>2, <3>3
      <4> QED BY <1>4, <1>6, <4>1
    <3> QED BY <3>4
  <2>2. last \in ks /\ \A j \in ks : j.pos <= last.pos BY <2>1
  <2> DEFINE keep == {j \in ckpts[0] : j.pos <= last.pos}
  <2> HIDE DEF last
  <2>3. \A s \in Stages : Resume(s, p) = [pos |-> last.pos, saved |-> last.saved, keep |-> keep] BY <1>5, <1>9
  <2>4. last \in ckpts[0] /\ last.pos <= n /\ last.pos < Len(p) /\ last.pos <= Len(d) BY <2>2
  <2>5. last.pos \in Nat /\ last.saved.text = Prefix(d, last.pos) BY <1>4, <2>4
  <2>6. Prefix(d, last.pos) = Prefix(p, last.pos)
    <3> DEFINE i == last.pos
    <3>1. i \in 0..n /\ n \in 0..Len(d) /\ n \in 0..Len(p) BY <1>1, <1>6, <2>4, <2>5
    <3> HIDE DEF i, n
    <3>2. Prefix(Prefix(d, n), i) = Prefix(d, i) BY <3>1, PrefixOfPrefix DEF Text
    <3>3. Prefix(Prefix(p, n), i) = Prefix(p, i) BY <3>1, PrefixOfPrefix DEF Text
    <3>4. Prefix(d, i) = Prefix(p, i) BY <1>1, <3>2, <3>3 DEF n
    <3> QED BY <3>4 DEF i
  <2>7. Alike(d, p, last.pos, keep)
    <3>1. \A s \in Stages : /\ Resume(s, p).pos = last.pos /\ Resume(s, p).keep = keep
                            /\ Resume(s, p).saved = last.saved BY <2>3
    <3>2. keep \subseteq ckpts[0] /\ \A k \in keep : k.pos <= last.pos OBVIOUS
    <3> HIDE DEF keep
    <3> QED BY <1>6, <2>4, <2>5, <2>6, <3>1, <3>2 DEF Alike
  <2> QED BY <2>7
<1> QED BY <1>7, <1>8, <1>9

(* The engine refuses to begin a request only over a window left to commit. *)
LEMMA StartAllowed ==
  ASSUME TypeOK, NEW d \in Text, Stands(d), pc = "idle", ~unsettled, NEW p \in Prompts
  PROVE  StartChecks(p)
<1>1. PICK n, keep : Alike(d, p, n, keep) BY PromptText, ResumeIs
<1>2. \A s \in Stages : pendingT[s] = 0 BY DEF Stands, Still, First, At, Stages
<1> QED BY <1>1, <1>2 DEF StartChecks, Alike, Stages

LEMMA StartKeeps ==
  ASSUME TypeOK, NEW d \in Text, Stands(d), NEW p \in Prompts, Start(p)
  PROVE  p \in Text /\ TypeOK' /\ Stands(p)'
<1>1. p \in Text /\ Len(p) \in 1..MaxCtx BY PromptText
<1>2. pc = "idle" BY DEF Start
<1>3. PICK n, keep : Alike(d, p, n, keep) BY <1>1, <1>2, ResumeIs
<1>4. PICK h : h = Prefix(p, n) OBVIOUS
<1>5. PICK new : new = SubSeq(p, n + 1, Len(p)) OBVIOUS
<1>6. h \in Text /\ Len(h) = n /\ new \in Text /\ h \o new = p /\ h = Prefix(d, n)
  <2>1. n \in 0..Len(p) BY <1>1, <1>3 DEF Alike
  <2> QED BY <1>1, <1>3, <1>4, <1>5, <2>1, PrefixIs, PrefixAndRest DEF Text, Alike
<1>7. \A s \in Stages : cells[s] \in Seq(Text \cup {None}) /\ Covers(cells[s], h)
  <2> SUFFICES ASSUME NEW s \in Stages PROVE cells[s] \in Seq(Text \cup {None}) /\ Covers(cells[s], h)
      OBVIOUS
  <2>1. cells[s] \in Seq(Text \cup {None}) /\ Len(cells[s]) \in Nat BY LenProperties DEF TypeOK
  <2>2. Covers(cells[s], d) BY <1>2 DEF Stands, Still, First, Behind, At, Stages
  <2>3. n \in 0..Len(d) BY <1>3 DEF Alike
  <2> QED BY <1>6, <2>1, <2>2, <2>3, CoversPrefix
<1>8. \A s \in Stages : Base(Resume(s, p).saved, cells[s], h) = h
  <2>1. StartChecks(p) /\ Resume(0, p).pos = n BY <1>3 DEF Start, Alike, Stages
  <2>2. n > 0 => pendingT[0] = 0 BY <2>1 DEF StartChecks, Stages
  <2>3. unsettled => pendingT[0] = 1 BY <1>2 DEF Stands, Still, First, Behind
  <2>4. \A s \in Stages : Resume(s, p).saved.text = h BY <1>3, <1>6, <2>2, <2>3 DEF Alike
  <2> QED BY <1>7, <2>4, BaseIs
<1>9. h # None BY <1>6, LookaheadAssumption DEF LookaheadAssumption, Text
<1>10. PICK full : full = [text |-> p, rows |-> <<>>] OBVIOUS
<1>11. /\ history' = [s \in Stages |-> p]
       /\ state' = [s \in Stages |-> full]
       /\ cells' = [s \in Stages |-> Written(cells[s], Len(h), h, new)]
       /\ ckpts' = [s \in Stages |-> keep \cup {[pos |-> Len(p), saved |-> full]}]
       /\ pending' \in Support(p) /\ pending' \in Tokens /\ verdict' = [kept |-> 0, bonus |-> pending']
  <2>1. Resume(0, p).pos = n /\ \A s \in Stages : Resume(s, p).keep = keep BY <1>3 DEF Alike, Stages
  <2> DEFINE from(s) == Resume(s, p)
             hh == Prefix(p, from(0).pos)
             base(s) == Base(from(s).saved, cells[s], hh)
             nn == SubSeq(p, Len(hh) + 1, Len(p))
             ends(s) == [text |-> IF base(s) = None THEN None ELSE p, rows |-> <<>>]
  <2>2. /\ history' = [s \in Stages |-> p]
        /\ state' = [s \in Stages |-> ends(s)]
        /\ cells' = [s \in Stages |-> Written(cells[s], Len(hh), base(s), nn)]
        /\ ckpts' = [s \in Stages |-> from(s).keep \cup {[pos |-> Len(p), saved |-> ends(s)]}]
        /\ \E b \in Tokens :
             /\ base(0) # None /\ base(1) # None => b \in Support(p)
             /\ pending' = b
             /\ verdict' = [kept |-> 0, bonus |-> b]
    BY Zenon DEF Start
  <2>3. hh = h /\ nn = new BY <1>4, <1>5, <1>6, <2>1
  <2>4. \A s \in Stages : base(s) = h BY <1>8, <2>3
  <2>5. \A s \in Stages : ends(s) = full BY <1>9, <1>10, <2>4
  <2>6. base(0) # None /\ base(1) # None BY <1>9, <2>4 DEF Stages
  <2> HIDE DEF base, ends, nn, hh
  <2> QED BY <2>1, <2>2, <2>3, <2>4, <2>5, <2>6
<1>12. \A s \in Stages : /\ Written(cells[s], Len(h), h, new) \in Seq(Text \cup {None})
                         /\ Covers(Written(cells[s], Len(h), h, new), p)
  BY <1>6, <1>7, WrittenCovers
<1>13. /\ pendingT' = [s \in Stages |-> 0] /\ drafts' = <<>> /\ stage0Done' = FALSE /\ laLane' = 0
       /\ pc' = "draft" /\ win' = <<>> /\ turns' = turns + 1 /\ turns < MaxTurns /\ unsettled' = FALSE
       /\ UNCHANGED <<lane, lastLane, shadow, specT, specLane, inflight, text, open, failed>>
  BY DEF Start, speculation
<1>14. /\ <<>> \in Windows(kMaxWindow) /\ <<>> \in Windows(kMaxWindow - 1) /\ full \in States
  <2>1. <<>> \in Text /\ Len(<<>>) = 0 BY EmptySeq DEF Text
  <2>2. kMaxWindow \in Nat /\ kMaxWindow - 1 \in Nat BY LookaheadAssumption DEF LookaheadAssumption
  <2> QED BY <1>1, <1>10, <2>1, <2>2, WindowText DEF States
<1>15. TypeOK'
  <2>1. history' \in [Stages -> Text] /\ state' \in [Stages -> States] BY <1>1, <1>11, <1>14
  <2>2. cells' \in [Stages -> Seq(Text \cup {None})] BY <1>11, <1>12
  <2>3. ckpts' \in [Stages -> SUBSET [pos : 1..MaxCtx, saved : States]]
    <3>1. ckpts[0] \in SUBSET [pos : 1..MaxCtx, saved : States] BY DEF TypeOK, Stages
    <3>2. keep \in SUBSET [pos : 1..MaxCtx, saved : States] BY <1>3, <3>1 DEF Alike
    <3> QED BY <1>1, <1>11, <1>14, <3>2
  <2>4. pendingT' \in [Stages -> 0..kMaxWindow] BY <1>13, LookaheadAssumption DEF LookaheadAssumption
  <2>5. turns' \in 0..MaxTurns BY <1>13, LookaheadAssumption DEF LookaheadAssumption, TypeOK
  <2> QED BY <1>11, <1>13, <1>14, <2>1, <2>2, <2>3, <2>4, <2>5 DEF TypeOK, Lanes
<1>16. Snapshots(p)'
  <2>1. ckpts'[0] = ckpts'[1] BY <1>11 DEF Stages
  <2>2. ASSUME NEW k \in ckpts'[0]
        PROVE  k.pos <= Len(p) /\ k.saved = [text |-> Prefix(p, k.pos), rows |-> <<>>]
    <3>1. CASE k \in keep
      <4>1. k.pos \in 1..MaxCtx /\ k.pos <= n /\ k.saved = [text |-> Prefix(d, k.pos), rows |-> <<>>]
            BY <1>3, <3>1 DEF Alike, Stands, Snapshots, TypeOK, Stages
      <4>2. n \in 0..Len(d) /\ n \in 0..Len(p) /\ k.pos \in 0..n BY <1>1, <1>3, <4>1 DEF Alike
      <4>3. Prefix(Prefix(d, n), k.pos) = Prefix(d, k.pos) BY <4>2, PrefixOfPrefix DEF Text
      <4>4. Prefix(Prefix(p, n), k.pos) = Prefix(p, k.pos) BY <1>1, <4>2, PrefixOfPrefix DEF Text
      <4> QED BY <1>1, <1>4, <1>6, <4>1, <4>2, <4>3, <4>4
    <3>2. CASE k = [pos |-> Len(p), saved |-> full]
      <4>1. Prefix(p, Len(p)) = p BY <1>1, PrefixWhole DEF Text
      <4> QED BY <1>1, <1>10, <3>2, <4>1
    <3> QED BY <1>11, <2>2, <3>1, <3>2 DEF Stages
  <2> QED BY <2>1, <2>2 DEF Snapshots
<1>17. Still(p)'
  <2>1. Resting /\ ~open BY <1>2 DEF Stands, Still
  <2>2. Resting' /\ ~stage0Done' BY <1>13, <2>1 DEF Resting
  <2>3. ASSUME NEW s \in Stages PROVE history'[s] = p /\ At(s, p)'
    <3>1. history'[s] = p /\ state'[s].text = p /\ pendingT'[s] = 0 BY <1>10, <1>11, <1>13
    <3>2. Covers(cells'[s], p) BY <1>11, <1>12
    <3> QED BY <3>1, <3>2 DEF At
  <2>4. First(p)' /\ At(1, p)' BY <1>13, <2>3 DEF First, Stages
  <2> QED BY <1>13, <2>2, <2>3, <2>4 DEF Still
<1>18. Drafting(p)'
  <2>1. ~open' BY <1>2, <1>13 DEF Stands, Still
  <2> QED BY <1>1, <1>11, <1>13, <2>1 DEF Drafting
<1>19. Ready(p)' /\ Round(p)' BY <1>13 DEF Ready, Round
<1> QED BY <1>1, <1>15, <1>16, <1>17, <1>18, <1>19 DEF Stands

(***************************************************************************)
(* A round.                                                                *)
(***************************************************************************)
LEMMA Sizes ==
  /\ kMaxWindow \in Nat /\ kMaxWindow > 1 /\ kMaxWindow - 1 \in Nat /\ MaxCtx \in Nat
  /\ None \notin Text /\ <<>> \in Text /\ Len(<<>>) = 0
  /\ <<>> \in Windows(kMaxWindow) /\ <<>> \in Windows(kMaxWindow - 1)
<1>1. /\ kMaxWindow \in Nat /\ kMaxWindow > 1 /\ kMaxWindow - 1 \in Nat /\ MaxCtx \in Nat
      /\ None \notin Text
  BY LookaheadAssumption DEF LookaheadAssumption, Text
<1>2. <<>> \in Text /\ Len(<<>>) = 0 BY EmptySeq DEF Text
<1> QED BY <1>1, <1>2, WindowText

(* Snapshots of a text are snapshots of what continues it.                 *)
LEMMA SnapshotsGrow ==
  ASSUME TypeOK, NEW d \in Text, NEW w \in Text, Snapshots(d), UNCHANGED ckpts
  PROVE  Snapshots(d \o w)' /\ Snapshots(d)'
<1>1. Len(d) \in Nat /\ Len(w) \in Nat /\ Len(d \o w) = Len(d) + Len(w) BY TextConcat
<1>2. ASSUME NEW k \in ckpts[0]
      PROVE  k.pos <= Len(d \o w) /\ k.saved = [text |-> Prefix(d \o w, k.pos), rows |-> <<>>]
  <2>1. k.pos \in 1..MaxCtx BY DEF TypeOK, Stages
  <2>2. k.pos <= Len(d) /\ k.saved = [text |-> Prefix(d, k.pos), rows |-> <<>>] BY DEF Snapshots
  <2>3. k.pos \in Nat /\ k.pos \in 0..Len(d) BY <1>1, <2>1, <2>2
  <2>4. Prefix(d \o w, k.pos) = Prefix(d, k.pos) BY <2>3, PrefixOfConcat DEF Text
  <2> QED BY <1>1, <2>2, <2>3, <2>4
<1> QED BY <1>2, Zenon DEF Snapshots

(* A forward of the window w over the text a stage stands at.               *)
LEMMA ForwardRuns ==
  ASSUME TypeOK, NEW s \in Stages, NEW d \in Text, NEW w \in Windows(kMaxWindow),
         state[s].text = d, Covers(cells[s], d)
  PROVE  /\ Base(state[s], cells[s], d) = d
         /\ After(state[s], d, w) \in States
         /\ After(state[s], d, w) = IF Len(w) = 1 THEN [text |-> d \o w, rows |-> <<>>]
                                                 ELSE [text |-> d, rows |-> w]
         /\ Written(cells[s], Len(d), d, w) \in Seq(Text \cup {None})
         /\ Covers(Written(cells[s], Len(d), d, w), d \o w)
<1>1. w \in Text /\ d \o w \in Text /\ d # None BY Sizes, WindowText, TextConcat
<1>2. state[s] \in States /\ cells[s] \in Seq(Text \cup {None}) BY DEF TypeOK
<1>3. Base(state[s], cells[s], d) = d BY BaseIs
<1>4. /\ Written(cells[s], Len(d), d, w) \in Seq(Text \cup {None})
      /\ Covers(Written(cells[s], Len(d), d, w), d \o w) BY <1>1, <1>2, WrittenCovers
<1>5. After(state[s], d, w) = IF Len(w) = 1 THEN [text |-> d \o w, rows |-> <<>>]
                                           ELSE [text |-> d, rows |-> w]
  <2>1. [state[s] EXCEPT !.rows = w] = [text |-> d, rows |-> w] BY <1>2 DEF States
  <2> QED BY <1>1, <2>1 DEF After
<1>6. After(state[s], d, w) \in States BY <1>1, <1>5, Sizes DEF States
<1> QED BY <1>3, <1>4, <1>5, <1>6

(* The window of a round: never cut when its first half is done.            *)
LEMMA WindowIs ==
  ASSUME TypeOK, NEW d \in Text, Stands(d), pc = "ready", Room
  PROVE  /\ Half <=> stage0Done
         /\ stage0Done => Window = <<pending>> \o drafts
         /\ Window \in Windows(kMaxWindow) /\ Len(Window) >= 1 /\ Window[1] = pending
         /\ Len(d) + Len(Window) <= MaxCtx
         /\ ~stage0Done => pos = Len(d)
<1> DEFINE w == <<pending>> \o drafts  one == <<pending>>
<1>1. drafts \in Text /\ Len(drafts) <= kMaxWindow - 1 BY Sizes, WindowText DEF TypeOK
<1>2. one \in Text /\ Len(one) = 1 /\ one[1] = pending BY DEF Stands, Ready, Text
<1>3. /\ w \in Text /\ Len(w) = 1 + Len(drafts) /\ Len(drafts) \in Nat /\ Len(d) \in Nat
      BY <1>1, <1>2, TextConcat
<1>4. w[1] = pending
  <2>1. \A i \in 1..Len(one) + Len(drafts) : w[i] = IF i <= Len(one) THEN one[i] ELSE drafts[i - Len(one)]
        BY <1>1, <1>2, ConcatProperties DEF Text
  <2> HIDE DEF one, w
  <2> QED BY <1>2, <1>3, <2>1
<1>5. w \in Windows(kMaxWindow) /\ one \in Windows(kMaxWindow)
  <2>1. Len(w) <= kMaxWindow /\ Len(one) <= kMaxWindow BY <1>1, <1>2, <1>3, Sizes
  <2> QED BY <1>2, <1>3, <2>1, Sizes, WindowText
<1>6. CASE stage0Done
  <2>1. history[0] = d \o w /\ Len(d) + Len(w) + kMaxWindow <= MaxCtx BY <1>6 DEF Stands, Ready
  <2>2. pos = Len(d) + 1 + Len(drafts) BY <1>3, <2>1, TextConcat DEF pos
  <2>3. ~(pos + 1 + Len(drafts) > MaxCtx) BY <1>1, <1>3, <2>1, <2>2, Sizes
  <2>4. Window = w BY <2>3 DEF Window
  <2>5. Len(Window) = 1 + Len(drafts) /\ Len(Window) >= 1 /\ Len(d) + Len(Window) <= MaxCtx
        BY <1>3, <2>1, <2>4, Sizes
  <2> HIDE DEF w
  <2>6. Half BY <1>6, <2>5 DEF Half
  <2> QED BY <1>4, <1>5, <1>6, <2>4, <2>5, <2>6 DEF w
<1>7. CASE ~stage0Done
  <2>1. pos = Len(d) /\ Len(d) + 2 < MaxCtx BY <1>7 DEF Stands, Ready, pos, Room
  <2>2. ~Half BY <1>7 DEF Half
  <2>3. CASE pos + 1 + Len(drafts) > MaxCtx
    <3>1. Window = one BY <2>3 DEF Window
    <3> HIDE DEF one
    <3>2. Window \in Windows(kMaxWindow) /\ Len(Window) = 1 /\ Window[1] = pending BY <1>2, <1>5, <3>1
    <3>3. Len(d) \in Nat /\ MaxCtx \in Nat BY Sizes, TextConcat
    <3> HIDE DEF w
    <3>4. Len(d) + Len(Window) <= MaxCtx BY <2>1, <3>2, <3>3
    <3> QED BY <1>7, <2>1, <2>2, <3>2, <3>4
  <2>4. CASE ~(pos + 1 + Len(drafts) > MaxCtx)
    <3>1. Window = w BY <2>4 DEF Window
    <3> HIDE DEF w
    <3> QED BY <1>3, <1>4, <1>5, <1>7, <2>1, <2>2, <2>4, <3>1, Sizes
  <2> QED BY <2>3, <2>4
<1> QED BY <1>6, <1>7

(* The engine refuses a round only over a window left to commit.             *)
LEMMA RoundAllowed ==
  ASSUME TypeOK, NEW d \in Text, Stands(d), pc = "ready", Room, ~unsettled
  PROVE  PrepareChecks(Window, Half)
<1>1. specT = 0 /\ pendingT[1] = 0 /\ history[1] = d BY DEF Stands, Ready, Resting, At
<1>2. ~stage0Done => pendingT[0] = 0 BY DEF Stands, Ready, First, At
<1> QED BY <1>1, <1>2, WindowIs DEF PrepareChecks

(* What Prepare does to the two stages.                                    *)
LEMMA PrepareKeeps ==
  ASSUME TypeOK, NEW d \in Text, Stands(d),
         NEW w \in Windows(kMaxWindow), Len(w) >= 1, w[1] = pending, Len(d) + Len(w) <= MaxCtx,
         NEW ln \in Lanes, NEW half \in BOOLEAN, half = stage0Done,
         half => w = <<pending>> \o drafts /\ ln = laLane,
         Prepare(w, ln, half), pc' \in {"chain", "verify"}, stage0Done' = half
  PROVE  TypeOK' /\ Stands(d)'
<1>1. w \in Text /\ d \o w \in Text /\ Len(d \o w) = Len(d) + Len(w) /\ Len(d) \in Nat /\ Len(w) \in Nat
      BY Sizes, WindowText, TextConcat
<1>2. /\ pc = "ready" /\ open /\ ~failed /\ Resting /\ text = d \o <<pending>>
      /\ history[1] = d /\ At(1, d) /\ ~unsettled
  <2>1. unsettled => ~stage0Done /\ pendingT[0] = 1 BY DEF Prepare, Stands, Ready, First, Behind
  <2>2. ~half => pendingT[0] = 0 BY DEF Prepare, PrepareChecks
  <2> QED BY <2>1, <2>2 DEF Prepare, Stands, Ready
<1>3. /\ lastLane' = [lastLane EXCEPT ![0] = IF half THEN @ ELSE ln, ![1] = ln]
      /\ win' = w
      /\ UNCHANGED <<ckpts, shadow, specT, specLane, inflight, pending, drafts, laLane, verdict,
                     text, open, failed, turns, unsettled>>
  BY DEF Prepare, speculation, client
<1>4. /\ history' \in [Stages -> Text] /\ state' \in [Stages -> States]
      /\ cells' \in [Stages -> Seq(Text \cup {None})] /\ pendingT' \in [Stages -> 0..kMaxWindow]
      /\ lane' \in [Stages -> [Lanes -> Rows]] /\ lastLane' \in [Stages -> Lanes]
      /\ history'[0] = d \o w /\ history'[1] = d \o w
      /\ lastLane'[0] = lastLane'[1] /\ Ran(0, d, w)' /\ At(1, d)'
  <2>1. lastLane' \in [Stages -> Lanes] /\ lastLane'[1] = ln /\ lastLane'[0] = IF half THEN lastLane[0] ELSE ln
    BY <1>3 DEF TypeOK, Stages
  <2>2. CASE half
    <3>1. history' = [history EXCEPT ![1] = @ \o w] /\ UNCHANGED <<lane, cells, state, pendingT>>
      BY <2>2 DEF Prepare
    <3>2. history[0] = d \o w /\ Ran(0, d, w) /\ ln = lastLane[0]
      BY <1>2, <2>2 DEF Stands, Ready
    <3>3. history' \in [Stages -> Text] /\ history'[0] = d \o w /\ history'[1] = d \o w
      BY <1>1, <1>2, <3>1, <3>2 DEF TypeOK, Stages
    <3>4. lastLane'[0] = lastLane[0] /\ lastLane'[1] = lastLane[0] BY <2>1, <2>2, <3>2
    <3>5. Ran(0, d, w)'
      <4>1. stage0Done' = stage0Done OBVIOUS
      <4> QED BY <3>1, <3>2, <3>4, <4>1 DEF Ran, Inside
    <3>6. At(1, d)' BY <1>2, <3>1 DEF At
    <3> QED BY <2>1, <3>1, <3>3, <3>4, <3>5, <3>6 DEF TypeOK
  <2>3. CASE ~half
    <3>1. history[0] = d /\ At(0, d) /\ pos = Len(d)
      BY <1>2, <2>3 DEF Prepare, Stands, Ready, First, pos
    <3>2. state[0].text = d /\ Covers(cells[0], d) /\ 0 \in Stages BY <3>1 DEF At, Stages
    <3>3. /\ Base(state[0], cells[0], d) = d
          /\ After(state[0], d, w) \in States
          /\ After(state[0], d, w) = IF Len(w) = 1 THEN [text |-> d \o w, rows |-> <<>>]
                                                  ELSE [text |-> d, rows |-> w]
          /\ Written(cells[0], Len(d), d, w) \in Seq(Text \cup {None})
          /\ Covers(Written(cells[0], Len(d), d, w), d \o w)
      BY <3>2, ForwardRuns
    <3>4. /\ history' = [s \in Stages |-> history[s] \o w]
          /\ lane' = [lane EXCEPT ![0][ln] = [base |-> d, win |-> w]]
          /\ cells' = [cells EXCEPT ![0] = Written(cells[0], Len(d), d, w)]
          /\ state' = [state EXCEPT ![0] = After(state[0], d, w)]
          /\ pendingT' = [pendingT EXCEPT ![0] = IF Len(w) = 1 THEN 0 ELSE Len(w)]
      BY <2>3, <3>1, <3>3 DEF Prepare
    <3>5. history' \in [Stages -> Text] /\ history'[0] = d \o w /\ history'[1] = d \o w
      BY <1>1, <1>2, <3>1, <3>4 DEF Stages
    <3>6. cells' \in [Stages -> Seq(Text \cup {None})] /\ cells'[1] = cells[1] /\ Covers(cells'[0], d \o w)
      <4>1. cells \in [Stages -> Seq(Text \cup {None})] BY DEF TypeOK
      <4>2. cells'[0] = Written(cells[0], Len(d), d, w) /\ cells'[1] = cells[1] BY <3>4, <4>1 DEF Stages
      <4>3. cells' \in [Stages -> Seq(Text \cup {None})] BY <3>3, <3>4, <4>1
      <4> QED BY <3>3, <4>2, <4>3
    <3>7. /\ state' \in [Stages -> States] /\ state'[1] = state[1] /\ state'[0] = After(state[0], d, w)
      <4>1. state \in [Stages -> States] BY DEF TypeOK
      <4>2. After(state[0], d, w) \in States BY <3>3
      <4> QED BY <3>4, <4>1, <4>2 DEF Stages
    <3>8. /\ pendingT' \in [Stages -> 0..kMaxWindow] /\ pendingT'[1] = pendingT[1]
          /\ pendingT'[0] = IF Len(w) = 1 THEN 0 ELSE Len(w)
      <4>1. Len(w) <= kMaxWindow BY Sizes, WindowText
      <4> QED BY <1>1, <3>4, <4>1, Sizes DEF TypeOK, Stages
    <3>9. lane' \in [Stages -> [Lanes -> Rows]] /\ lane'[0][ln] = [base |-> d, win |-> w]
      <4>1. [base |-> d, win |-> w] \in Rows BY DEF Rows
      <4> QED BY <3>4, <4>1 DEF TypeOK, Stages
    <3>10. Ran(0, d, w)' BY <2>1, <2>3, <3>3, <3>6, <3>7, <3>8, <3>9 DEF Ran, Inside
    <3>11. At(1, d)' BY <1>2, <3>6, <3>7, <3>8 DEF At
    <3> QED BY <2>1, <2>3, <3>5, <3>6, <3>7, <3>8, <3>9, <3>10, <3>11
  <2> QED BY <2>2, <2>3
<1>5. TypeOK' BY <1>3, <1>4 DEF TypeOK
<1>6. Snapshots(d)' BY <1>1, <1>3, SnapshotsGrow DEF Stands
<1>7. Round(d)'
  <2>1. Ran(0, d, win)' BY <1>3, <1>4 DEF Ran, Inside
  <2>2. Resting' /\ open' /\ ~failed' /\ ~unsettled' /\ text' = d \o <<win'[1]>> BY <1>2, <1>3 DEF Resting
  <2>3. Len(win') > 0 /\ Len(d) + Len(win') <= MaxCtx BY <1>1, <1>3
  <2>4. history'[1] = d \o win' /\ history'[0] = d \o win' /\ lastLane'[0] = lastLane'[1] /\ At(1, d)'
    BY <1>3, <1>4
  <2> QED BY <2>1, <2>2, <2>3, <2>4 DEF Round
<1>8. Still(d)' /\ Drafting(d)' /\ Ready(d)' BY DEF Still, Drafting, Ready
<1> QED BY <1>5, <1>6, <1>7, <1>8 DEF Stands

LEMMA PlainRoundKeeps ==
  ASSUME TypeOK, NEW d \in Text, Stands(d), PlainRound
  PROVE  TypeOK' /\ Stands(d)'
<1>1. PICK n \in 1..Len(Window) : Prepare(Prefix(Window, n), 0, FALSE) BY DEF PlainRound
<1>2. pc = "ready" /\ Room /\ pc' = "verify" /\ stage0Done' = FALSE BY <1>1 DEF PlainRound, Prepare
<1>3. /\ ~stage0Done /\ Window \in Windows(kMaxWindow) /\ Len(Window) >= 1 /\ Window[1] = pending
      /\ Len(d) + Len(Window) <= MaxCtx
  BY <1>2, WindowIs DEF PlainRound
<1> DEFINE w == Prefix(Window, n)
<1>4. Window \in Text /\ Len(Window) <= kMaxWindow /\ Len(Window) \in Nat /\ Len(d) \in Nat
  BY <1>3, Sizes, WindowText, TextConcat
<1>5. w \in Text /\ Len(w) = n /\ w[1] = Window[1]
  <2>1. n \in 0..Len(Window) /\ 1 \in 1..n BY <1>4
  <2> QED BY <1>4, <2>1, PrefixIs DEF Text
<1>6. w \in Windows(kMaxWindow)
  <2>1. Len(w) <= kMaxWindow BY <1>4, <1>5, Sizes
  <2> QED BY <1>5, <2>1, Sizes, WindowText
<1> HIDE DEF w
<1>7. Len(w) >= 1 /\ w[1] = pending /\ Len(d) + Len(w) <= MaxCtx BY <1>3, <1>4, <1>5, Sizes
<1>8. Prepare(w, 0, FALSE) BY <1>1 DEF w
<1>9. /\ 0 \in Lanes /\ FALSE \in BOOLEAN /\ FALSE = stage0Done
      /\ FALSE => w = <<pending>> \o drafts /\ 0 = laLane
      /\ pc' \in {"chain", "verify"} /\ stage0Done' = FALSE
  BY <1>2, <1>3 DEF Lanes, TypeOK
<1> QED BY <1>6, <1>7, <1>8, <1>9, PrepareKeeps

LEMMA LookaheadRoundKeeps ==
  ASSUME TypeOK, NEW d \in Text, Stands(d), LookaheadRound
  PROVE  TypeOK' /\ Stands(d)'
<1>1. /\ Prepare(Window, laLane, Half) /\ pc' = "chain" /\ stage0Done' = Half BY DEF LookaheadRound
<1>2. pc = "ready" /\ Room BY <1>1 DEF Prepare
<1> DEFINE w == Window  half == Half
<1>3. /\ half = stage0Done /\ w \in Windows(kMaxWindow) /\ Len(w) >= 1 /\ w[1] = pending
      /\ Len(d) + Len(w) <= MaxCtx /\ (half => w = <<pending>> \o drafts) /\ half \in BOOLEAN
  <2>1. Half \in BOOLEAN /\ stage0Done \in BOOLEAN BY DEF Half, TypeOK
  <2> QED BY <1>2, <2>1, WindowIs
<1>4. Prepare(w, laLane, half) /\ laLane \in Lanes /\ stage0Done' = half BY <1>1 DEF TypeOK
<1> HIDE DEF w, half
<1> QED BY <1>1, <1>3, <1>4, PrepareKeeps

(* The accepted rows of a window, replayed into the state before it.        *)
LEMMA ReplayIs ==
  ASSUME NEW d \in Text, NEW w, NEW n
  PROVE  Replay([text |-> d, rows |-> w], [base |-> d, win |-> w], n)
           = [text |-> d \o Prefix(w, n), rows |-> <<>>]
<1>1. d # None BY Sizes
<1> QED BY <1>1 DEF Replay

(* During a round.                                                         *)
LEMMA RoundIs ==
  ASSUME TypeOK, NEW d \in Text, Stands(d), pc \in {"chain", "verify", "settle"}
  PROVE  /\ win \in Text /\ Len(win) \in Nat /\ Len(win) > 0 /\ Len(win) <= kMaxWindow
         /\ Len(d) \in Nat /\ d \o win \in Text /\ Len(d \o win) = Len(d) + Len(win)
         /\ open /\ ~failed /\ ~unsettled /\ text = d \o <<win[1]>> /\ win[1] \in Tokens
         /\ history[1] = d \o win /\ Len(d) + Len(win) <= MaxCtx
         /\ lastLane[0] = lastLane[1] /\ lastLane[0] \in Lanes
         /\ Ran(0, d, win) /\ Prefix(win, Len(win)) = win
<1>1. win \in Text /\ Len(win) <= kMaxWindow BY Sizes, WindowText DEF TypeOK
<1>2. Round(d) BY DEF Stands
<1>3. /\ Len(win) \in Nat /\ Len(d) \in Nat /\ d \o win \in Text /\ Len(d \o win) = Len(d) + Len(win)
  BY <1>1, TextConcat
<1>4. win[1] \in Tokens
  <2>1. 1 \in 1..Len(win) BY <1>2, <1>3 DEF Round
  <2> QED BY <1>1, <2>1, ElementOfSeq DEF Text
<1>5. Prefix(win, Len(win)) = win BY <1>1, PrefixWhole DEF Text
<1> QED BY <1>1, <1>2, <1>3, <1>4, <1>5 DEF Round, TypeOK, Stages

(* The engine never refuses a speculation it has room for.                  *)
LEMMA ChainAllowed ==
  ASSUME TypeOK, NEW d \in Text, Stands(d), pc = "chain", Len(win) > 1,
         NEW n \in Nat, MayChain(n)
  PROVE  SpecChecks(n)
<1>1. specT = 0 BY DEF Stands, Round, Resting
<1>2. pendingT[0] = Len(win)
  <2>1. Len(win) \in Nat /\ Ran(0, d, win) BY RoundIs
  <2> QED BY <2>1 DEF Ran, Inside
<1>3. pos \in Nat /\ kMaxWindow \in Nat /\ MaxCtx \in Nat
  <2>1. history[0] \in Seq(Tokens) BY DEF TypeOK, Stages, Text
  <2> QED BY <2>1, Sizes, LenProperties DEF pos
<1>4. pos + n <= MaxCtx BY <1>3 DEF MayChain
<1> QED BY <1>1, <1>2, <1>4 DEF SpecChecks

LEMMA SpeculateKeeps ==
  ASSUME TypeOK, NEW d \in Text, Stands(d),
         NEW c \in Windows(kMaxWindow), c # <<>>, Speculate(c)
  PROVE  TypeOK' /\ Stands(d)'
<1>1. pc = "chain" /\ Len(win) > 1 /\ MayChain(Len(c)) BY DEF Speculate
<1>2. /\ win \in Text /\ Len(win) \in Nat /\ Len(d) \in Nat
      /\ d \o win \in Text /\ Len(d \o win) = Len(d) + Len(win)
      /\ lastLane[0] = lastLane[1] /\ lastLane[0] \in Lanes
      /\ Ran(0, d, win) /\ Prefix(win, Len(win)) = win /\ ~unsettled
  BY <1>1, RoundIs
<1>3. /\ Resting /\ history[0] = d \o win /\ At(1, d) BY <1>1 DEF Stands, Round
<1>4. c \in Text /\ Len(c) <= kMaxWindow /\ Len(c) \in Nat /\ Len(c) > 0
  <2>1. c \in Text /\ Len(c) <= kMaxWindow /\ Len(c) \in Nat BY Sizes, WindowText, TextConcat
  <2>2. Len(c) # 0 BY <2>1, EmptySeq DEF Text
  <2> QED BY <2>1, <2>2
<1>5. PICK e : e = d \o win OBVIOUS
<1>6. e \in Text /\ Len(e) = Len(d) + Len(win) /\ e \o c \in Text BY <1>2, <1>4, <1>5, TextConcat
<1>7. /\ state[0] = [text |-> d, rows |-> win] /\ pendingT[0] = Len(win)
      /\ lane[0][lastLane[0]] = [base |-> d, win |-> win] /\ Covers(cells[0], e)
  BY <1>1, <1>2, <1>5 DEF Ran, Inside
<1>8. Replay(state[0], lane[0][lastLane[0]], pendingT[0]) = [text |-> e, rows |-> <<>>]
  <2>1. Replay([text |-> d, rows |-> win], [base |-> d, win |-> win], Len(win))
          = [text |-> d \o Prefix(win, Len(win)), rows |-> <<>>] BY ReplayIs
  <2> QED BY <1>2, <1>5, <1>7, <2>1
<1>9. pos = Len(e) /\ history[0] = e BY <1>3, <1>5 DEF pos
<1>10. Base([text |-> e, rows |-> <<>>], cells[0], e) = e BY <1>7, BaseIs
<1>11. PICK o : o = OtherLane OBVIOUS
<1>12. o = 1 - lastLane[0] /\ o \in Lanes /\ o # lastLane[0] BY <1>2, <1>11 DEF OtherLane, Lanes
<1>13. /\ shadow' = [text |-> e, rows |-> c]
       /\ lane' = [lane EXCEPT ![0][o] = [base |-> e, win |-> c]]
       /\ cells' = [cells EXCEPT ![0] = Written(cells[0], Len(e), e, c)]
       /\ history' = [history EXCEPT ![0] = e \o c]
       /\ specLane' = o /\ inflight' = TRUE /\ pc' = "verify"
       /\ UNCHANGED <<state, pendingT, lastLane, ckpts, specT, pending, drafts, stage0Done, laLane,
                      win, verdict, text, open, failed, turns, unsettled>>
  <2> DEFINE sh == Replay(state[0], lane[0][lastLane[0]], pendingT[0])
             base == Base(sh, cells[0], history[0])
  <2>1. /\ shadow' = [sh EXCEPT !.rows = c]
        /\ lane' = [lane EXCEPT ![0][OtherLane] = [base |-> base, win |-> c]]
        /\ cells' = [cells EXCEPT ![0] = Written(cells[0], pos, base, c)]
        /\ history' = [history EXCEPT ![0] = history[0] \o c]
        /\ specLane' = OtherLane /\ inflight' = TRUE /\ pc' = "verify"
        /\ UNCHANGED <<state, pendingT, lastLane, ckpts, specT, pending, drafts, stage0Done, laLane,
                       win, verdict, text, open, failed, turns, unsettled>>
    BY DEF Speculate, generator, client
  <2>2. sh = [text |-> e, rows |-> <<>>] BY <1>8
  <2> HIDE DEF sh
  <2>3. base = e BY <1>9, <1>10, <2>2
  <2> HIDE DEF base
  <2>4. [sh EXCEPT !.rows = c] = [text |-> e, rows |-> c] BY <2>2
  <2> QED BY <1>9, <1>11, <2>1, <2>3, <2>4
<1>14. /\ Written(cells[0], Len(e), e, c) \in Seq(Text \cup {None})
       /\ Covers(Written(cells[0], Len(e), e, c), e \o c)
  BY <1>4, <1>6, <1>7, WrittenCovers DEF TypeOK, Stages
<1>15. /\ history' \in [Stages -> Text] /\ history'[0] = e \o c /\ history'[1] = history[1]
  BY <1>6, <1>13 DEF TypeOK, Stages
<1>16. /\ cells' \in [Stages -> Seq(Text \cup {None})] /\ Covers(cells'[0], e \o c) /\ cells'[1] = cells[1]
  BY <1>13, <1>14 DEF TypeOK, Stages
<1>17. /\ lane' \in [Stages -> [Lanes -> Rows]] /\ lane'[0][o] = [base |-> e, win |-> c]
       /\ lane'[0][lastLane[0]] = lane[0][lastLane[0]]
  <2>1. [base |-> e, win |-> c] \in Rows BY <1>6 DEF Rows
  <2> QED BY <1>12, <1>13, <1>2, <2>1 DEF TypeOK, Stages
<1>18. TypeOK'
  <2>1. shadow' \in States BY <1>6, <1>13 DEF States
  <2> QED BY <1>12, <1>13, <1>15, <1>16, <1>17, <2>1 DEF TypeOK
<1>19. Snapshots(d)' BY <1>2, <1>13, SnapshotsGrow DEF Stands
<1>20. Ran(0, d, win)'
  <2>1. Len(cells'[0]) \in Nat BY <1>16, LenProperties DEF Stages
  <2>2. Covers(cells'[0], e) BY <1>4, <1>6, <1>16, <2>1, CoversFirst
  <2> QED BY <1>2, <1>5, <1>13, <1>17, <2>2 DEF Ran, Inside
<1>21. Speculated(d, win, shadow.rows)'
  <2>1. Len(d) + Len(win) + Len(c) + kMaxWindow <= MaxCtx
    BY <1>1, <1>2, <1>4, <1>6, <1>9, Sizes DEF MayChain
  <2>2. specT' = 0 BY <1>3, <1>13 DEF Resting
  <2> QED BY <1>1, <1>4, <1>5, <1>12, <1>13, <1>15, <1>16, <1>17, <2>1, <2>2 DEF Speculated
<1>22. Round(d)'
  <2>1. ~Resting' BY <1>13 DEF Resting
  <2>2. At(1, d)' BY <1>3, <1>13, <1>16 DEF At
  <2>3. /\ open /\ ~failed /\ text = d \o <<win[1]>> /\ history[1] = d \o win
        /\ Len(d) + Len(win) <= MaxCtx /\ Len(win) > 0
    BY <1>1, RoundIs
  <2> QED BY <1>2, <1>13, <1>15, <1>20, <1>21, <2>1, <2>2, <2>3 DEF Round
<1>23. Still(d)' /\ Drafting(d)' /\ Ready(d)' BY <1>13 DEF Still, Drafting, Ready
<1> QED BY <1>18, <1>19, <1>22, <1>23 DEF Stands

LEMMA NoSpecKeeps ==
  ASSUME TypeOK, NEW d \in Text, Stands(d), NoSpec
  PROVE  TypeOK' /\ Stands(d)'
<1>1. /\ pc = "chain" /\ pc' = "verify"
      /\ UNCHANGED <<history, state, cells, pendingT, lane, lastLane, ckpts, shadow, specT, specLane,
                     inflight, pending, drafts, stage0Done, laLane, win, verdict,
                     text, open, failed, turns, unsettled>>
  BY DEF NoSpec, engine, speculation, generator, client
<1>2. TypeOK' BY <1>1 DEF TypeOK
<1>3. Snapshots(d)' BY <1>1, SnapshotsGrow, Sizes DEF Stands
<1>4. Round(d)'
  <2>1. Ran(0, d, win)' /\ At(1, d)' BY <1>1 DEF Stands, Round, Ran, Inside, At
  <2>2. Resting' BY <1>1 DEF Stands, Round, Resting
  <2> QED BY <1>1, <2>1, <2>2 DEF Stands, Round
<1>5. Still(d)' /\ Drafting(d)' /\ Ready(d)' BY <1>1 DEF Still, Drafting, Ready
<1> QED BY <1>2, <1>3, <1>4, <1>5 DEF Stands

LEMMA SpecEndsKeeps ==
  ASSUME TypeOK, NEW d \in Text, Stands(d), SpecEnds
  PROVE  TypeOK' /\ Stands(d)'
<1>1. /\ inflight /\ specT' = Len(shadow.rows) /\ inflight' = FALSE
      /\ UNCHANGED <<history, state, cells, pendingT, lane, lastLane, ckpts, shadow, specLane,
                     pending, drafts, stage0Done, laLane, pc, win, verdict,
                     text, open, failed, turns, unsettled>>
  BY DEF SpecEnds, engine, generator, round, client
<1>2. ~Resting BY <1>1 DEF Resting
<1>3. pc \in {"verify", "settle"} BY <1>2 DEF Stands, Still, Ready, Round, TypeOK
<1>4. Speculated(d, win, shadow.rows) BY <1>2, <1>3 DEF Stands, Round
<1>5. shadow.rows \in Text /\ Len(shadow.rows) \in Nat /\ Len(shadow.rows) <= kMaxWindow
  <2>1. shadow.rows \in Windows(kMaxWindow) BY DEF TypeOK, States
  <2> QED BY <2>1, Sizes, WindowText, TextConcat
<1>6. TypeOK'
  <2>1. specT' \in 0..kMaxWindow BY <1>1, <1>5, Sizes
  <2> QED BY <1>1, <2>1 DEF TypeOK
<1>7. Snapshots(d)' BY <1>1, SnapshotsGrow, Sizes DEF Stands
<1>8. Round(d)'
  <2>1. ~Resting'
    <3>1. Len(shadow.rows) > 0 BY <1>4 DEF Speculated
    <3> QED BY <1>1, <1>5, <3>1 DEF Resting
  <2>2. Speculated(d, win, shadow.rows)' BY <1>1, <1>4 DEF Speculated
  <2>3. Ran(0, d, win)' BY <1>1, <1>3 DEF Stands, Round, Ran, Inside
  <2>4. IF pc = "settle" THEN Ran(1, d, win)' /\ (verdict \in Verdicts(d))' ELSE At(1, d)'
    BY <1>1, <1>3 DEF Stands, Round, Ran, Inside, At, Verdicts
  <2> QED BY <1>1, <1>3, <2>1, <2>2, <2>3, <2>4 DEF Stands, Round
<1>9. Still(d)' /\ Drafting(d)' /\ Ready(d)' BY <1>1, <1>3 DEF Still, Drafting, Ready
<1> QED BY <1>6, <1>7, <1>8, <1>9 DEF Stands

LEMMA VerifyKeeps ==
  ASSUME TypeOK, NEW d \in Text, Stands(d), Verify
  PROVE  TypeOK' /\ Stands(d)'
<1>1. pc = "verify" BY DEF Verify
<1>2. /\ win \in Text /\ Len(win) \in Nat /\ Len(win) > 0 /\ Len(win) <= kMaxWindow
      /\ Len(d) \in Nat /\ d \o win \in Text /\ Len(d \o win) = Len(d) + Len(win)
      /\ open /\ ~failed /\ text = d \o <<win[1]>>
      /\ history[1] = d \o win /\ Len(d) + Len(win) <= MaxCtx
      /\ lastLane[0] = lastLane[1] /\ lastLane[0] \in Lanes /\ Ran(0, d, win) /\ ~unsettled
  BY <1>1, RoundIs
<1>3. At(1, d) /\ (IF Resting THEN history[0] = d \o win ELSE Speculated(d, win, shadow.rows))
  BY <1>1 DEF Stands, Round
<1>4. PICK ln : ln = lastLane[1] OBVIOUS
<1>5. Prefix(history[1], Len(history[1]) - Len(win)) = d
  <2>1. Len(history[1]) - Len(win) = Len(d) /\ Len(d) \in 0..Len(d) BY <1>2
  <2>2. Prefix(d \o win, Len(d)) = Prefix(d, Len(d)) BY <1>2, <2>1, PrefixOfConcat DEF Text
  <2> QED BY <1>2, <2>1, <2>2, PrefixWhole DEF Text
<1>6. lane[0][ln] = [base |-> d, win |-> win] BY <1>2, <1>4 DEF Ran
<1>7. /\ Base(state[1], cells[1], d) = d
      /\ After(state[1], d, win) \in States
      /\ After(state[1], d, win) = IF Len(win) = 1 THEN [text |-> d \o win, rows |-> <<>>]
                                                 ELSE [text |-> d, rows |-> win]
      /\ Written(cells[1], Len(d), d, win) \in Seq(Text \cup {None})
      /\ Covers(Written(cells[1], Len(d), d, win), d \o win)
  <2>1. state[1].text = d /\ Covers(cells[1], d) /\ 1 \in Stages BY <1>3 DEF At, Stages
  <2>2. win \in Windows(kMaxWindow) BY DEF TypeOK
  <2> QED BY <2>1, <2>2, ForwardRuns
<1>8. /\ lane' = [lane EXCEPT ![1][ln] = [base |-> d, win |-> win]]
      /\ cells' = [cells EXCEPT ![1] = Written(cells[1], Len(d), d, win)]
      /\ state' = [state EXCEPT ![1] = After(state[1], d, win)]
      /\ verdict' \in Verdicts(d)
      /\ pendingT' = [pendingT EXCEPT ![1] = IF Len(win) = 1 THEN 0 ELSE Len(win)]
      /\ pc' = "settle"
      /\ UNCHANGED <<history, lastLane, ckpts, shadow, specT, specLane, inflight,
                     pending, drafts, stage0Done, laLane, win, text, open, failed, turns, unsettled>>
  BY <1>4, <1>5, <1>6, <1>7 DEF Verify, speculation, generator, client
<1>9. lane' \in [Stages -> [Lanes -> Rows]] /\ lane'[0] = lane[0] /\ lane'[1][ln] = [base |-> d, win |-> win]
  <2>1. [base |-> d, win |-> win] \in Rows BY DEF Rows, TypeOK
  <2> QED BY <1>2, <1>4, <1>8, <2>1 DEF TypeOK, Stages
<1>10. /\ cells' \in [Stages -> Seq(Text \cup {None})] /\ cells'[0] = cells[0]
       /\ Covers(cells'[1], d \o win)
  BY <1>7, <1>8 DEF TypeOK, Stages
<1>11. state' \in [Stages -> States] /\ state'[0] = state[0] /\ state'[1] = After(state[1], d, win)
  BY <1>7, <1>8 DEF TypeOK, Stages
<1>12. /\ pendingT' \in [Stages -> 0..kMaxWindow] /\ pendingT'[0] = pendingT[0]
       /\ pendingT'[1] = IF Len(win) = 1 THEN 0 ELSE Len(win)
  BY <1>2, <1>8, Sizes DEF TypeOK, Stages
<1>13. TypeOK' BY <1>8, <1>9, <1>10, <1>11, <1>12 DEF TypeOK
<1>14. Snapshots(d)' BY <1>2, <1>8, SnapshotsGrow DEF Stands
<1>15. Ran(0, d, win)' BY <1>2, <1>8, <1>9, <1>10, <1>11, <1>12 DEF Ran, Inside
<1>16. Ran(1, d, win)' BY <1>4, <1>7, <1>8, <1>9, <1>10, <1>11, <1>12 DEF Ran, Inside
<1>17. Round(d)'
  <2>1. (verdict \in Verdicts(d))' BY <1>8 DEF Verdicts
  <2>2. Resting' = Resting BY <1>8 DEF Resting
  <2>3. Speculated(d, win, shadow.rows) => Speculated(d, win, shadow.rows)'
    BY <1>8, <1>9, <1>10 DEF Speculated
  <2> QED BY <1>2, <1>3, <1>8, <1>15, <1>16, <2>1, <2>2, <2>3 DEF Round
<1>18. Still(d)' /\ Drafting(d)' /\ Ready(d)' BY <1>8 DEF Still, Drafting, Ready
<1> QED BY <1>13, <1>14, <1>17, <1>18 DEF Stands

(* The tokens of a verdict continue the text as the model would, and stand   *)
(* after it as the accepted rows and the next pending token.               *)
LEMMA OutIs ==
  ASSUME TypeOK, NEW d \in Text, Stands(d), pc = "settle",
         NEW n, n = verdict.kept + 1, NEW b, b = verdict.bonus
  PROVE  /\ n \in 1..Len(win) /\ b \in Tokens
         /\ Out \in Text /\ Len(Out) > 0
         /\ Prefix(win, n) \in Text /\ Len(Prefix(win, n)) = n
         /\ text \o Out = (d \o Prefix(win, n)) \o <<b>>
         /\ Plain!Continues(text, Out)
<1>1. /\ win \in Text /\ Len(win) \in Nat /\ Len(win) > 0 /\ win[1] \in Tokens
      /\ text = d \o <<win[1]>>
  BY RoundIs
<1>2. verdict \in Verdicts(d) BY DEF Stands, Round
<1>3. verdict.kept \in 0..Len(win) - 1 /\ b \in Tokens BY <1>2 DEF Verdicts
<1>4. n \in 1..Len(win) BY <1>1, <1>3
<1> DEFINE v == SubSeq(win, 2, n)  one == <<win[1]>>  last == <<b>>
<1>5. v \in Text /\ Prefix(win, n) = one \o v
  <2>1. 1 \in 1..Len(win) /\ n \in 1..Len(win) /\ 2 \in Int /\ n \in Int BY <1>1, <1>4
  <2>2. \A i \in 2..n : win[i] \in Tokens
    <3>1. \A i \in 2..n : i \in 1..Len(win) BY <1>1, <1>4
    <3> QED BY <1>1, <3>1, ElementOfSeq DEF Text
  <2>3. v \in Text BY <2>1, <2>2, SubSeqProperties DEF Text
  <2>4. SubSeq(win, 1, n) = <<win[1]>> \o SubSeq(win, 1 + 1, n) BY <1>1, <2>1, SubSeqRecursiveFirst DEF Text
  <2> QED BY <2>3, <2>4 DEF Prefix
<1>6. one \in Text /\ last \in Text /\ Len(last) = 1 BY <1>1, <1>3 DEF Text
<1>7. Out = v \o last
  <2>1. Out = Append(v, b) BY DEF Out
  <2> HIDE DEF v
  <2> QED BY <1>3, <1>5, <2>1, AppendIsConcat DEF Text
<1> HIDE DEF v, one, last
<1>8. Out \in Text /\ Len(Out) > 0
  <2>1. v \in Text /\ last \in Text /\ Len(last) = 1 BY <1>5, <1>6
  <2>2. v \o last \in Text /\ Len(v \o last) = Len(v) + Len(last) /\ Len(v) \in Nat BY <2>1, TextConcat
  <2> QED BY <1>7, <2>1, <2>2
<1>9. text \o Out = (d \o Prefix(win, n)) \o last
  <2>6. one \in Text /\ v \in Text /\ last \in Text BY <1>5, <1>6
  <2>1. one \o v \in Text /\ v \o last \in Text BY <2>6, TextConcat
  <2>2. (d \o one) \o (v \o last) = d \o (one \o (v \o last)) BY <2>1, <2>6, TextAssociative
  <2>3. (one \o v) \o last = one \o (v \o last) BY <2>6, TextAssociative
  <2>7. one \o v \in Text /\ last \in Text /\ d \in Text BY <2>1, <2>6
  <2>4. (d \o (one \o v)) \o last = d \o ((one \o v) \o last) BY <2>7, TextAssociative
  <2>5. text = d \o one BY <1>1 DEF one
  <2> QED BY <1>5, <1>7, <2>2, <2>3, <2>4, <2>5
<1>10. Plain!Continues(text, Out)
  <2>1. d # None BY Sizes
  <2>2. \A i \in 1..Len(Out) : Out[i] \in Support((d \o <<win[1]>>) \o Prefix(Out, i - 1))
    BY <1>2, <2>1, Zenon DEF Verdicts, Out
  <2>3. \A i \in 1..Len(Out) : Out[i] \in Support(text \o SubSeq(Out, 1, i - 1))
    BY <1>1, <2>2, Zenon DEF Prefix
  <2> QED BY <2>3, Zenon DEF Plain!Continues
<1>11. Prefix(win, n) \in Text /\ Len(Prefix(win, n)) = n
  <2>1. n \in 0..Len(win) BY <1>1, <1>4
  <2> QED BY <1>1, <2>1, TextPrefix
<1> QED BY <1>3, <1>4, <1>8, <1>9, <1>10, <1>11 DEF last

(* A verdict that meets a speculation finds it over the window whole.       *)
LEMMA HitIs ==
  ASSUME TypeOK, NEW d \in Text, Stands(d), Joined, specT > 0
  PROVE  /\ Speculated(d, win, shadow.rows) /\ specT = Len(shadow.rows)
         /\ shadow.rows \in Text /\ Len(shadow.rows) \in Nat
         /\ pendingT[1] = Len(win)
<1>1. ~Resting /\ pc = "settle" /\ ~inflight BY DEF Resting, Joined, TypeOK
<1>2. Speculated(d, win, shadow.rows) BY <1>1 DEF Stands, Round
<1>3. Len(win) > 1 /\ specT = Len(shadow.rows) BY <1>1, <1>2 DEF Speculated
<1>4. Ran(1, d, win) BY <1>1 DEF Stands, Round
<1>5. shadow.rows \in Text /\ Len(shadow.rows) \in Nat
  <2>1. shadow.rows \in Windows(kMaxWindow) BY DEF TypeOK, States
  <2> QED BY <2>1, Sizes, WindowText, TextConcat
<1>6. pendingT[1] = Len(win) BY <1>3, <1>4 DEF Ran, Inside
<1> QED BY <1>2, <1>3, <1>5, <1>6

(* The engine never refuses to confirm or to commit.                        *)
LEMMA SettleAllowed ==
  ASSUME TypeOK, NEW d \in Text, Stands(d), Joined
  PROVE  /\ Hit => ConfirmChecks
         /\ Len(win) > 1 => CommitChecks(verdict.kept + 1)
<1>1. pc = "settle" BY DEF Joined
<1>2. ASSUME Hit PROVE ConfirmChecks
  <2>1. specT > 0 BY <1>2 DEF Hit
  <2>2. pendingT[1] = Len(win) /\ Len(win) > 1 BY <2>1, HitIs DEF Speculated
  <2>3. pendingT[1] \in Nat BY Sizes DEF TypeOK, Stages
  <2> QED BY <2>1, <2>2, <2>3 DEF ConfirmChecks
<1>3. ASSUME Len(win) > 1 PROVE CommitChecks(verdict.kept + 1)
  <2>1. verdict.kept + 1 \in 1..Len(win) BY <1>1, OutIs
  <2>2. Ran(0, d, win) /\ Ran(1, d, win) BY <1>1 DEF Stands, Round
  <2>3. \A s \in Stages : pendingT[s] = Len(win) BY <1>3, <2>2 DEF Ran, Inside, Stages
  <2>4. Len(win) \in Nat BY <1>1, RoundIs
  <2> QED BY <2>1, <2>3, <2>4 DEF CommitChecks
<1> QED BY <1>2, <1>3

LEMMA ConfirmKeeps ==
  ASSUME TypeOK, NEW d \in Text, Stands(d), Confirm
  PROVE  TypeOK' /\ \E e \in Text : Stands(e)'
<1>1. /\ pc = "settle" /\ Joined /\ Hit /\ specT > 0 /\ verdict.kept = Len(win) - 1
      /\ ~inflight
  BY DEF Confirm, Joined, Hit
<1>2. /\ win \in Text /\ Len(win) \in Nat /\ Len(win) > 0 /\ Len(win) <= kMaxWindow
      /\ Len(d) \in Nat /\ d \o win \in Text /\ Len(d \o win) = Len(d) + Len(win)
      /\ open /\ ~failed /\ ~unsettled /\ history[1] = d \o win
      /\ lastLane[0] = lastLane[1] /\ lastLane[0] \in Lanes /\ Prefix(win, Len(win)) = win
  BY <1>1, RoundIs
<1>3. PICK c : c = shadow.rows OBVIOUS
<1>4. PICK e : e = d \o win OBVIOUS
<1>5. /\ c \in Text /\ Len(c) \in Nat /\ specT = Len(c) /\ pendingT[1] = Len(win)
      /\ Len(win) > 1 /\ Len(c) > 0 /\ shadow = [text |-> e, rows |-> c]
      /\ history[0] = e \o c /\ specLane = 1 - lastLane[0]
      /\ lane[0][specLane] = [base |-> e, win |-> c] /\ Covers(cells[0], e \o c)
      /\ Len(d) + Len(win) + Len(c) + kMaxWindow <= MaxCtx
  BY <1>1, <1>3, <1>4, HitIs DEF Speculated
<1>6. e \in Text /\ Len(e) = Len(d) + Len(win) /\ history[1] = e BY <1>2, <1>4
<1>7. c \in Windows(kMaxWindow) BY <1>3 DEF TypeOK, States
<1>8. SpecTokens = c
  <2>1. SubSeq(e \o c, Len(e) + 1, Len(e \o c)) = c BY <1>5, <1>6, RestOfConcat DEF Text
  <2> QED BY <1>5, <1>6, <2>1 DEF SpecTokens, pos
<1>9. Replay(state[1], lane[1][lastLane[1]], pendingT[1]) = [text |-> e, rows |-> <<>>]
  <2>1. /\ state[1] = [text |-> d, rows |-> win]
        /\ lane[1][lastLane[1]] = [base |-> d, win |-> win] /\ Covers(cells[1], e)
    BY <1>1, <1>4, <1>5 DEF Stands, Round, Ran, Inside
  <2>2. Replay([text |-> d, rows |-> win], [base |-> d, win |-> win], Len(win))
          = [text |-> d \o Prefix(win, Len(win)), rows |-> <<>>] BY ReplayIs
  <2> QED BY <1>2, <1>4, <1>5, <2>1, <2>2
<1>10. Covers(cells[1], e) BY <1>1, <1>4 DEF Stands, Round, Ran
<1>11. PICK r : r = Replay(state[1], lane[1][lastLane[1]], pendingT[1]) OBVIOUS
<1>12. /\ state' = [s \in Stages |-> IF s = 0 THEN shadow ELSE r]
       /\ pendingT' = [s \in Stages |-> IF s = 0 THEN specT ELSE 0]
       /\ lastLane' = [lastLane EXCEPT ![0] = specLane]
       /\ lane' = [lane EXCEPT ![0][1 - specLane] = NoRows, ![1] = NoLanes]
       /\ specT' = 0 /\ specLane' = None /\ shadow' = Fresh
       /\ pending' = c[1] /\ drafts' = Tail(c)
       /\ stage0Done' = TRUE /\ laLane' = specLane
       /\ text' = text \o Out
       /\ pc' = "ready" /\ win' = <<>> /\ verdict' = None
       /\ UNCHANGED <<history, cells, ckpts, inflight, open, failed, turns, unsettled>>
  BY <1>8, <1>11 DEF Confirm
<1>13. specLane \in Lanes /\ 1 - specLane \in Lanes /\ 1 - specLane # specLane BY <1>2, <1>5 DEF Lanes
<1>14. /\ lane' \in [Stages -> [Lanes -> Rows]] /\ lane'[0][specLane] = [base |-> e, win |-> c]
  <2>1. NoRows \in Rows /\ NoLanes \in [Lanes -> Rows] BY Sizes DEF NoRows, NoLanes, Rows
  <2>2. lane \in [Stages -> [Lanes -> Rows]] /\ 0 \in Stages /\ 1 \in Stages BY DEF TypeOK, Stages
  <2>3. lane' \in [Stages -> [Lanes -> Rows]] BY <1>12, <1>13, <2>1, <2>2
  <2>4. lane'[0] = [lane[0] EXCEPT ![1 - specLane] = NoRows] BY <1>12, <2>2 DEF Stages
  <2>5. lane[0] \in [Lanes -> Rows] BY <2>2
  <2>6. lane'[0][specLane] = lane[0][specLane] BY <1>13, <2>4, <2>5
  <2> QED BY <1>5, <2>3, <2>6
<1>15. /\ state' \in [Stages -> States] /\ state'[0] = [text |-> e, rows |-> c] /\ state'[1].text = e
  <2>1. shadow \in States BY DEF TypeOK
  <2>2. r \in States /\ r.text = e BY <1>6, <1>9, <1>11, Sizes DEF States
  <2> QED BY <1>5, <1>12, <2>1, <2>2 DEF Stages
<1>16. /\ pendingT' \in [Stages -> 0..kMaxWindow] /\ pendingT'[0] = Len(c) /\ pendingT'[1] = 0
  <2>1. specT \in 0..kMaxWindow BY DEF TypeOK
  <2> QED BY <1>5, <1>12, <2>1, Sizes DEF Stages
<1>17. /\ lastLane' \in [Stages -> Lanes] /\ lastLane'[0] = specLane
  BY <1>12, <1>13 DEF TypeOK, Stages
<1>18. /\ c[1] \in Tokens /\ Tail(c) \in Windows(kMaxWindow - 1) /\ <<c[1]>> \o Tail(c) = c
  <2>1. 1 \in 1..Len(c) /\ Len(c) \in 1..Len(c) /\ c # <<>> BY <1>5, EmptySeq
  <2>2. c[1] \in Tokens BY <1>5, <2>1, ElementOfSeq DEF Text
  <2>3. Tail(c) \in Text /\ Len(Tail(c)) = Len(c) - 1 BY <1>5, <2>1, HeadTailProperties DEF Text
  <2>4. Len(c) <= kMaxWindow BY <1>7, Sizes, WindowText
  <2>5. Tail(c) \in Windows(kMaxWindow - 1)
    <3>1. Len(Tail(c)) <= kMaxWindow - 1 BY <1>5, <2>3, <2>4, Sizes
    <3> QED BY <2>3, <3>1, Sizes, WindowText
  <2>6. Tail(c) = SubSeq(c, 2, Len(c)) BY <1>5, <2>1, TailIsSubSeq DEF Text
  <2>7. SubSeq(c, 1, Len(c)) = <<c[1]>> \o SubSeq(c, 1 + 1, Len(c))
    BY <1>5, <2>1, SubSeqRecursiveFirst DEF Text
  <2>8. SubSeq(c, 1, Len(c)) = c BY <1>5, SubSeqFull DEF Text
  <2> QED BY <2>2, <2>5, <2>6, <2>7, <2>8
<1>19. text' = e \o <<c[1]>> /\ Out \in Text
  <2>1. verdict.bonus = c[1] BY <1>1, <1>8 DEF Hit
  <2>2. Len(win) = verdict.kept + 1 BY <1>1, <1>2
  <2>3. text \o Out = (d \o Prefix(win, Len(win))) \o <<verdict.bonus>> /\ Out \in Text
    BY <1>1, <2>2, OutIs
  <2> QED BY <1>2, <1>4, <1>12, <2>1, <2>3
<1>20. TypeOK'
  <2>1. text' \in Text BY <1>12, <1>19, TextConcat DEF TypeOK
  <2>2. Fresh \in States BY Sizes DEF Fresh, States
  <2>3. specT' \in 0..kMaxWindow BY <1>12, Sizes
  <2> QED BY <1>12, <1>13, <1>14, <1>15, <1>16, <1>17, <1>18, <2>1, <2>2, <2>3, Sizes DEF TypeOK
<1>21. Snapshots(e)' BY <1>2, <1>4, <1>12, SnapshotsGrow DEF Stands
<1>22. Ready(e)'
  <2>1. Resting' BY <1>1, <1>12 DEF Resting
  <2>2. At(1, e)' BY <1>10, <1>12, <1>15, <1>16 DEF At
  <2>3. Ran(0, e, c)'
    <3>1. ~Inside(0, c)' BY <1>12 DEF Inside
    <3>2. lane'[0][lastLane'[0]] = [base |-> e, win |-> c] BY <1>14, <1>17
    <3>3. Covers(cells'[0], e \o c) BY <1>5, <1>12
    <3> QED BY <1>15, <1>16, <3>1, <3>2, <3>3 DEF Ran
  <2>4. Len(e) + Len(c) + kMaxWindow <= MaxCtx BY <1>5, <1>6
  <2>5. <<pending'>> \o drafts' = c /\ pending' \in Tokens BY <1>12, <1>18
  <2>6. Ran(0, e, <<pending>> \o drafts)' BY <2>3, <2>5 DEF Ran, Inside
  <2>7. /\ open' /\ ~failed' /\ ~unsettled' /\ history'[1] = e /\ history'[0] = e \o c
        /\ laLane' = lastLane'[0] /\ text' = e \o <<pending'>> /\ stage0Done'
    BY <1>2, <1>5, <1>6, <1>12, <1>17, <1>19
  <2> QED BY <1>5, <2>1, <2>2, <2>4, <2>5, <2>6, <2>7 DEF Ready
<1>23. Still(e)' /\ Drafting(e)' /\ Round(e)' BY <1>12 DEF Still, Drafting, Round
<1>24. Stands(e)' BY <1>21, <1>22, <1>23 DEF Stands
<1> QED BY <1>6, <1>20, <1>24

(* Without the speculative tokens both histories end with the window.       *)
LEMMA KeptIs ==
  ASSUME TypeOK, NEW d \in Text, Stands(d), Joined
  PROVE  /\ Kept(0) = d \o win /\ Kept(1) = d \o win
         /\ \A s \in Stages : Ran(s, d, win)
<1>1. pc = "settle" /\ ~inflight BY DEF Joined
<1>2. /\ win \in Text /\ Len(win) \in Nat /\ Len(d) \in Nat
      /\ d \o win \in Text /\ Len(d \o win) = Len(d) + Len(win) /\ history[1] = d \o win
      /\ Ran(0, d, win)
  BY <1>1, RoundIs
<1>3. Kept(1) = d \o win BY <1>2 DEF Kept
<1>4. Kept(0) = d \o win
  <2>1. CASE specT = 0
    <3>1. Resting BY <1>1, <2>1 DEF Resting
    <3>2. history[0] = d \o win BY <1>1, <3>1 DEF Stands, Round
    <3>3. pos - specT = Len(d \o win) BY <1>2, <2>1, <3>2 DEF pos
    <3>4. Prefix(d \o win, Len(d \o win)) = d \o win BY <1>2, PrefixWhole DEF Text
    <3> QED BY <3>2, <3>3, <3>4 DEF Kept
  <2>2. CASE specT # 0
    <3>1. specT > 0 BY <2>2, Sizes DEF TypeOK
    <3> DEFINE c == shadow.rows
    <3>2. /\ history[0] = (d \o win) \o c /\ specT = Len(c) /\ c \in Text /\ Len(c) \in Nat
      BY <3>1, HitIs DEF Speculated
    <3>3. Len((d \o win) \o c) = Len(d \o win) + Len(c) BY <1>2, <3>2, TextConcat
    <3>4. pos - specT = Len(d \o win) BY <1>2, <3>2, <3>3 DEF pos
    <3>5. Prefix((d \o win) \o c, Len(d \o win)) = d \o win
      <4>1. Len(d \o win) \in 0..Len(d \o win) BY <1>2
      <4> QED BY <1>2, <3>2, <4>1, PrefixOfConcat, PrefixWhole DEF Text
    <3> QED BY <3>2, <3>4, <3>5 DEF Kept
  <2> QED BY <2>1, <2>2
<1>5. Ran(1, d, win) BY <1>1 DEF Stands, Round
<1> QED BY <1>2, <1>3, <1>4, <1>5 DEF Stages

LEMMA CommitKeeps ==
  ASSUME TypeOK, NEW d \in Text, Stands(d), Commit
  PROVE  TypeOK' /\ \E e \in Text : Stands(e)'
<1>1. pc = "settle" /\ Joined BY DEF Commit, Joined
<1>2. PICK n : n = verdict.kept + 1 OBVIOUS
<1>3. PICK b : b = verdict.bonus OBVIOUS
<1>4. PICK e : e = d \o Prefix(win, n) OBVIOUS
<1>5. /\ n \in 1..Len(win) /\ b \in Tokens
      /\ Prefix(win, n) \in Text /\ Len(Prefix(win, n)) = n
      /\ text \o Out = e \o <<b>> /\ Plain!Continues(text, Out)
  BY <1>1, <1>2, <1>3, <1>4, OutIs
<1>6. /\ win \in Text /\ Len(win) \in Nat /\ Len(win) <= kMaxWindow /\ Len(d) \in Nat
      /\ d \o win \in Text /\ Len(d \o win) = Len(d) + Len(win) /\ open /\ ~failed
      /\ Prefix(win, Len(win)) = win /\ ~unsettled
  BY <1>1, RoundIs
<1>7. e \in Text /\ Len(e) = Len(d) + n /\ Len(e) \in Nat BY <1>4, <1>5, TextConcat
<1>8. e = Prefix(d \o win, Len(d) + n)
  <2>1. n \in 0..Len(win) BY <1>5, <1>6
  <2> QED BY <1>4, <1>6, <2>1, PrefixBeyond DEF Text
<1>9. \A s \in Stages : Kept(s) = d \o win /\ Ran(s, d, win) BY <1>1, KeptIs DEF Stages
<1>10. /\ specT' = 0 /\ specLane' = None /\ shadow' = Fresh
       /\ pending' = b /\ drafts' = <<>> /\ stage0Done' = FALSE /\ pc' = "draft"
       /\ unsettled' = (stage0Done /\ Len(win) = 1)
       /\ lane' = [s \in Stages |-> NoLanes]
       /\ UNCHANGED <<lastLane, ckpts, inflight, laLane, win, verdict, text, open, failed, turns>>
  BY <1>3 DEF Commit
<1>11. /\ history' = [s \in Stages |-> e] /\ state'[1] = [text |-> e, rows |-> <<>>] /\ pendingT'[1] = 0
       /\ IF unsettled' THEN /\ state'[0].text \o state'[0].rows = e /\ Len(state'[0].rows) = 1
                             /\ pendingT'[0] = 1
                        ELSE state'[0].text = e /\ pendingT'[0] = 0
       /\ state' \in [Stages -> States] /\ pendingT' \in [Stages -> 0..kMaxWindow]
  <2>1. [text |-> e, rows |-> <<>>] \in States BY <1>7, Sizes DEF States
  <2>0. PICK l \in Nat : l = Len(win) BY <1>6
  <2>2. CASE l > 1
    <3>0. ~(Len(win) = 1) BY <2>0, <2>2
    <3>1. /\ history' = [s \in Stages |-> Prefix(Kept(s), Len(Kept(s)) - (pendingT[s] - n))]
          /\ state' = [s \in Stages |-> Replay(state[s], lane[s][lastLane[s]], n)]
          /\ pendingT' = [s \in Stages |-> 0]
      BY <1>2, <2>0, <2>2 DEF Commit
    <3>2. ASSUME NEW s \in Stages
          PROVE  /\ Prefix(Kept(s), Len(Kept(s)) - (pendingT[s] - n)) = e
                 /\ Replay(state[s], lane[s][lastLane[s]], n) = [text |-> e, rows |-> <<>>]
      <4>2. /\ state[s] = [text |-> d, rows |-> win] /\ pendingT[s] = Len(win)
            /\ lane[s][lastLane[s]] = [base |-> d, win |-> win]
        BY <1>9, <3>0 DEF Ran, Inside
      <4>3. Len(d \o win) - (Len(win) - n) = Len(d) + n BY <1>5, <1>6
      <4>4. Kept(s) = d \o win BY <1>9
      <4>5. Replay([text |-> d, rows |-> win], [base |-> d, win |-> win], n) = [text |-> e, rows |-> <<>>]
        BY <1>4, ReplayIs
      <4> QED BY <1>8, <4>2, <4>3, <4>4, <4>5
    <3>3. history' = [s \in Stages |-> e] /\ state' = [s \in Stages |-> [text |-> e, rows |-> <<>>]]
      BY <3>1, <3>2
    <3>4. pendingT' \in [Stages -> 0..kMaxWindow] BY <3>1, Sizes
    <3>5. ~unsettled' BY <1>10, <3>0
    <3> QED BY <2>1, <3>1, <3>3, <3>4, <3>5 DEF Stages
  <2>3. CASE ~(l > 1)
    <3>1. history' = [s \in Stages |-> Kept(s)] /\ UNCHANGED <<state, pendingT>>
      BY <2>0, <2>3 DEF Commit
    <3>2. l = 1 /\ n = l /\ Len(win) = 1 BY <1>5, <2>0, <2>3
    <3>3. e = d \o win BY <1>4, <1>6, <2>0, <3>2
    <3>4. history' = [s \in Stages |-> e] BY <1>9, <3>1, <3>3
    <3>5. Ran(0, d, win) /\ Ran(1, d, win) BY <1>9 DEF Stages
    <3>6. state[1] = [text |-> e, rows |-> <<>>] /\ pendingT[1] = 0
      <4>1. Inside(1, win) BY <3>2 DEF Inside
      <4> QED BY <3>3, <3>5, <4>1 DEF Ran
    <3>7. state' \in [Stages -> States] /\ pendingT' \in [Stages -> 0..kMaxWindow] BY <3>1 DEF TypeOK
    <3>8. CASE stage0Done
      <4>1. unsettled' BY <1>10, <2>0, <3>2, <3>8
      <4>2. state[0] = [text |-> d, rows |-> win] /\ pendingT[0] = 1
        <5>1. ~Inside(0, win) BY <3>8 DEF Inside
        <5> QED BY <3>2, <3>5, <5>1 DEF Ran
      <4>3. state[0].text = d /\ state[0].rows = win BY <4>2
      <4>4. state[0].text \o state[0].rows = e /\ Len(state[0].rows) = 1 BY <3>2, <3>3, <4>3
      <4> QED BY <3>1, <3>4, <3>6, <3>7, <4>1, <4>2, <4>4
    <3>9. CASE ~stage0Done
      <4>1. ~unsettled' BY <1>10, <3>9
      <4>2. state[0] = [text |-> e, rows |-> <<>>] /\ pendingT[0] = 0
        <5>1. Inside(0, win) BY <3>2, <3>9 DEF Inside
        <5> QED BY <3>3, <3>5, <5>1 DEF Ran
      <4> QED BY <3>1, <3>4, <3>6, <3>7, <4>1, <4>2
    <3> QED BY <3>8, <3>9
  <2> QED BY <2>2, <2>3
<1>12. cells' \in [Stages -> Seq(Text \cup {None})] /\ \A s \in Stages : Covers(cells'[s], e)
  <2>1. cells' = [s \in Stages |-> Prefix(cells[s], Len(history'[s]))] BY DEF Commit
  <2>2. cells' = [s \in Stages |-> Prefix(cells[s], Len(e))] BY <1>11, <2>1
  <2>3. ASSUME NEW s \in Stages
        PROVE  Prefix(cells[s], Len(e)) \in Seq(Text \cup {None}) /\ Covers(Prefix(cells[s], Len(e)), e)
    <3>1. cells[s] \in Seq(Text \cup {None}) /\ Len(cells[s]) \in Nat BY LenProperties DEF TypeOK
    <3>2. Covers(cells[s], d \o win) BY <1>9 DEF Ran
    <3>3. Len(d) + n \in 0..Len(d \o win) BY <1>5, <1>6
    <3>4. Covers(cells[s], e) BY <1>6, <1>8, <3>1, <3>2, <3>3, CoversPrefix
    <3> QED BY <1>7, <3>1, <3>4, CoversCut
  <2> QED BY <2>2, <2>3
<1>13. TypeOK'
  <2>1. history' \in [Stages -> Text] BY <1>7, <1>11
  <2>2. NoLanes \in [Lanes -> Rows] /\ Fresh \in States BY Sizes DEF NoLanes, NoRows, Rows, Fresh, States
  <2>3. lane' \in [Stages -> [Lanes -> Rows]] BY <1>10, <2>2
  <2>4. /\ specT' \in 0..kMaxWindow /\ specLane' \in Lanes \cup {None} /\ drafts' \in Windows(kMaxWindow - 1)
        /\ pending' \in Tokens \cup {None}
    BY <1>5, <1>10, Sizes
  <2>5. state' \in [Stages -> States] /\ pendingT' \in [Stages -> 0..kMaxWindow] BY <1>11
  <2>6. unsettled' \in BOOLEAN BY <1>10 DEF TypeOK
  <2> QED BY <1>10, <1>12, <2>1, <2>2, <2>3, <2>4, <2>5, <2>6 DEF TypeOK
<1>14. Snapshots(e)'
  <2>1. PICK q : q = Prefix(win, n) OBVIOUS
  <2>2. q \in Text /\ e = d \o q BY <1>4, <1>5, <2>1
  <2>3. Snapshots(d) /\ UNCHANGED ckpts BY <1>10 DEF Stands
  <2>4. Snapshots(d \o q)' BY <2>2, <2>3, SnapshotsGrow
  <2> QED BY <2>2, <2>4
<1>15. Still(e)'
  <2>1. Resting' BY <1>1, <1>10 DEF Resting, Joined
  <2>2. \A s \in Stages : history'[s] = e BY <1>11
  <2>3. Covers(cells'[0], e) /\ Covers(cells'[1], e) BY <1>12 DEF Stages
  <2>4. At(1, e)' BY <1>11, <2>3 DEF At
  <2>5. First(e)'
    <3>1. CASE unsettled' BY <1>10, <1>11, <2>3, <3>1 DEF First, Behind
    <3>2. CASE ~unsettled' BY <1>11, <2>3, <3>2 DEF First, At
    <3> QED BY <3>1, <3>2
  <2> QED BY <1>10, <2>1, <2>2, <2>4, <2>5 DEF Still
<1>16. Drafting(e)'
  <2>1. Out' = Out BY <1>10 DEF Out
  <2>2. Plain!Continues(text, Out)' BY <1>5, <1>10, <2>1 DEF Plain!Continues
  <2>3. verdict.kept \in 0..Len(win) - 1
    <3>1. verdict \in Verdicts(d) BY <1>1 DEF Stands, Round
    <3> QED BY <3>1 DEF Verdicts
  <2>4. verdict.kept \in Nat /\ verdict.kept < Len(win) BY <1>6, <2>3
  <2>5. Len(e) > 0 BY <1>5, <1>6, <1>7
  <2>6. text' \o Out' = e \o <<pending'>> BY <1>5, <1>10, <2>1
  <2> QED BY <1>3, <1>5, <1>6, <1>10, <2>2, <2>4, <2>5, <2>6 DEF Drafting
<1>17. Ready(e)' /\ Round(e)' BY <1>10 DEF Ready, Round
<1>18. Stands(e)' BY <1>14, <1>15, <1>16, <1>17 DEF Stands
<1> QED BY <1>7, <1>13, <1>18

(* What a round or a request sends is the committed text and the pending     *)
(* token.                                                                  *)
LEMMA Sent ==
  ASSUME TypeOK, NEW d \in Text, Stands(d), pc = "draft"
  PROVE  /\ (IF open THEN text ELSE history[0]) \o Out = d \o <<pending>>
         /\ pending \in Tokens /\ Len(d) > 0 /\ Out \in Text /\ Len(Out) > 0
<1>1. /\ pending = verdict.bonus /\ pending \in Tokens /\ Len(d) > 0 /\ verdict.kept \in Nat
      /\ history[0] = d
  BY DEF Stands, Drafting, Still, Stages
<1>2. win \in Text /\ Len(win) \in Nat BY Sizes, WindowText, TextConcat DEF TypeOK
<1> DEFINE v == SubSeq(win, 2, verdict.kept + 1)
<1>3. verdict.kept + 1 \in Int /\ 2 \in Int BY <1>1
<1>4. v \in Text
  <2>1. CASE open
    <3>1. verdict.kept < Len(win) BY <2>1 DEF Stands, Drafting
    <3>2. \A i \in 2..verdict.kept + 1 : i \in 1..Len(win) BY <1>1, <1>2, <3>1
    <3>3. \A i \in 2..verdict.kept + 1 : win[i] \in Tokens BY <1>2, <3>2, ElementOfSeq DEF Text
    <3> QED BY <1>3, <3>3, SubSeqProperties DEF Text
  <2>2. CASE ~open
    <3>1. verdict.kept = 0 BY <2>2 DEF Stands, Drafting
    <3>2. v = <<>> BY <1>3, <3>1, SubSeqEmpty
    <3> QED BY <3>2, Sizes
  <2> QED BY <2>1, <2>2
<1>5. Out = Append(v, pending) BY <1>1 DEF Out
<1>6. Out \in Text /\ Len(Out) = Len(v) + 1 /\ Len(v) \in Nat
  <2> HIDE DEF v
  <2> QED BY <1>1, <1>4, <1>5, AppendProperties, LenProperties DEF Text
<1>7. Len(Out) > 0
  <2> HIDE DEF v
  <2> QED BY <1>6
<1>8. ~open => Out = <<pending>>
  <2> SUFFICES ASSUME ~open PROVE Out = <<pending>> OBVIOUS
  <2>1. verdict.kept = 0 BY DEF Stands, Drafting
  <2>2. v = <<>> BY <1>3, <2>1, SubSeqEmpty
  <2>3. Append(<<>>, pending) = <<pending>> OBVIOUS
  <2> HIDE DEF v
  <2> QED BY <1>5, <2>2, <2>3
<1>9. open => text \o Out = d \o <<pending>> BY DEF Stands, Drafting
<1> QED BY <1>1, <1>6, <1>7, <1>8, <1>9

LEMMA DraftKeeps ==
  ASSUME TypeOK, NEW d \in Text, Stands(d), Draft
  PROVE  TypeOK' /\ Stands(d)'
<1>1. /\ pc = "draft" /\ drafts' \in Drafts
      /\ text' = (IF open THEN text ELSE history[0]) \o Out
      /\ open' = TRUE /\ failed' = FALSE /\ pc' = "ready" /\ win' = <<>> /\ verdict' = None
      /\ UNCHANGED <<history, state, cells, pendingT, lane, lastLane, ckpts, shadow, specT, specLane,
                     inflight, pending, stage0Done, laLane, turns, unsettled>>
  BY DEF Draft, engine, speculation
<1>2. text' = d \o <<pending>> /\ pending \in Tokens BY <1>1, Sent
<1>3. TypeOK'
  <2>1. <<pending>> \in Text BY <1>2 DEF Text
  <2>2. text' \in Text BY <1>2, <2>1, TextConcat
  <2> QED BY <1>1, <2>2, Sizes DEF TypeOK, Drafts
<1>4. Snapshots(d)' BY <1>1, SnapshotsGrow, Sizes DEF Stands
<1>5. Ready(d)'
  <2>1. /\ history[0] = d /\ history[1] = d /\ First(d) /\ At(1, d) /\ Resting /\ ~stage0Done
    BY <1>1 DEF Stands, Still, Stages
  <2>2. First(d)' /\ At(1, d)' /\ Resting' BY <1>1, <2>1 DEF First, Behind, At, Resting
  <2> QED BY <1>1, <1>2, <2>1, <2>2 DEF Ready
<1>6. Still(d)' /\ Drafting(d)' /\ Round(d)' BY <1>1 DEF Still, Drafting, Round
<1> QED BY <1>3, <1>4, <1>5, <1>6 DEF Stands

(* A conversation that was reset is an empty one.                           *)
LEMMA ResetKeeps ==
  ASSUME TypeOK, Reset, Resting, ~stage0Done, turns' \in 0..MaxTurns
  PROVE  TypeOK' /\ Stands(<<>>)'
<1>1. /\ history' = [s \in Stages |-> <<>>] /\ state' = [s \in Stages |-> Fresh]
      /\ cells' = [s \in Stages |-> <<>>] /\ pendingT' = [s \in Stages |-> 0]
      /\ ckpts' = [s \in Stages |-> {}] /\ specT' = 0 /\ specLane' = None
      /\ open' = FALSE /\ failed' = TRUE /\ unsettled' = FALSE /\ pc' = "idle" /\ win' = <<>> /\ verdict' = None
      /\ UNCHANGED <<lane, lastLane, shadow, inflight, pending, drafts, stage0Done, laLane, text>>
  BY DEF Reset, generator
<1>3. <<>> \in Seq(Text \cup {None}) /\ Len(<<>>) = 0 BY EmptySeq
<1>4. Fresh \in States /\ Fresh.text = <<>> BY Sizes DEF Fresh, States
<1>5. TypeOK'
  <2>1. /\ history' \in [Stages -> Text] /\ state' \in [Stages -> States]
        /\ cells' \in [Stages -> Seq(Text \cup {None})]
    BY <1>1, <1>3, <1>4, Sizes
  <2>2. /\ pendingT' \in [Stages -> 0..kMaxWindow] /\ specT' \in 0..kMaxWindow
        /\ win' \in Windows(kMaxWindow) /\ specLane' \in Lanes \cup {None}
    BY <1>1, Sizes
  <2>3. ckpts' \in [Stages -> SUBSET [pos : 1..MaxCtx, saved : States]] BY <1>1
  <2> QED BY <1>1, <2>1, <2>2, <2>3 DEF TypeOK
<1>6. Snapshots(<<>>)' BY <1>1 DEF Snapshots, Stages
<1>7. Still(<<>>)'
  <2>1. Resting' BY <1>1 DEF Resting
  <2>2. Covers(<<>>, <<>>) BY <1>3 DEF Covers
  <2>3. \A s \in Stages : history'[s] = <<>> /\ At(s, <<>>)' BY <1>1, <1>4, <2>2 DEF At
  <2>4. First(<<>>)' /\ At(1, <<>>)' BY <1>1, <2>3 DEF First, Stages
  <2> QED BY <1>1, <2>1, <2>3, <2>4 DEF Still
<1>8. Drafting(<<>>)' /\ Ready(<<>>)' /\ Round(<<>>)' BY <1>1 DEF Drafting, Ready, Round
<1> QED BY <1>5, <1>6, <1>7, <1>8 DEF Stands

LEMMA DraftFailsKeeps ==
  ASSUME TypeOK, NEW d \in Text, Stands(d), DraftFails
  PROVE  TypeOK' /\ Stands(<<>>)'
<1>1. Reset /\ pc = "draft" /\ turns' = turns BY DEF DraftFails
<1>2. Resting /\ ~stage0Done BY <1>1 DEF Stands, Still
<1>3. turns' \in 0..MaxTurns BY <1>1 DEF TypeOK
<1> QED BY <1>1, <1>2, <1>3, ResetKeeps

LEMMA StartFailsKeeps ==
  ASSUME TypeOK, NEW d \in Text, Stands(d), NEW p \in Prompts, StartFails(p)
  PROVE  TypeOK' /\ Stands(<<>>)'
<1>1. Reset /\ pc = "idle" /\ turns' = turns + 1 /\ turns < MaxTurns BY DEF StartFails
<1>2. Resting /\ ~stage0Done BY <1>1 DEF Stands, Still
<1>3. turns' \in 0..MaxTurns BY <1>1, LookaheadAssumption DEF LookaheadAssumption, TypeOK
<1> QED BY <1>1, <1>2, <1>3, ResetKeeps

(* A round is refused only over a window left to commit, and then none is     *)
(* half done.                                                              *)
LEMMA RoundFailsKeeps ==
  ASSUME TypeOK, NEW d \in Text, Stands(d), RoundFails
  PROVE  TypeOK' /\ Stands(<<>>)'
<1>1. Reset /\ pc = "ready" /\ Room /\ ~PrepareChecks(Window, Half) /\ turns' = turns BY DEF RoundFails
<1>2. unsettled BY <1>1, RoundAllowed
<1>3. Resting /\ ~stage0Done BY <1>1, <1>2 DEF Stands, Ready
<1>4. turns' \in 0..MaxTurns BY <1>1 DEF TypeOK
<1> QED BY <1>1, <1>3, <1>4, ResetKeeps

LEMMA FinishKeeps ==
  ASSUME TypeOK, NEW d \in Text, Stands(d), Finish
  PROVE  TypeOK' /\ Stands(d)'
<1>1. /\ pc = "ready"
      /\ history' = [history EXCEPT ![0] = Aborted(history[0])]
      /\ pendingT' = [pendingT EXCEPT ![0] = IF stage0Done THEN 0 ELSE pendingT[0]]
      /\ cells' = [cells EXCEPT ![0] = Aborted(cells[0])]
      /\ lane' = [s \in Stages |-> NoLanes]
      /\ pending' = None /\ drafts' = <<>> /\ stage0Done' = FALSE /\ open' = FALSE /\ pc' = "idle"
      /\ UNCHANGED <<state, lastLane, ckpts, shadow, specT, specLane, inflight, laLane, win, verdict,
                     text, failed, turns, unsettled>>
  BY DEF Finish, speculation
<1>2. Resting /\ history[1] = d /\ At(1, d) BY <1>1 DEF Stands, Ready
<1>3. cells[0] \in Seq(Text \cup {None}) /\ Len(d) \in Nat BY TextConcat DEF TypeOK, Stages
<1>4. /\ Aborted(history[0]) = d /\ Aborted(cells[0]) \in Seq(Text \cup {None})
      /\ Covers(Aborted(cells[0]), d) 
      /\ IF unsettled THEN Behind(d) /\ ~stage0Done
                      ELSE state[0].text = d /\ (IF stage0Done THEN 0 ELSE pendingT[0]) = 0
  <2>1. CASE stage0Done
    <3> DEFINE w == <<pending>> \o drafts
    <3>1. history[0] = d \o w /\ Ran(0, d, w) /\ ~unsettled /\ pending \in Tokens
      BY <1>1, <2>1 DEF Stands, Ready
    <3>2. w \in Text /\ Len(w) \in Nat
      <4>1. drafts \in Text BY Sizes, WindowText DEF TypeOK
      <4>2. <<pending>> \in Text BY <3>1 DEF Text
      <4> QED BY <4>1, <4>2, TextConcat
    <3> HIDE DEF w
    <3>4. ~Inside(0, w) BY <2>1 DEF Inside
    <3>5. state[0] = [text |-> d, rows |-> w] /\ pendingT[0] = Len(w) /\ Covers(cells[0], d \o w)
      BY <3>1, <3>4 DEF Ran
    <3>6. pos - pendingT[0] = Len(d)
      <4>1. Len(d \o w) = Len(d) + Len(w) BY <3>2, TextConcat
      <4> QED BY <1>3, <3>1, <3>2, <3>5, <4>1 DEF pos
    <3>7. Prefix(d \o w, Len(d)) = d
      <4>1. Len(d) \in 0..Len(d) BY <1>3
      <4> QED BY <3>2, <4>1, PrefixOfConcat, PrefixWhole DEF Text
    <3>8. Covers(cells[0], d)
      <4>1. Len(cells[0]) \in Nat BY <1>3, LenProperties
      <4> QED BY <3>2, <3>5, <4>1, CoversFirst
    <3>9. Prefix(cells[0], Len(d)) \in Seq(Text \cup {None}) /\ Covers(Prefix(cells[0], Len(d)), d)
      BY <1>3, <3>8, CoversCut
    <3> QED BY <2>1, <3>1, <3>5, <3>6, <3>7, <3>9 DEF Aborted
  <2>2. CASE ~stage0Done
    <3>1. history[0] = d /\ First(d) BY <1>1, <2>2 DEF Stands, Ready
    <3>2. Aborted(history[0]) = d /\ Aborted(cells[0]) = cells[0] BY <2>2, <3>1 DEF Aborted
    <3>3. Covers(cells[0], d) BY <3>1 DEF First, Behind, At
    <3>4. IF unsettled THEN Behind(d) ELSE state[0].text = d /\ pendingT[0] = 0
      BY <3>1 DEF First, At
    <3> QED BY <1>3, <2>2, <3>2, <3>3, <3>4
  <2> QED BY <2>1, <2>2
<1>5. /\ history' \in [Stages -> Text] /\ \A s \in Stages : history'[s] = d
  BY <1>1, <1>2, <1>4 DEF TypeOK, Stages
<1>6. /\ cells' \in [Stages -> Seq(Text \cup {None})] /\ Covers(cells'[0], d) /\ cells'[1] = cells[1]
  BY <1>1, <1>4 DEF TypeOK, Stages
<1>7. /\ pendingT' \in [Stages -> 0..kMaxWindow] /\ pendingT'[1] = pendingT[1]
      /\ pendingT'[0] = IF stage0Done THEN 0 ELSE pendingT[0]
  BY <1>1, Sizes DEF TypeOK, Stages
<1>8. First(d)' /\ At(1, d)'
  <2>1. At(1, d)' BY <1>1, <1>2, <1>6, <1>7 DEF At
  <2>2. CASE unsettled
    <3>1. Behind(d) /\ pendingT'[0] = pendingT[0] /\ state' = state /\ unsettled' = unsettled
      BY <1>1, <1>4, <1>7, <2>2
    <3>2. Behind(d)' BY <1>6, <3>1 DEF Behind
    <3> QED BY <1>1, <2>1, <2>2, <3>1, <3>2 DEF First
  <2>3. CASE ~unsettled
    <3>1. state'[0].text = d /\ pendingT'[0] = 0 /\ ~unsettled' BY <1>1, <1>4, <1>7, <2>3
    <3> QED BY <1>6, <2>1, <3>1 DEF First, At
  <2> QED BY <2>2, <2>3
<1>9. TypeOK'
  <2>1. NoLanes \in [Lanes -> Rows] BY Sizes DEF NoLanes, NoRows, Rows
  <2>2. lane' \in [Stages -> [Lanes -> Rows]] BY <1>1, <2>1
  <2> QED BY <1>1, <1>5, <1>6, <1>7, <2>2, Sizes DEF TypeOK
<1>10. Snapshots(d)' BY <1>1, SnapshotsGrow, Sizes DEF Stands
<1>11. Still(d)'
  <2>1. Resting' BY <1>1, <1>2 DEF Resting
  <2> QED BY <1>1, <1>5, <1>8, <2>1 DEF Still
<1>12. Drafting(d)' /\ Ready(d)' /\ Round(d)' BY <1>1 DEF Drafting, Ready, Round
<1> QED BY <1>9, <1>10, <1>11, <1>12 DEF Stands

(***************************************************************************)
(* The invariant holds.                                                    *)
(***************************************************************************)
LEMMA InitStands == Init => LInv
<1> SUFFICES ASSUME Init PROVE LInv OBVIOUS
<1>1. /\ history = [s \in Stages |-> <<>>] /\ state = [s \in Stages |-> Fresh]
      /\ cells = [s \in Stages |-> <<>>] /\ pendingT = [s \in Stages |-> 0]
      /\ lane = [s \in Stages |-> NoLanes] /\ lastLane = [s \in Stages |-> 0]
      /\ ckpts = [s \in Stages |-> {}]
      /\ shadow = Fresh /\ specT = 0 /\ specLane = None /\ inflight = FALSE
      /\ pending = None /\ drafts = <<>> /\ stage0Done = FALSE /\ laLane = 0
      /\ pc = "idle" /\ win = <<>> /\ text = <<>> /\ open = FALSE /\ failed = FALSE /\ turns = 0
      /\ unsettled = FALSE
  BY DEF Init
<1>2. <<>> \in Seq(Text \cup {None}) /\ Len(<<>>) = 0 BY EmptySeq
<1>3. Fresh \in States /\ Fresh.text = <<>> /\ NoLanes \in [Lanes -> Rows]
  BY Sizes DEF Fresh, States, NoLanes, NoRows, Rows
<1>4. TypeOK
  <2>1. /\ history \in [Stages -> Text] /\ state \in [Stages -> States]
        /\ cells \in [Stages -> Seq(Text \cup {None})] /\ lane \in [Stages -> [Lanes -> Rows]]
    BY <1>1, <1>2, <1>3, Sizes
  <2>2. /\ pendingT \in [Stages -> 0..kMaxWindow] /\ lastLane \in [Stages -> Lanes]
        /\ specT \in 0..kMaxWindow /\ laLane \in Lanes /\ turns \in 0..MaxTurns
    BY <1>1, Sizes, LookaheadAssumption DEF Lanes, LookaheadAssumption
  <2>3. ckpts \in [Stages -> SUBSET [pos : 1..MaxCtx, saved : States]] BY <1>1
  <2> QED BY <1>1, <1>3, <2>1, <2>2, <2>3, Sizes DEF TypeOK
<1>5. Stands(<<>>)
  <2>1. Snapshots(<<>>) BY <1>1 DEF Snapshots, Stages
  <2>2. Covers(<<>>, <<>>) BY <1>2 DEF Covers
  <2>3. \A s \in Stages : history[s] = <<>> /\ At(s, <<>>) BY <1>1, <1>3, <2>2 DEF At
  <2>4. Still(<<>>) BY <1>1, <2>3 DEF Still, Resting, First, Stages
  <2> QED BY <1>1, <2>1, <2>4 DEF Stands, Drafting, Ready, Round
<1> QED BY <1>4, <1>5, Sizes DEF LInv

LEMMA NextStands == LInv /\ [Next]_vars => LInv'
<1> SUFFICES ASSUME LInv, [Next]_vars PROVE LInv' OBVIOUS
<1>1. TypeOK /\ \E d \in Text : Stands(d) BY DEF LInv
<1>2. PICK d \in Text : Stands(d) BY <1>1
<1>3. ASSUME NEW p \in Prompts, Start(p) \/ StartFails(p) PROVE LInv'
  <2>1. CASE Start(p) BY <1>1, <1>2, <2>1, StartKeeps DEF LInv
  <2>2. CASE StartFails(p) BY <1>1, <1>2, <2>2, StartFailsKeeps, Sizes DEF LInv
  <2> QED BY <1>3, <2>1, <2>2
<1>4. CASE PlainRound BY <1>1, <1>2, <1>4, PlainRoundKeeps DEF LInv
<1>5. CASE LookaheadRound BY <1>1, <1>2, <1>5, LookaheadRoundKeeps DEF LInv
<1>6. ASSUME NEW c \in Windows(kMaxWindow) \ {<<>>}, Speculate(c) PROVE LInv'
  BY <1>1, <1>2, <1>6, SpeculateKeeps DEF LInv
<1>7. CASE NoSpec BY <1>1, <1>2, <1>7, NoSpecKeeps DEF LInv
<1>8. CASE SpecEnds BY <1>1, <1>2, <1>8, SpecEndsKeeps DEF LInv
<1>9. CASE Verify BY <1>1, <1>2, <1>9, VerifyKeeps DEF LInv
<1>10. CASE Confirm BY <1>1, <1>2, <1>10, ConfirmKeeps DEF LInv
<1>11. CASE Commit BY <1>1, <1>2, <1>11, CommitKeeps DEF LInv
<1>12. CASE Draft BY <1>1, <1>2, <1>12, DraftKeeps DEF LInv
<1>13. CASE DraftFails BY <1>1, <1>2, <1>13, DraftFailsKeeps, Sizes DEF LInv
<1>14. CASE Finish BY <1>1, <1>2, <1>14, FinishKeeps DEF LInv
<1>16. CASE RoundFails BY <1>1, <1>2, <1>16, RoundFailsKeeps, Sizes DEF LInv
<1>15. CASE UNCHANGED vars
  <2>1. UNCHANGED <<history, state, cells, pendingT, lane, lastLane, ckpts, shadow, specT, specLane,
                    inflight, pending, drafts, stage0Done, laLane, pc, win, verdict,
                    text, open, failed, turns, unsettled>>
    BY <1>15 DEF vars, engine, speculation, generator, round, client
  <2>2. TypeOK' BY <1>1, <2>1 DEF TypeOK
  <2>3. Snapshots(d)' BY <1>1, <1>2, <2>1, SnapshotsGrow, Sizes DEF Stands
  <2>4. Still(d)' BY <1>2, <2>1 DEF Stands, Still, First, Behind, At, Resting
  <2>5. Drafting(d)'
    <3>1. Out' = Out BY <2>1 DEF Out
    <3>2. Plain!Continues(text, Out) => Plain!Continues(text, Out)' BY <2>1, <3>1 DEF Plain!Continues
    <3> QED BY <1>2, <2>1, <3>1, <3>2 DEF Stands, Drafting
  <2>6. Ready(d)' BY <1>2, <2>1 DEF Stands, Ready, Resting, First, Behind, At, Ran, Inside
  <2>7. Round(d)' BY <1>2, <2>1 DEF Stands, Round, Resting, At, Ran, Inside, Verdicts, Speculated
  <2> QED BY <2>2, <2>3, <2>4, <2>5, <2>6, <2>7 DEF LInv, Stands
<1> QED
  BY <1>3, <1>4, <1>5, <1>6, <1>7, <1>8, <1>9, <1>10, <1>11, <1>12, <1>13, <1>14, <1>15, <1>16 DEF Next

(* In every state there is one text both stages have committed, and every   *)
(* stage, shadow, snapshot and emitted token is where the phase of the round *)
(* puts it after that text.                                                *)
THEOREM LookaheadInvariant == Spec => []LInv
<1> QED BY InitStands, NextStands, PTL DEF Spec

LEMMA InvariantChecks == LInv => EngineChecksHold
<1> SUFFICES ASSUME LInv PROVE EngineChecksHold OBVIOUS
<1>1. TypeOK /\ \E d \in Text : Stands(d) BY DEF LInv
<1>2. PICK d \in Text : Stands(d) BY <1>1
<1>3. ~unsettled /\ pc = "idle" => \A p \in Prompts : StartChecks(p) BY <1>1, <1>2, StartAllowed
<1>4. ~unsettled /\ pc = "ready" /\ Room => PrepareChecks(Window, Half) BY <1>1, <1>2, RoundAllowed
<1>5. pc = "chain" /\ Len(win) > 1 => \A n \in 1..kMaxWindow : MayChain(n) => SpecChecks(n)
  <2> SUFFICES ASSUME pc = "chain", Len(win) > 1, NEW n \in 1..kMaxWindow, MayChain(n) PROVE SpecChecks(n)
      OBVIOUS
  <2>1. n \in Nat BY Sizes
  <2> QED BY <1>1, <1>2, <2>1, ChainAllowed
<1>6. Joined /\ Hit => ConfirmChecks BY <1>1, <1>2, SettleAllowed
<1>7. Joined /\ ~Hit /\ Len(win) > 1 => CommitChecks(verdict.kept + 1) BY <1>1, <1>2, SettleAllowed
<1> QED BY <1>3, <1>4, <1>5, <1>6, <1>7 DEF EngineChecksHold

LEMMA InvariantAgrees == LInv => StagesAgree
<1> SUFFICES ASSUME LInv, pc \in {"idle", "ready"}, ~failed, turns > 0
    PROVE LET done == Prefix(text, Len(text) - 1)
              ahead == IF stage0Done THEN <<pending>> \o drafts ELSE <<>>
              behind == [text |-> state[0].text \o state[0].rows, rows |-> <<>>]
          IN /\ pc = "ready" => /\ history[1] = done /\ history[0] = done \o ahead
             /\ pc = "idle" => history[0] = history[1]
             /\ \A s \in Stages :
                  Sound(IF unsettled /\ s = 0 THEN behind ELSE state[s], cells[s], history[1])
             /\ unsettled => ~stage0Done /\ Len(state[0].rows) = 1 /\ pendingT[0] = 1
    BY DEF StagesAgree
<1>1. TypeOK /\ \E d \in Text : Stands(d) BY DEF LInv
<1>2. PICK d \in Text : Stands(d) BY <1>1
<1> DEFINE behind == [text |-> state[0].text \o state[0].rows, rows |-> <<>>]
           seen(s) == IF unsettled /\ s = 0 THEN behind ELSE state[s]
<1>5. ASSUME First(d), At(1, d)
      PROVE  /\ \A s \in Stages : Sound(seen(s), cells[s], d)
             /\ unsettled => ~stage0Done /\ Len(state[0].rows) = 1 /\ pendingT[0] = 1
  <2>1. Sound(seen(1), cells[1], d) BY <1>5 DEF At, Covers, Sound
  <2>2. CASE unsettled
    <3>1. Behind(d) /\ ~stage0Done BY <1>5, <2>2 DEF First
    <3>2. behind.text = d BY <3>1 DEF Behind
    <3> HIDE DEF behind
    <3>3. Sound(behind, cells[0], d) BY <3>1, <3>2 DEF Behind, Covers, Sound
    <3>4. seen(0) = behind BY <2>2
    <3>5. Sound(seen(0), cells[0], d) BY <3>3, <3>4
    <3>6. Len(state[0].rows) = 1 /\ pendingT[0] = 1 BY <3>1 DEF Behind
    <3> HIDE DEF seen
    <3> QED BY <2>1, <3>1, <3>5, <3>6 DEF Stages
  <2>3. CASE ~unsettled
    <3>1. At(0, d) BY <1>5, <2>3 DEF First
    <3>2. seen(0) = state[0] BY <2>3
    <3>3. Sound(state[0], cells[0], d) BY <3>1 DEF At, Covers, Sound
    <3>4. Sound(seen(0), cells[0], d) BY <3>2, <3>3
    <3> HIDE DEF seen
    <3> QED BY <2>1, <2>3, <3>4 DEF Stages
  <2> QED BY <2>2, <2>3
<1>3. CASE pc = "idle"
  <2>1. \A s \in Stages : history[s] = d BY <1>2, <1>3 DEF Stands, Still
  <2>2. First(d) /\ At(1, d) BY <1>2, <1>3 DEF Stands, Still
  <2>3. /\ \A s \in Stages : Sound(seen(s), cells[s], d)
        /\ unsettled => ~stage0Done /\ Len(state[0].rows) = 1 /\ pendingT[0] = 1 BY <1>5, <2>2
  <2>4. history[0] = d /\ history[1] = d BY <2>1 DEF Stages
  <2>5. ~(pc = "ready") BY <1>3
  <2> QED BY <2>3, <2>4, <2>5, Zenon
<1>4. CASE pc = "ready"
  <2>1. /\ text = d \o <<pending>> /\ pending \in Tokens /\ history[1] = d /\ At(1, d)
    BY <1>2, <1>4 DEF Stands, Ready
  <2>2. Prefix(text, Len(text) - 1) = d
    <3> DEFINE last == <<pending>>
    <3>1. last \in Text /\ Len(last) = 1 BY <2>1 DEF Text
    <3> HIDE DEF last
    <3>2. Len(d \o last) = Len(d) + 1 /\ Len(d) \in Nat BY <3>1, TextConcat
    <3>3. Len(d \o last) - 1 = Len(d) /\ Len(d) \in 0..Len(d) BY <3>2
    <3>4. Prefix(d \o last, Len(d)) = d BY <3>1, <3>3, PrefixOfConcat, PrefixWhole DEF Text
    <3> QED BY <2>1, <3>3, <3>4 DEF last
  <2>3. Sound(state[1], cells[1], d) BY <2>1 DEF At, Covers, Sound
  <2>6. ~(pc = "idle") BY <1>4
  <2>4. CASE ~stage0Done
    <3>1. history[0] = d /\ First(d) BY <1>2, <1>4, <2>4 DEF Stands, Ready
    <3>2. d \o <<>> = d BY ConcatEmptySeq DEF Text
    <3>3. /\ \A s \in Stages : Sound(seen(s), cells[s], d)
          /\ unsettled => ~stage0Done /\ Len(state[0].rows) = 1 /\ pendingT[0] = 1
      BY <1>5, <2>1, <3>1
    <3>4. history[0] = d \o (IF stage0Done THEN <<pending>> \o drafts ELSE <<>>)
      BY <2>4, <3>1, <3>2
    <3> QED BY <2>1, <2>2, <2>6, <3>3, <3>4, Zenon
  <2>5. CASE stage0Done
    <3> DEFINE w == <<pending>> \o drafts
    <3>1. history[0] = d \o w /\ Ran(0, d, w) /\ ~unsettled BY <1>2, <1>4, <2>5 DEF Stands, Ready
    <3>2. w \in Text /\ Len(w) \in Nat
      <4>1. drafts \in Text BY <1>1, Sizes, WindowText DEF TypeOK
      <4>2. <<pending>> \in Text BY <2>1 DEF Text
      <4> QED BY <4>1, <4>2, TextConcat
    <3> HIDE DEF w
    <3>7. ~Inside(0, w) BY <2>5 DEF Inside
    <3>4. state[0] = [text |-> d, rows |-> w] /\ Covers(cells[0], d \o w) BY <3>1, <3>7 DEF Ran
    <3>5. Covers(cells[0], d)
      <4>1. Len(cells[0]) \in Nat BY <1>1, LenProperties DEF TypeOK, Stages
      <4> QED BY <3>2, <3>4, <4>1, CoversFirst
    <3>6. Sound(state[0], cells[0], d) BY <3>4, <3>5 DEF Covers, Sound
    <3>8. \A s \in Stages : Sound(seen(s), cells[s], d) BY <2>3, <3>1, <3>6 DEF Stages
    <3>9. history[0] = d \o (IF stage0Done THEN <<pending>> \o drafts ELSE <<>>)
      BY <2>5, <3>1 DEF w
    <3> QED BY <2>1, <2>2, <2>6, <3>1, <3>8, <3>9, Zenon
  <2> QED BY <2>4, <2>5
<1> QED BY <1>3, <1>4

(* StagesInStep for every vocabulary, sampler, window, context and number    *)
(* of requests: no check of the engine is ever met but after a window of one *)
(* token that was half done before its round, and between rounds both stages *)
(* stand at what was emitted (src/engine/engine.cpp, fwd_prepare,            *)
(* spec_confirm; src/engine/generate.cpp, next_lookahead).                  *)
THEOREM StagesInStepHolds == Spec => []StagesInStep
<1>1. LInv => StagesInStep BY InvariantChecks, InvariantAgrees DEF StagesInStep, LInv
<1> QED BY <1>1, LookaheadInvariant, PTL

(***************************************************************************)
(* What is emitted.                                                        *)
(***************************************************************************)
(* Tokens appended to a text that the model gives after it.                *)
LEMMA Emits ==
  ASSUME NEW t \in Text, NEW out \in Text
  PROVE  /\ Len(t \o out) = Len(t) + Len(out) /\ Len(t) \in Nat /\ Len(out) \in Nat
         /\ SubSeq(t \o out, 1, Len(t)) = t /\ SubSeq(t \o out, Len(t) + 1, Len(t \o out)) = out
<1>1. Len(t \o out) = Len(t) + Len(out) /\ Len(t) \in Nat /\ Len(out) \in Nat BY TextConcat
<1>2. Len(t) \in 0..Len(t) BY <1>1
<1>3. Prefix(t \o out, Len(t)) = t BY <1>2, PrefixOfConcat, PrefixWhole DEF Text
<1>4. SubSeq(t \o out, Len(t) + 1, Len(t \o out)) = out BY RestOfConcat DEF Text
<1> QED BY <1>1, <1>3, <1>4, Zenon DEF Prefix

(* A step of the detailed specification that sends tokens of a request.     *)
LEMMA DecodeStep ==
  ASSUME TypeOK, NEW out \in Text, out = Out, Len(out) > 0, text' = text \o out,
         open, UNCHANGED open, Plain!Continues(text, out)
  PROVE  Plain!Decode
<1>1. text \in Text BY DEF TypeOK
<1>2. /\ Len(text') = Len(text) + Len(out) /\ Len(text) \in Nat /\ Len(out) \in Nat
      /\ SubSeq(text', 1, Len(text)) = text /\ SubSeq(text', Len(text) + 1, Len(text')) = out
  <2>1. PICK t : t = text OBVIOUS
  <2>2. PICK t1 : t1 = text' OBVIOUS
  <2>3. t \in Text /\ t1 = t \o out BY <1>1, <2>1, <2>2
  <2>5. /\ Len(t \o out) = Len(t) + Len(out) /\ Len(t) \in Nat /\ Len(out) \in Nat
        /\ SubSeq(t \o out, 1, Len(t)) = t /\ SubSeq(t \o out, Len(t) + 1, Len(t \o out)) = out
    BY <2>3, Emits
  <2>4. /\ Len(t1) = Len(t) + Len(out) /\ Len(t) \in Nat /\ Len(out) \in Nat
        /\ SubSeq(t1, 1, Len(t)) = t /\ SubSeq(t1, Len(t) + 1, Len(t1)) = out
    BY <2>3, <2>5, Zenon
  <2> QED BY <2>1, <2>2, <2>4, Zenon
<1>3. Len(text') > Len(text) BY <1>2
<1>4. Plain!Continues(text, SubSeq(text', Len(text) + 1, Len(text'))) BY <1>2, Zenon
<1> QED BY <1>2, <1>3, <1>4, Zenon DEF Plain!Decode

LEMMA StepDecodes == LInv /\ [Next]_vars => [Plain!Next]_(Plain!vars)
<1> SUFFICES ASSUME LInv, [Next]_vars PROVE Plain!Next \/ UNCHANGED <<text, open>>
    BY DEF Plain!vars
<1>1. TypeOK /\ \E d \in Text : Stands(d) BY DEF LInv
<1>2. PICK d \in Text : Stands(d) BY <1>1
<1>3. ASSUME NEW p \in Prompts, Start(p) \/ StartFails(p) PROVE UNCHANGED <<text, open>>
  <2>1. CASE Start(p) BY <2>1 DEF Start
  <2>2. CASE StartFails(p)
    <3>1. pc = "idle" /\ open' = FALSE /\ text' = text BY <2>2 DEF StartFails, Reset
    <3>2. ~open BY <1>2, <3>1 DEF Stands, Still
    <3>3. open \in BOOLEAN BY <1>1 DEF TypeOK
    <3> QED BY <3>1, <3>2, <3>3
  <2> QED BY <1>3, <2>1, <2>2
<1>4. CASE PlainRound BY <1>4 DEF PlainRound, Prepare, client
<1>5. CASE LookaheadRound BY <1>5 DEF LookaheadRound, Prepare, client
<1>6. ASSUME NEW c \in Windows(kMaxWindow) \ {<<>>}, Speculate(c) PROVE UNCHANGED <<text, open>>
  BY <1>6 DEF Speculate, client
<1>7. CASE NoSpec BY <1>7 DEF NoSpec, client
<1>8. CASE SpecEnds BY <1>8 DEF SpecEnds, client
<1>9. CASE Verify BY <1>9 DEF Verify, client
<1>10. CASE Confirm
  <2>1. pc = "settle" /\ text' = text \o Out /\ UNCHANGED open BY <1>10 DEF Confirm, Joined
  <2>2. open BY <1>1, <1>2, <2>1, RoundIs
  <2>3. Out \in Text /\ Len(Out) > 0 /\ Plain!Continues(text, Out) BY <1>1, <1>2, <2>1, OutIs
  <2>4. Plain!Decode BY <1>1, <2>1, <2>2, <2>3, DecodeStep
  <2> QED BY <2>4, Zenon DEF Plain!Next
<1>11. CASE Commit BY <1>11 DEF Commit
<1>12. CASE Draft
  <2>1. /\ pc = "draft" /\ open' = TRUE /\ text' = (IF open THEN text ELSE history[0]) \o Out
        /\ pending' = pending
    BY <1>12 DEF Draft
  <2>2. /\ (IF open THEN text ELSE history[0]) \o Out = d \o <<pending>>
        /\ pending \in Tokens /\ Len(d) > 0 /\ Out \in Text /\ Len(Out) > 0
    BY <1>1, <1>2, <2>1, Sent
  <2>3. CASE open
    <3>1. Plain!Continues(text, Out) BY <1>2, <2>1, <2>3 DEF Stands, Drafting
    <3>2. text' = text \o Out /\ UNCHANGED open BY <2>1, <2>3
    <3>3. Plain!Decode BY <1>1, <2>2, <2>3, <3>1, <3>2, DecodeStep
    <3> QED BY <3>3, Zenon DEF Plain!Next
  <2>4. CASE ~open
    <3>1. pending \in Support(d) BY <1>2, <2>1, <2>4 DEF Stands, Drafting
    <3> DEFINE last == <<pending>>
    <3>2. last \in Text /\ Len(last) = 1 /\ last[1] = pending BY <2>2 DEF Text
    <3>3. text' = d \o last BY <2>1, <2>2
    <3> HIDE DEF last
    <3>4. /\ Len(text') = Len(d) + 1 /\ Len(d) \in Nat
          /\ SubSeq(text', 1, Len(d)) = d /\ SubSeq(text', Len(d) + 1, Len(text')) = last
      <4>1. PICK t1 : t1 = text' OBVIOUS
      <4>2. t1 = d \o last BY <3>3, <4>1
      <4>3. /\ Len(t1) = Len(d) + Len(last) /\ Len(d) \in Nat
            /\ SubSeq(t1, 1, Len(d)) = d /\ SubSeq(t1, Len(d) + 1, Len(t1)) = last
        <5>1. /\ Len(d \o last) = Len(d) + Len(last) /\ Len(d) \in Nat
              /\ SubSeq(d \o last, 1, Len(d)) = d /\ SubSeq(d \o last, Len(d) + 1, Len(d \o last)) = last
          BY <3>2, Emits
        <5> QED BY <4>2, <5>1, Zenon
      <4> QED BY <3>2, <4>1, <4>3, Zenon
    <3>5. PICK n : n = Len(text') - 1 OBVIOUS
    <3>6. n = Len(d) /\ n > 0 BY <2>2, <3>4, <3>5
    <3>7. text'[n + 1] = pending
      <4>1. \A i \in 1..Len(d) + Len(last) : (d \o last)[i] = IF i <= Len(d) THEN d[i] ELSE last[i - Len(d)]
            BY <3>2, ConcatProperties DEF Text
      <4>2. n + 1 \in 1..Len(d) + Len(last) /\ ~(n + 1 <= Len(d)) /\ (n + 1) - Len(d) = 1
            BY <3>2, <3>4, <3>6
      <4> QED BY <3>2, <3>3, <4>1, <4>2
    <3>8. Plain!Continues(d, <<pending>>)
      <4>1. d \o <<>> = d BY ConcatEmptySeq DEF Text
      <4>2. SubSeq(<<pending>>, 1, 1 - 1) = <<>> BY SubSeqEmpty
      <4>3. Len(<<pending>>) = 1 /\ <<pending>>[1] = pending OBVIOUS
      <4>4. ASSUME NEW i \in 1..Len(<<pending>>)
            PROVE  <<pending>>[i] \in Support(d \o SubSeq(<<pending>>, 1, i - 1))
        <5>1. i = 1 BY <4>3
        <5> QED BY <3>1, <4>1, <4>2, <4>3, <5>1
      <4> QED BY <4>4, Zenon DEF Plain!Continues
    <3>9. Plain!Continues(SubSeq(text', 1, n), <<text'[n + 1]>>) BY <3>4, <3>6, <3>7, <3>8
    <3>10. Plain!Ask BY <2>1, <2>4, <3>5, <3>6, <3>9 DEF Plain!Ask
    <3> QED BY <3>10, Zenon DEF Plain!Next
  <2> QED BY <2>3, <2>4
<1>13. CASE DraftFails
  <2>1. open' = FALSE /\ text' = text BY <1>13 DEF DraftFails, Reset
  <2>2. open \in BOOLEAN BY <1>1 DEF TypeOK
  <2> QED BY <2>1, <2>2 DEF Plain!Next, Plain!Close
<1>16. CASE RoundFails
  <2>1. pc = "ready" /\ open' = FALSE /\ text' = text BY <1>16 DEF RoundFails, Reset
  <2>2. open BY <1>2, <2>1 DEF Stands, Ready
  <2> QED BY <2>1, <2>2 DEF Plain!Next, Plain!Close
<1>14. CASE Finish
  <2>1. pc = "ready" /\ open' = FALSE /\ text' = text BY <1>14 DEF Finish
  <2>2. open BY <1>2, <2>1 DEF Stands, Ready
  <2> QED BY <2>1, <2>2 DEF Plain!Next, Plain!Close
<1>15. CASE UNCHANGED vars BY <1>15 DEF vars, client
<1> QED
  BY <1>3, <1>4, <1>5, <1>6, <1>7, <1>8, <1>9, <1>10, <1>11, <1>12, <1>13, <1>14, <1>15, <1>16 DEF Next

(* DecodesPlainly: whatever is speculated, confirmed, discarded or dropped   *)
(* half way, what the client is sent is a behaviour of PlainDecoding         *)
(* (docs/LOOKAHEAD.md: "The speculative window never changes what is        *)
(* emitted").                                                               *)
THEOREM LookaheadDecodesPlainly == Spec => DecodesPlainly
<1>1. Init => Plain!Init BY DEF Init, Plain!Init
<1> QED BY <1>1, LookaheadInvariant, StepDecodes, PTL DEF Spec, DecodesPlainly, Plain!Spec

-----------------------------------------------------------------------------
(* Sampled drafts (verify_window): weights are counted unit by unit. *)

Weights == [Vocabulary -> 0..Mass]

\* what a has more than b, token by token
Excess(a, b) == [t \in Vocabulary |-> IF a[t] > b[t] THEN a[t] - b[t] ELSE 0]

LEMMA GreaterIs ==
  ASSUME NEW z \in Int
  PROVE  Max({0, z}) = IF z > 0 THEN z ELSE 0
<1> DEFINE T == {0, z}
           m == IF z > 0 THEN z ELSE 0
<1>1. m \in T /\ m \in Int /\ T \subseteq Int /\ \A y \in T : m >= y
  OBVIOUS
<1> HIDE DEF T, m
<1>2. Max(T) \in T /\ \A y \in T : Max(T) >= y
  BY <1>1, Zenon DEF Max
<1>3. Max(T) = m
  <2>1. PICK k : k = Max(T)
    OBVIOUS
  <2>2. k \in Int /\ k >= m /\ m >= k /\ m \in Int
    BY <1>1, <1>2, <2>1
  <2> QED
    BY <2>1, <2>2
<1> QED
  BY <1>3 DEF T, m

LEMMA LesserIs ==
  ASSUME NEW a \in Nat, NEW b \in Nat
  PROVE  Min({a, b}) = IF a <= b THEN a ELSE b
<1> DEFINE T == {a, b}
           m == IF a <= b THEN a ELSE b
<1>1. m \in T /\ m \in Nat /\ T \subseteq Nat /\ \A y \in T : m <= y
  OBVIOUS
<1> HIDE DEF T, m
<1>2. Min(T) \in T /\ \A y \in T : Min(T) <= y
  BY <1>1, Zenon DEF Min
<1>3. Min(T) = m
  <2>1. PICK k : k = Min(T)
    OBVIOUS
  <2>2. k \in T /\ k <= m
    BY <1>1, <1>2, <2>1
  <2>3. m <= k /\ k \in Nat /\ m \in Nat
    BY <1>1, <2>2
  <2> QED
    BY <2>1, <2>2, <2>3
<1> QED
  BY <1>3 DEF T, m

LEMMA UnitsFinite ==
  ASSUME NEW w
  PROVE  IsFiniteSet(Units(w)) /\ Total(w) \in Nat /\ Total(w) = Cardinality(Units(w))
<1>1. IsFiniteSet(Vocabulary) /\ IsFiniteSet(1..Mass)
  BY VerificationAssumption, FS_Interval
<1>2. IsFiniteSet(Vocabulary \X (1..Mass))
  BY <1>1, FS_Product
<1>3. Units(w) \in SUBSET (Vocabulary \X (1..Mass))
  BY DEF Units
<1> QED
  BY <1>2, <1>3, FS_Subset, FS_CardinalityType DEF Total

LEMMA InUnits ==
  ASSUME NEW w, NEW t, NEW i
  PROVE  <<t, i>> \in Units(w) <=> t \in Vocabulary /\ i \in 1..Mass /\ i <= w[t]
BY DEF Units

LEMMA UnitIs ==
  ASSUME NEW w, NEW x \in Units(w)
  PROVE  \E t \in Vocabulary, i \in 1..Mass : x = <<t, i>> /\ i <= w[t]
BY DEF Units

\* The units a has more than b are those of a that b has not, counted from 1.
LEMMA ExcessTotal ==
  ASSUME NEW a \in Weights, NEW b \in Weights
  PROVE  /\ Excess(a, b) \in Weights
         /\ Total(Excess(a, b)) = Cardinality(Units(a) \ Units(b))
<1> DEFINE c == Excess(a, b)
           S == Units(c)
           T == Units(a) \ Units(b)
           f == [x \in S |-> <<x[1], x[2] + b[x[1]]>>]
<1>1. Mass \in Nat /\ \A t \in Vocabulary : a[t] \in 0..Mass /\ b[t] \in 0..Mass
  BY VerificationAssumption DEF Weights
<1>2. c \in Weights /\ \A t \in Vocabulary : c[t] = IF a[t] > b[t] THEN a[t] - b[t] ELSE 0
  BY <1>1 DEF Excess, Weights
<1> HIDE DEF c
<1>3. ASSUME NEW x \in S
      PROVE  \E t \in Vocabulary, i \in 1..Mass :
               x = <<t, i>> /\ f[x] = <<t, i + b[t]>> /\ i <= a[t] - b[t] /\ f[x] \in T
  <2>1. PICK t \in Vocabulary, i \in 1..Mass : x = <<t, i>> /\ i <= c[t]
    BY UnitIs
  <2>2. i \in Nat \ {0} /\ a[t] \in 0..Mass /\ b[t] \in 0..Mass
    BY <1>1, <2>1
  <2>3. i <= a[t] - b[t]
    BY <1>1, <1>2, <2>1, <2>2
  <2>4. f[x] = <<t, i + b[t]>>
    BY <2>1
  <2>5. i + b[t] \in 1..Mass /\ i + b[t] <= a[t] /\ ~(i + b[t] <= b[t])
    BY <1>1, <2>2, <2>3
  <2>6. f[x] \in T
    BY <2>1, <2>4, <2>5, InUnits
  <2> QED
    BY <2>1, <2>3, <2>4, <2>6
<1>4. f \in [S -> T]
  BY <1>3
<1>5. ASSUME NEW x \in S, NEW y \in S, f[x] = f[y]
      PROVE  x = y
  <2>1. PICK t \in Vocabulary, i \in 1..Mass : x = <<t, i>> /\ f[x] = <<t, i + b[t]>>
    BY <1>3
  <2>2. PICK u \in Vocabulary, j \in 1..Mass : y = <<u, j>> /\ f[y] = <<u, j + b[u]>>
    BY <1>3
  <2> HIDE DEF f
  <2>3. t = u /\ i + b[t] = j + b[u]
    BY <1>5, <2>1, <2>2
  <2>4. i \in Int /\ j \in Int /\ b[t] \in Int
    BY <1>1, <2>1, <2>2
  <2>5. i = j
    BY <2>3, <2>4
  <2> QED
    BY <2>1, <2>2, <2>3, <2>5
<1>6. ASSUME NEW y \in T
      PROVE  \E x \in S : f[x] = y
  <2>1. PICK t \in Vocabulary, j \in 1..Mass : y = <<t, j>> /\ j <= a[t]
    BY UnitIs
  <2>2. ~(j <= b[t])
    BY <2>1, InUnits
  <2>3. a[t] \in 0..Mass /\ b[t] \in 0..Mass /\ j \in Nat
    BY <1>1, <2>1
  <2>4. j - b[t] \in 1..Mass /\ j - b[t] <= c[t] /\ (j - b[t]) + b[t] = j
    BY <1>1, <1>2, <2>1, <2>2, <2>3
  <2>5. <<t, j - b[t]>> \in S
    BY <2>1, <2>4, InUnits
  <2>6. f[<<t, j - b[t]>>] = <<t, (j - b[t]) + b[t]>>
    BY <2>5
  <2>7. f[<<t, j - b[t]>>] = y
    BY <2>1, <2>4, <2>6
  <2> QED
    BY <2>5, <2>7
<1>7. ExistsBijection(S, T)
  <2> HIDE DEF f, S, T
  <2>1. f \in Bijection(S, T)
    BY <1>4, <1>5, <1>6 DEF Bijection, Injection, IsInjective, Surjection
  <2> QED
    BY <2>1 DEF ExistsBijection
<1>8. IsFiniteSet(S) /\ Total(c) = Cardinality(S)
  BY UnitsFinite
<1> HIDE DEF S, T
<1>9. Cardinality(T) = Cardinality(S)
  BY <1>7, <1>8, FS_Bijection
<1> QED
  BY <1>2, <1>8, <1>9 DEF c, T

\* Of two distributions each has as much more than the other.
LEMMA Balanced ==
  ASSUME NEW p \in Distributions, NEW q \in Distributions
  PROVE  /\ p \in Weights /\ q \in Weights /\ Excess(p, q) \in Weights
         /\ Total(Excess(p, q)) = Total(Excess(q, p)) /\ Total(Excess(p, q)) \in Nat
<1>1. p \in Weights /\ q \in Weights /\ Total(p) = Mass /\ Total(q) = Mass
  BY DEF Distributions, Weights
<1>2. /\ IsFiniteSet(Units(p)) /\ Cardinality(Units(p)) = Mass
      /\ IsFiniteSet(Units(q)) /\ Cardinality(Units(q)) = Mass
  BY <1>1, UnitsFinite
<1>3. Cardinality(Units(p) \ Units(q)) = Mass - Cardinality(Units(p) \cap Units(q))
  BY <1>2, FS_Difference
<1>4. Cardinality(Units(q) \ Units(p)) = Mass - Cardinality(Units(q) \cap Units(p))
  BY <1>2, FS_Difference
<1>5. Units(p) \cap Units(q) = Units(q) \cap Units(p)
  OBVIOUS
<1>6. Cardinality(Units(p) \ Units(q)) = Cardinality(Units(q) \ Units(p))
  BY <1>3, <1>4, <1>5
<1> QED
  BY <1>1, <1>6, ExcessTotal, UnitsFinite

\* Nothing in all is nothing of every token.
LEMMA NothingTotal ==
  ASSUME NEW w \in Weights, Total(w) = 0
  PROVE  \A t \in Vocabulary : w[t] = 0
<1>1. Units(w) = {}
  BY UnitsFinite, FS_EmptySet
<1>2. ASSUME NEW t \in Vocabulary PROVE w[t] = 0
  <2>1. w[t] \in 0..Mass /\ Mass \in Nat \ {0}
    BY VerificationAssumption DEF Weights
  <2>2. 1 \in 1..Mass /\ <<t, 1>> \notin Units(w)
    BY <1>1, <2>1
  <2>3. ~(1 <= w[t])
    BY <2>2, InUnits
  <2> QED
    BY <2>1, <2>3
<1> QED
  BY <1>2

LEMMA WithoutOne ==
  ASSUME NEW p \in Weights, NEW d \in Vocabulary
  PROVE  Total([p EXCEPT ![d] = 0]) = Total(p) - p[d]
<1> DEFINE rest == [p EXCEPT ![d] = 0]
           D    == {d} \X (1..p[d])
<1>1. Mass \in Nat /\ p[d] \in 0..Mass /\ rest \in Weights /\ rest[d] = 0 /\ \A t \in Vocabulary \ {d} : rest[t] = p[t]
  BY VerificationAssumption DEF Weights
<1>2. IsFiniteSet(D) /\ Cardinality(D) = p[d]
  <2>1. IsFiniteSet({d}) /\ Cardinality({d}) = 1
    BY FS_Singleton
  <2>2. IsFiniteSet(1..p[d]) /\ Cardinality(1..p[d]) = p[d]
    <3>1. PICK n \in Nat : n = p[d]
      BY <1>1
    <3>2. IsFiniteSet(1..n) /\ Cardinality(1..n) = n
      BY FS_Interval
    <3> QED
      BY <3>1, <3>2
  <2>3. IsFiniteSet(D) /\ Cardinality(D) = Cardinality({d}) * Cardinality(1..p[d])
    BY <2>1, <2>2, FS_Product
  <2> QED
    BY <1>1, <2>1, <2>2, <2>3
<1> HIDE DEF rest
<1>3. ASSUME NEW t \in Vocabulary, NEW i \in 1..Mass
      PROVE  <<t, i>> \in Units(rest) <=> <<t, i>> \in Units(p) \ D
  <2>1. <<t, i>> \in D <=> t = d /\ i <= p[d]
    BY <1>1
  <2>2. CASE t = d
    BY <1>1, <2>1, <2>2, InUnits
  <2>3. CASE t # d
    BY <1>1, <2>1, <2>3, InUnits
  <2> QED
    BY <2>2, <2>3
<1>4. Units(rest) = Units(p) \ D
  <2>1. \A x \in Units(rest) : x \in Units(p) \ D
    BY <1>3, UnitIs
  <2>2. \A x \in Units(p) \ D : x \in Units(rest)
    BY <1>3, UnitIs
  <2> QED
    BY <2>1, <2>2
<1>5. Units(p) \cap D = D
  <2>1. ASSUME NEW x \in D PROVE x \in Units(p)
    <3>1. PICK i \in 1..p[d] : x = <<d, i>>
      OBVIOUS
    <3> QED
      BY <1>1, <3>1, InUnits
  <2> QED
    BY <2>1
<1> HIDE DEF D
<1>6. IsFiniteSet(Units(p)) /\ Total(p) = Cardinality(Units(p)) /\ Total(rest) = Cardinality(Units(rest))
  BY UnitsFinite
<1>7. Cardinality(Units(p) \ D) = Cardinality(Units(p)) - Cardinality(Units(p) \cap D)
  BY <1>6, FS_Difference
<1>8. Total(rest) = Total(p) - p[d]
  BY <1>2, <1>4, <1>5, <1>6, <1>7
<1> QED
  BY <1>8 DEF rest

LEMMA Shared ==
  ASSUME NEW a \in Nat, NEW b \in Nat, NEW n \in Nat
  PROVE  a * n + n * b = (a + b) * n
OBVIOUS

\* Accepted with min(1, p/q) and replaced from max(0, p - q), or from p without the draft when that was certain,
\* tokens are distributed as the target says: for every vocabulary and every two distributions over it.
THEOREM VerificationExact ==
  ASSUME NEW p \in Distributions, NEW q \in Distributions
  PROVE  Exact(p, q)
<1> DEFINE drafted == {d \in Vocabulary : q[d] > 0}
           more    == Residual(p, q, CHOOSE d \in drafted : TRUE)
           losses  == [d \in Vocabulary |-> IF d \in drafted THEN q[d] - Accepted(p, q, d) ELSE 0]
           refused == Total(losses)
           R       == Total(Excess(p, q))
<1>1. /\ p \in Weights /\ q \in Weights /\ Excess(p, q) \in Weights
      /\ R = Total(Excess(q, p)) /\ R \in Nat
      /\ Mass \in Nat \ {0} /\ Total(p) = Mass /\ Total(q) = Mass
  BY Balanced, VerificationAssumption DEF Distributions
<1>2. \A t \in Vocabulary : p[t] \in 0..Mass /\ q[t] \in 0..Mass /\ p[t] \in Nat /\ q[t] \in Nat
  BY <1>1 DEF Weights
<1>3. \A t \in Vocabulary : Excess(p, q)[t] = IF p[t] > q[t] THEN p[t] - q[t] ELSE 0
  BY DEF Excess
<1>4. \A d \in drafted : Accepted(p, q, d) = IF p[d] <= q[d] THEN p[d] ELSE q[d]
  BY <1>2, LesserIs DEF Accepted, DraftMass
<1>5. losses = Excess(q, p)
  <2>1. \A d \in Vocabulary : losses[d] = Excess(q, p)[d]
    BY <1>2, <1>4 DEF Excess
  <2> QED
    BY <2>1 DEF Excess
<1>6. refused = R
  BY <1>1, <1>5
<1>7. drafted # {}
  <2>1. SUFFICES ASSUME \A d \in Vocabulary : ~(q[d] > 0) PROVE FALSE
    OBVIOUS
  <2>2. \A x : x \notin Units(q)
    <3>1. SUFFICES ASSUME NEW x \in Units(q) PROVE FALSE
      OBVIOUS
    <3>2. PICK t \in Vocabulary, i \in 1..Mass : x = <<t, i>> /\ i <= q[t]
      BY UnitIs
    <3> QED
      BY <1>2, <2>1, <3>2
  <2>3. Units(q) = {}
    BY <2>2
  <2>4. Total(q) = 0
    BY <2>3, FS_EmptySet DEF Total
  <2> QED
    BY <1>1, <2>4
<1>8. more = IF R > 0 THEN Excess(p, q) ELSE p
  <2> DEFINE d0 == CHOOSE d \in drafted : TRUE
  <2>1. d0 \in drafted
    BY <1>7
  <2> HIDE DEF d0
  <2>2. d0 \in Vocabulary /\ q[d0] # 0
    BY <1>2, <2>1
  <2>3. [t \in Vocabulary |-> Max({0, p[t] - q[t]})] = Excess(p, q)
    <3>1. \A t \in Vocabulary : Max({0, p[t] - q[t]}) = IF p[t] > q[t] THEN p[t] - q[t] ELSE 0
      BY <1>2, GreaterIs
    <3> QED
      BY <3>1 DEF Excess
  <2>4. Residual(p, q, d0) = IF R > 0 THEN Excess(p, q) ELSE p
    BY <2>2, <2>3 DEF Residual
  <2> QED
    BY <2>4 DEF d0
<1> HIDE DEF more, losses, refused, R
<1>9. ASSUME NEW t \in Vocabulary
      PROVE  (IF t \in drafted THEN Accepted(p, q, t) ELSE 0) * Total(more) + refused * more[t] = p[t] * Total(more)
  <2> DEFINE passed == IF t \in drafted THEN Accepted(p, q, t) ELSE 0
  <2>1. passed = IF p[t] <= q[t] THEN p[t] ELSE q[t]
    BY <1>2, <1>4
  <2>2. passed \in Nat /\ p[t] \in Nat
    BY <1>2, <2>1
  <2>3. CASE R > 0
    <3>1. more = Excess(p, q) /\ Total(more) = R
      BY <1>8, <2>3 DEF R
    <3>2. more[t] \in Nat /\ passed + more[t] = p[t]
      BY <1>2, <1>3, <2>1, <3>1
    <3> HIDE DEF passed
    <3>3. passed * R + R * more[t] = (passed + more[t]) * R
      BY <1>1, <2>2, <3>2, Shared
    <3>4. passed * Total(more) + refused * more[t] = p[t] * Total(more)
      BY <1>6, <3>1, <3>2, <3>3
    <3> QED
      BY <3>4 DEF passed
  <2>4. CASE R = 0
    <3>1. Excess(p, q)[t] = 0
      BY <1>1, <2>4, NothingTotal DEF R
    <3>2. passed = p[t]
      BY <1>2, <1>3, <2>1, <3>1
    <3>3. more = p /\ Total(more) = Mass /\ refused = 0
      BY <1>1, <1>6, <1>8, <2>4
    <3> HIDE DEF passed
    <3>4. passed * Total(more) + refused * more[t] = p[t] * Total(more)
      <4>1. 0 * p[t] = 0 /\ p[t] * Mass \in Nat
        BY <1>1, <2>2
      <4>2. p[t] * Mass + 0 * p[t] = p[t] * Mass
        BY <4>1
      <4> QED
        BY <3>2, <3>3, <4>2
    <3> QED
      BY <3>4 DEF passed
  <2> QED
    BY <1>1, <2>3, <2>4
<1>10. ASSUME NEW d \in Vocabulary \ drafted, NEW t \in Vocabulary
       PROVE  LET rest == Residual(p, q, d)
                  passed == IF t = d THEN Accepted(p, q, d) ELSE 0
              IN passed * Total(rest) + (Mass - Accepted(p, q, d)) * rest[t] = p[t] * Total(rest)
  <2> DEFINE rest   == Residual(p, q, d)
             passed == IF t = d THEN Accepted(p, q, d) ELSE 0
  <2>1. d \in Vocabulary /\ q[d] = 0
    BY <1>2
  <2>2. Accepted(p, q, d) = p[d]
    <3>1. p[d] \in Nat /\ p[d] <= Mass /\ DraftMass(q, d) = Mass
      BY <1>1, <1>2, <2>1 DEF DraftMass
    <3> QED
      BY <1>1, <3>1, LesserIs DEF Accepted
  <2>3. rest = [p EXCEPT ![d] = 0]
    BY <2>1 DEF Residual
  <2>4. Total(rest) = Mass - p[d]
    BY <1>1, <2>1, <2>3, WithoutOne
  <2>5. rest[t] = IF t = d THEN 0 ELSE p[t]
    BY <1>1, <2>3 DEF Weights
  <2>6. PICK m \in Nat : m = Mass - p[d]
    BY <1>1, <1>2, <2>1
  <2>7. p[t] \in Nat
    BY <1>2
  <2> HIDE DEF rest
  <2>8. CASE t = d
    <3>1. passed = p[t] /\ rest[t] = 0
      BY <2>2, <2>5, <2>8
    <3>2. p[t] * m + m * 0 = p[t] * m
      BY <2>7
    <3> HIDE DEF passed
    <3>3. passed * Total(rest) + (Mass - Accepted(p, q, d)) * rest[t] = p[t] * Total(rest)
      BY <2>2, <2>4, <2>6, <3>1, <3>2
    <3> QED
      BY <3>3 DEF rest, passed
  <2>9. CASE t # d
    <3>1. passed = 0 /\ rest[t] = p[t]
      BY <2>5, <2>9
    <3>2. 0 * m + m * p[t] = p[t] * m
      BY <2>7
    <3> HIDE DEF passed
    <3>3. passed * Total(rest) + (Mass - Accepted(p, q, d)) * rest[t] = p[t] * Total(rest)
      BY <2>2, <2>4, <2>6, <3>1, <3>2
    <3> QED
      BY <3>3 DEF rest, passed
  <2> QED
    BY <2>8, <2>9
<1> QED
  BY <1>9, <1>10 DEF Exact, drafted, more, losses, refused

\* The same as the run states it, of the draft it verifies.
THEOREM AcceptanceExactHolds == MCSpec => []AcceptanceExact
<1> DEFINE Called == call \in {NoCall} \cup Calls
<1>1. MCInit => Called
  BY DEF MCInit
<1>2. Called /\ [Decode]_<<vars, call>> => Called'
  BY DEF Decode
<1>3. Called => AcceptanceExact
  <2> SUFFICES ASSUME Called, call.what = "verify" PROVE Exact(call.p, call.q)
    BY DEF AcceptanceExact
  <2>1. call # NoCall
    BY DEF NoCall
  <2>2. call \in [what : {"verify"}, p : Distributions, q : Distributions]
    BY <2>1 DEF Calls
  <2>3. call.p \in Distributions /\ call.q \in Distributions
    BY <2>2
  <2> QED
    BY <2>3, VerificationExact
<1> QED
  BY <1>1, <1>2, <1>3, PTL DEF MCSpec
=============================================================================
