---------------------------- MODULE Parking_proofs ----------------------------
(***************************************************************************)
(* Conversations stay whole, what a request was promised is what it starts *)
(* from, and host RAM and every stage's memory hold what is put there, for *)
(* every number of stages and slots, all prompts, memory sizes and limits, *)
(* whichever snapshot is replaced and wherever pinning fails or throws.    *)
(***************************************************************************)
EXTENDS Parking, FiniteSetTheorems, SequenceTheorems, NaturalsInduction, WellFoundedInduction, TLAPS

Text      == Seq(Tokens)
Snapshots == [pos : 1..MaxCtx, mem : Text]

-----------------------------------------------------------------------------
(* Naturals *)

\* A set of naturals has a least element.
LEMMA LeastOf ==
  ASSUME NEW T \in SUBSET Nat, T # {}
  PROVE  \E m \in T : \A i \in T : m <= i
<1>1. PICK m \in T : \A i \in T : <<i, m>> \notin OpToRel(<, Nat)
  BY Zenon, NatLessThanWellFounded, WFMin
<1>2. ASSUME NEW i \in T PROVE m <= i
  <2>1. <<i, m>> \in Nat \X Nat /\ m \in Nat /\ i \in Nat
    OBVIOUS
  <2> QED
    BY <1>1, <2>1 DEF OpToRel
<1> QED
  BY <1>2

LEMMA MinIs ==
  ASSUME NEW T \in SUBSET Nat, T # {}
  PROVE  Min(T) \in T /\ \A i \in T : Min(T) <= i
BY LeastOf DEF Min

\* A bounded one has a greatest.
LEMMA MaxIs ==
  ASSUME NEW T \in SUBSET Nat, T # {}, NEW n \in Nat, \A i \in T : i <= n
  PROVE  Max(T) \in T /\ \A i \in T : i <= Max(T)
<1> DEFINE R == {d \in Nat : n - d \in T}
<1>1. \A i \in T : n - i \in R
  OBVIOUS
<1>2. R \in SUBSET Nat /\ R # {}
  BY <1>1
<1>3. PICK d \in R : \A e \in R : d <= e
  <2> HIDE DEF R
  <2> QED
    BY <1>2, LeastOf
<1>4. n - d \in T /\ \A i \in T : n - d >= i
  BY <1>1, <1>3
<1>5. Max(T) \in T /\ \A i \in T : Max(T) >= i
  BY <1>4, Zenon DEF Max
<1> QED
  BY <1>5

LEMMA MinOfTwo ==
  ASSUME NEW a \in Nat, NEW b \in Nat
  PROVE  /\ Min({a, b}) \in {a, b} /\ Min({a, b}) \in Nat /\ Min({a, b}) <= a /\ Min({a, b}) <= b
BY MinIs

LEMMA MaxOfTwo ==
  ASSUME NEW a \in Nat, NEW b \in Nat
  PROVE  /\ Max({a, b}) \in {a, b} /\ Max({a, b}) \in Nat /\ a <= Max({a, b}) /\ b <= Max({a, b})
<1> DEFINE T == {a, b}
<1>1. T \in SUBSET Nat /\ T # {} /\ a + b \in Nat /\ \A i \in T : i <= a + b
  OBVIOUS
<1> HIDE DEF T
<1>2. Max(T) \in T /\ \A i \in T : i <= Max(T)
  BY <1>1, MaxIs
<1> QED
  BY <1>2 DEF T

LEMMA ConstantsAre ==
  /\ NStages \in Nat \ {0} /\ Slots \subseteq Nat /\ 1 \in Stages
  /\ Window \in Nat \ {0} /\ Baseline \in 1..MaxCtx /\ MaxCtx \in Nat /\ MaxCk \in Nat \ {0}
  /\ ParkMin \in Nat \ {0} /\ MaxReplies \in Nat /\ MaxRequests \in Nat /\ MaxPinFailures \in Nat /\ Reply \in Tokens
BY ParkingAssumption DEF Stages, Tokens

\* A context rounded up is large enough, unless it is all there is.
LEMMA CellsIs ==
  ASSUME NEW n \in Nat
  PROVE  Cells(n) \in 0..MaxCtx /\ (n <= Cells(n) \/ Cells(n) = MaxCtx)
<1> DEFINE q == (n + Step - 1) \div Step
<1>1. Step \in Nat \ {0} /\ MaxCtx \in Nat /\ n + Step - 1 \in Nat
  BY ParkingAssumption
<1>2. \A a \in Nat, s \in Nat \ {0} : a \div s \in Nat /\ a < s * (a \div s) + s
  OBVIOUS
<1>3. q \in Nat /\ n + Step - 1 < Step * q + Step
  BY <1>1, <1>2
<1> HIDE DEF q
<1>4. \A a, b \in Nat : a * b \in Nat /\ a * b = b * a
  OBVIOUS
<1>5. q * Step \in Nat /\ Step * q = q * Step
  BY <1>1, <1>3, <1>4
<1> DEFINE m == q * Step
<1>6. m \in Nat /\ n + Step - 1 < m + Step
  BY <1>3, <1>5
<1> HIDE DEF m
<1>7. n <= m
  BY <1>1, <1>6
<1>8. Min({MaxCtx, m}) \in {MaxCtx, m} /\ Min({MaxCtx, m}) \in Nat /\ Min({MaxCtx, m}) <= MaxCtx
  BY <1>1, <1>6, MinOfTwo
<1> QED
  BY <1>7, <1>8, <1>1 DEF Cells, m, q

-----------------------------------------------------------------------------
(* Prefixes *)

LEMMA UpIs ==
  ASSUME NEW S, NEW h \in Seq(S), NEW n \in 0..Len(h)
  PROVE  /\ Up(h, n) \in Seq(S) /\ Len(Up(h, n)) = n
         /\ \A i \in 1..n : Up(h, n)[i] = h[i]
<1>1. Len(h) \in Nat /\ \A i \in 1..n : h[i] \in S
  BY ElementOfSeq, LenProperties
<1> QED
  BY <1>1, SubSeqProperties DEF Up

LEMMA UpWhole ==
  ASSUME NEW S, NEW h \in Seq(S)
  PROVE  Up(h, Len(h)) = h
BY SubSeqFull DEF Up

LEMMA UpNone ==
  ASSUME NEW h
  PROVE  Up(h, 0) = <<>>
BY SubSeqEmpty DEF Up

LEMMA UpOfUp ==
  ASSUME NEW S, NEW h \in Seq(S), NEW m \in 0..Len(h), NEW n \in 0..m
  PROVE  Up(Up(h, m), n) = Up(h, n)
<1>1. Len(h) \in Nat /\ n \in 0..Len(h)
  BY LenProperties
<1> DEFINE g == Up(h, m)
<1>2. g \in Seq(S) /\ Len(g) = m /\ \A i \in 1..m : g[i] = h[i]
  BY UpIs
<1>3. /\ Up(h, n) \in Seq(S) /\ Len(Up(h, n)) = n
      /\ \A i \in 1..n : Up(h, n)[i] = h[i]
  BY <1>1, UpIs
<1>4. /\ Up(g, n) \in Seq(S) /\ Len(Up(g, n)) = n
      /\ \A i \in 1..n : Up(g, n)[i] = g[i]
  BY <1>2, UpIs
<1> HIDE DEF g
<1>5. \A i \in 1..n : Up(g, n)[i] = Up(h, n)[i]
  BY <1>2, <1>3, <1>4
<1>6. Up(g, n) = Up(h, n)
  BY <1>3, <1>4, <1>5, SeqEqual
<1> QED
  BY <1>6 DEF g

LEMMA UpOfConcat ==
  ASSUME NEW S, NEW h \in Seq(S), NEW w \in Seq(S), NEW n \in 0..Len(h)
  PROVE  Up(h \o w, n) = Up(h, n)
<1>1. Len(h) \in Nat /\ Len(w) \in Nat
  BY LenProperties
<1> DEFINE g == h \o w
<1>2. /\ g \in Seq(S) /\ Len(g) = Len(h) + Len(w)
      /\ \A i \in 1..Len(h) + Len(w) : g[i] = IF i <= Len(h) THEN h[i] ELSE w[i - Len(h)]
  BY ConcatProperties
<1> HIDE DEF g
<1>3. n \in 0..Len(g) /\ \A i \in 1..n : g[i] = h[i]
  BY <1>1, <1>2
<1>4. /\ Up(h, n) \in Seq(S) /\ Len(Up(h, n)) = n
      /\ \A i \in 1..n : Up(h, n)[i] = h[i]
  BY UpIs
<1>5. /\ Up(g, n) \in Seq(S) /\ Len(Up(g, n)) = n
      /\ \A i \in 1..n : Up(g, n)[i] = g[i]
  BY <1>2, <1>3, UpIs
<1>6. Up(g, n) = Up(h, n)
  BY <1>3, <1>4, <1>5, SeqEqual
<1> QED
  BY <1>6 DEF g

LEMMA TextConcat ==
  ASSUME NEW h \in Text, NEW w \in Text
  PROVE  h \o w \in Text /\ Len(h \o w) = Len(h) + Len(w) /\ Len(h) \in Nat /\ Len(w) \in Nat
BY ConcatProperties, LenProperties DEF Text

LEMMA PrefixOfConcat ==
  ASSUME NEW h \in Text, NEW w \in Text
  PROVE  IsPrefix(h, h \o w)
<1>1. Len(h) \in 0..Len(h) /\ Len(h) <= Len(h \o w)
  BY TextConcat
<1>2. Up(h \o w, Len(h)) = Up(h, Len(h))
  BY <1>1, UpOfConcat DEF Text
<1> QED
  BY <1>1, <1>2 DEF IsPrefix, Up

LEMMA PrefixOfSelf ==
  ASSUME NEW h \in Text
  PROVE  IsPrefix(h, h)
BY LenProperties DEF IsPrefix, Text

\* A prompt consists of the model's tokens.
LEMMA PromptText ==
  ASSUME NEW p \in Prompts
  PROVE  p \in Text /\ Len(p) \in Nat \ {0} /\ Len(p) + MaxReplies <= MaxCtx /\ Len(p) <= MaxCtx
<1>1. p \in Seq(Nat) /\ p # <<>> /\ Len(p) + MaxReplies <= MaxCtx /\ MaxReplies \in Nat /\ MaxCtx \in Nat
  BY ParkingAssumption
<1>2. Len(p) \in Nat /\ p \in [1..Len(p) -> Nat]
  BY <1>1, LenProperties
<1>3. \A i \in 1..Len(p) : p[i] \in Tokens
  BY <1>2 DEF Tokens, Range
<1>4. p \in [1..Len(p) -> Tokens]
  BY <1>2, <1>3
<1>5. p \in Text
  BY <1>2, <1>4, SeqDef DEF Text
<1>6. Len(p) # 0
  BY <1>1, EmptySeq
<1> QED
  BY <1>1, <1>2, <1>5, <1>6

\* What two texts share.
LEMMA CommonIs ==
  ASSUME NEW h \in Text, NEW p \in Text
  PROVE  /\ Common(h, p) \in 0..Len(h) /\ Common(h, p) <= Len(p)
         /\ Up(h, Common(h, p)) = Up(p, Common(h, p))
<1>1. Len(h) \in Nat /\ Len(p) \in Nat
  BY TextConcat
<1> DEFINE P == CommonPrefixes({h, p})
           l == LongestCommonPrefix({h, p})
<1>2. \A x \in P : x \in Text /\ Len(x) \in Nat /\ IsPrefix(x, h) /\ IsPrefix(x, p)
  <2>1. SUFFICES ASSUME NEW x \in P PROVE x \in Text /\ Len(x) \in Nat /\ IsPrefix(x, h) /\ IsPrefix(x, p)
    OBVIOUS
  <2>2. x \in UNION {Prefixes(s) : s \in {h, p}} /\ IsPrefix(x, h) /\ IsPrefix(x, p)
    BY <2>1 DEF CommonPrefixes
  <2>3. PICK s \in {h, p} : x \in Prefixes(s)
    BY <2>2
  <2>4. PICK n \in 0..Len(s) : x = Up(s, n)
    BY <2>3 DEF Prefixes, Up
  <2>5. x \in Text /\ Len(x) = n
    BY <2>4, UpIs DEF Text
  <2> QED
    BY <2>2, <2>5
<1>3. <<>> \in P
  <2>1. Up(h, 0) = <<>> /\ Up(p, 0) = <<>> /\ Len(<<>>) = 0
    BY UpNone, EmptySeq
  <2>2. <<>> \in Prefixes(h)
    BY <1>1, <2>1 DEF Prefixes, Up
  <2>3. SubSeq(<<>>, 1, 0) = <<>>
    BY SubSeqEmpty
  <2>4. IsPrefix(<<>>, h) /\ IsPrefix(<<>>, p)
    BY <1>1, <2>1, <2>3 DEF IsPrefix, Up
  <2> QED
    BY <2>2, <2>4 DEF CommonPrefixes
<1>4. \E x \in P : \A y \in P : Len(y) <= Len(x)
  <2> DEFINE T == {Len(x) : x \in P}
  <2>1. T \in SUBSET Nat /\ T # {}
    BY <1>2, <1>3
  <2>2. \A i \in T : i <= Len(h)
    BY <1>2 DEF IsPrefix
  <2>3. Max(T) \in T /\ \A i \in T : i <= Max(T)
    <3> HIDE DEF T
    <3> QED
      BY <1>1, <2>1, <2>2, MaxIs
  <2>4. PICK x \in P : Max(T) = Len(x)
    BY <2>3
  <2>5. \A y \in P : Len(y) \in T
    OBVIOUS
  <2> QED
    BY <2>3, <2>4, <2>5
<1>5. l \in P
  <2> HIDE DEF P
  <2> DEFINE Q == P
  <2>1. l = CHOOSE x \in P : \A y \in P : Len(y) <= Len(x)
    BY DEF LongestCommonPrefix, P
  <2> QED
    BY <1>4, <2>1, Zenon
<1>6. l \in Text /\ Len(l) \in Nat /\ IsPrefix(l, h) /\ IsPrefix(l, p)
  BY <1>2, <1>5
<1>7. Common(h, p) = Len(l)
  BY DEF Common
<1> HIDE DEF l
<1> QED
  BY <1>1, <1>6, <1>7 DEF IsPrefix, Up

LEMMA ExtendsIs ==
  ASSUME NEW h \in Text, NEW p \in Text, Extends(h, p)
  PROVE  Len(h) < Len(p) /\ Up(p, Len(h)) = h
<1>1. Len(h) \in Nat /\ Len(p) \in Nat
  BY TextConcat
<1>2. Len(h) <= Len(p) /\ Up(h, Len(h)) = Up(p, Len(h)) /\ h # p
  BY DEF Extends, IsStrictPrefix, IsPrefix, Up
<1>3. Up(h, Len(h)) = h /\ Up(p, Len(p)) = p
  BY UpWhole DEF Text
<1>4. Up(p, Len(h)) = h
  BY <1>2, <1>3
<1>5. Len(h) # Len(p)
  BY <1>2, <1>3, <1>4
<1> QED
  BY <1>1, <1>2, <1>4, <1>5

-----------------------------------------------------------------------------
(* Conversations *)

Record == [hist : Text, kv : Text, rec : Text, ck : SUBSET Snapshots]

\* A conversation as it must be: its parts say the same, and it has few enough snapshots.
Sound(c) ==
  /\ c \in Record
  /\ IsFiniteSet(c.ck) /\ Cardinality(c.ck) <= MaxCk
  /\ Whole(c)

LEMMA SoundIs ==
  ASSUME NEW c, Sound(c)
  PROVE  /\ c \in Record /\ c.hist \in Text /\ c.ck \subseteq Snapshots /\ Len(c.hist) \in Nat
         /\ c.kv = c.hist /\ c.rec = c.hist
         /\ \A k \in c.ck : k.pos \in 0..Len(c.hist) /\ k.pos \in 1..MaxCtx /\ k.mem = Up(c.hist, k.pos)
         /\ IsConversation(c)
<1>1. c \in Record /\ c.hist \in Text /\ c.kv \in Text /\ c.rec \in Text /\ c.ck \subseteq Snapshots
      /\ DOMAIN c = {"hist", "kv", "rec", "ck"}
  BY DEF Sound, Record
<1>2. Len(c.hist) \in Nat
  BY <1>1, TextConcat
<1>3. \A k \in c.ck : k.pos \in 1..MaxCtx /\ k.mem \in Text
  BY <1>1 DEF Snapshots
<1>4. \A k \in c.ck : k.pos \in 0..Len(c.hist)
  BY <1>2, <1>3, ConstantsAre DEF Sound, Whole
<1>5. IsConversation(c)
  BY <1>1, <1>3 DEF IsConversation, Sound, Text
<1> QED
  BY <1>1, <1>2, <1>3, <1>4, <1>5 DEF Sound, Whole

LEMMA EmptySound == Sound(Empty)
<1>1. <<>> \in Text
  BY EmptySeq DEF Text
<1>2. IsFiniteSet({}) /\ Cardinality({}) = 0
  BY FS_EmptySet
<1> QED
  BY <1>1, <1>2, ConstantsAre DEF Sound, Empty, Record, Whole

LEMMA SnapshotFound ==
  ASSUME NEW c, Sound(c), NEW n \in Positions(c)
  PROVE  /\ n \in 1..MaxCtx /\ n \in 0..Len(c.hist)
         /\ (CHOOSE k \in c.ck : k.pos = n).mem = Up(c.hist, n)
<1>1. PICK k \in c.ck : k.pos = n
  BY DEF Positions
<1> DEFINE l == CHOOSE j \in c.ck : j.pos = n
<1>2. l \in c.ck /\ l.pos = n
  BY <1>1, Zenon
<1> HIDE DEF l
<1>3. n \in 1..MaxCtx /\ n \in 0..Len(c.hist) /\ l.mem = Up(c.hist, n)
  BY <1>2, SoundIs
<1> QED
  BY <1>3 DEF l

LEMMA LastIs ==
  ASSUME NEW c, Sound(c), NEW lim \in Nat
  PROVE  /\ LastSnapshot(c, lim) \in Nat /\ LastSnapshot(c, lim) <= lim
         /\ LastSnapshot(c, lim) # 0 => LastSnapshot(c, lim) \in Positions(c)
<1> DEFINE T == {0} \cup {n \in Positions(c) : n <= lim /\ n <= Len(c.hist)}
<1>1. Positions(c) \subseteq Nat
  BY SnapshotFound
<1>2. T \in SUBSET Nat /\ T # {} /\ \A i \in T : i <= lim
  BY <1>1
<1>3. LastSnapshot(c, lim) = Max(T)
  BY DEF LastSnapshot
<1>4. Max(T) \in T
  <2> HIDE DEF T
  <2> QED
    BY <1>2, MaxIs
<1> QED
  BY <1>2, <1>3, <1>4

\* What a prompt can keep of a conversation: all of it, or up to a snapshot inside what they share.
LEMMA ReuseIs ==
  ASSUME NEW c, Sound(c), NEW p \in Prompts
  PROVE  /\ Reuse(c, p) \in Nat /\ Reuse(c, p) < Len(p)
         /\ Extends(c.hist, p) => Reuse(c, p) = Len(c.hist)
         /\ ~Extends(c.hist, p) /\ Reuse(c, p) # 0 =>
              Reuse(c, p) \in Positions(c) /\ Reuse(c, p) <= Common(c.hist, p)
<1>1. p \in Text /\ Len(p) \in Nat \ {0} /\ c.hist \in Text /\ Len(c.hist) \in Nat
  BY PromptText, SoundIs
<1>2. CASE Extends(c.hist, p)
  BY <1>1, <1>2, ExtendsIs DEF Reuse
<1>3. CASE ~Extends(c.hist, p)
  <2> DEFINE lim == Min({Common(c.hist, p), Len(p) - 1})
  <2>1. Common(c.hist, p) \in Nat /\ Len(p) - 1 \in Nat
    BY <1>1, CommonIs
  <2>2. lim \in Nat /\ lim <= Common(c.hist, p) /\ lim <= Len(p) - 1
    BY <2>1, MinOfTwo
  <2>3. Reuse(c, p) = LastSnapshot(c, lim)
    BY <1>3 DEF Reuse
  <2> HIDE DEF lim
  <2>4. /\ LastSnapshot(c, lim) \in Nat /\ LastSnapshot(c, lim) <= lim
        /\ LastSnapshot(c, lim) # 0 => LastSnapshot(c, lim) \in Positions(c)
    BY <2>2, LastIs
  <2> QED
    BY <1>1, <1>3, <2>1, <2>2, <2>3, <2>4
<1> QED
  BY <1>2, <1>3

LEMMA StartIsReuse ==
  ASSUME NEW c
  PROVE  StartKeeps(c) = Reuse(c, prompt)
BY DEF StartKeeps, Reuse

LEMMA RewoundSound ==
  ASSUME NEW c, Sound(c), NEW n \in Positions(c)
  PROVE  Sound(Rewound(c, n)) /\ Rewound(c, n).hist = Up(c.hist, n) /\ Len(Rewound(c, n).hist) = n
<1> DEFINE d  == Rewound(c, n)
           ks == {k \in c.ck : k.pos <= n}
           u  == Up(c.hist, n)
<1>1. /\ c \in Record /\ c.hist \in Text /\ c.ck \subseteq Snapshots /\ Len(c.hist) \in Nat
      /\ c.kv = c.hist /\ c.rec = c.hist
      /\ \A k \in c.ck : k.pos \in 0..Len(c.hist) /\ k.pos \in 1..MaxCtx /\ k.mem = Up(c.hist, k.pos)
  BY SoundIs
<1>2. n \in 0..Len(c.hist) /\ (CHOOSE k \in c.ck : k.pos = n).mem = u
  BY SnapshotFound
<1>3. u \in Text /\ Len(u) = n
  BY <1>1, <1>2, UpIs DEF Text
<1>4. d = [hist |-> u, kv |-> u, rec |-> u, ck |-> ks]
  <2>1. d = [c EXCEPT !.hist = u, !.kv = u, !.rec = u, !.ck = ks]
    BY <1>1, <1>2 DEF Rewound, Record
  <2>2. DOMAIN c = {"hist", "kv", "rec", "ck"}
    BY <1>1 DEF Record
  <2> HIDE DEF d, u, ks
  <2> QED
    BY <1>1, <2>1, <2>2 DEF Record
<1>5. \A k \in ks : k.pos <= Len(u) /\ k.mem = Up(u, k.pos)
  <2>1. SUFFICES ASSUME NEW k \in ks PROVE k.pos <= Len(u) /\ k.mem = Up(u, k.pos)
    OBVIOUS
  <2>2. k.pos \in 0..n /\ k.mem = Up(c.hist, k.pos)
    BY <1>1, <1>2
  <2>3. Up(u, k.pos) = Up(c.hist, k.pos)
    BY <1>1, <1>2, <2>2, UpOfUp DEF Text
  <2> QED
    BY <1>2, <1>3, <2>2, <2>3
<1>6. IsFiniteSet(ks) /\ Cardinality(ks) <= MaxCk
  <2>1. IsFiniteSet(c.ck) /\ Cardinality(c.ck) <= MaxCk /\ Cardinality(c.ck) \in Nat
    BY FS_CardinalityType DEF Sound
  <2>2. IsFiniteSet(ks) /\ Cardinality(ks) <= Cardinality(c.ck) /\ Cardinality(ks) \in Nat
    BY <2>1, FS_Subset, FS_CardinalityType
  <2> QED
    BY <2>1, <2>2, ConstantsAre
<1>7. ks \subseteq Snapshots
  BY <1>1
<1> HIDE DEF ks, u
<1>8. Sound([hist |-> u, kv |-> u, rec |-> u, ck |-> ks])
  BY <1>3, <1>5, <1>6, <1>7 DEF Sound, Record, Whole
<1> QED
  BY <1>3, <1>4, <1>8 DEF u

LEMMA ForkedSound ==
  ASSUME NEW c, Sound(c), NEW n \in Positions(c), NEW old
  PROVE  /\ Sound(Forked(c, n, old)) /\ Forked(c, n, old).hist = Up(c.hist, n)
         /\ Len(Up(c.hist, n)) = n /\ Forked(c, n, old).ck = {}
<1> DEFINE u == Up(c.hist, n)
<1>1. c.hist \in Text /\ c.kv = c.hist
  BY SoundIs
<1>2. n \in 0..Len(c.hist) /\ (CHOOSE k \in c.ck : k.pos = n).mem = u
  BY SnapshotFound
<1>3. u \in Text /\ Len(u) = n
  BY <1>1, <1>2, UpIs DEF Text
<1>4. Forked(c, n, old) = [hist |-> u, kv |-> u, rec |-> u, ck |-> {}]
  BY <1>1, <1>2 DEF Forked
<1>5. IsFiniteSet({}) /\ Cardinality({}) = 0
  BY FS_EmptySet
<1> HIDE DEF u
<1>6. Sound([hist |-> u, kv |-> u, rec |-> u, ck |-> {}])
  BY <1>3, <1>5, ConstantsAre DEF Sound, Record, Whole
<1> QED
  BY <1>3, <1>4, <1>6 DEF u

LEMMA ClearedSound ==
  ASSUME NEW c, Sound(c)
  PROVE  Sound([c EXCEPT !.ck = {}])
<1>1. c \in Record /\ c.hist \in Text /\ c.kv = c.hist /\ c.rec = c.hist
  BY SoundIs
<1>2. IsFiniteSet({}) /\ Cardinality({}) = 0
  BY FS_EmptySet
<1>3. [c EXCEPT !.ck = {}] = [hist |-> c.hist, kv |-> c.hist, rec |-> c.hist, ck |-> {}]
  BY <1>1 DEF Record
<1>4. Sound([hist |-> c.hist, kv |-> c.hist, rec |-> c.hist, ck |-> {}])
  BY <1>1, <1>2, ConstantsAre DEF Sound, Record, Whole
<1> QED
  BY <1>3, <1>4

LEMMA FedSound ==
  ASSUME NEW c, Sound(c), NEW ts \in Text
  PROVE  /\ Sound(Fed(c, ts)) /\ Fed(c, ts).hist = c.hist \o ts /\ IsPrefix(c.hist, Fed(c, ts).hist)
         /\ Len(Fed(c, ts).hist) = Len(c.hist) + Len(ts)
<1> DEFINE u == c.hist \o ts
<1>1. /\ c \in Record /\ c.hist \in Text /\ c.ck \subseteq Snapshots /\ Len(c.hist) \in Nat
      /\ c.kv = c.hist /\ c.rec = c.hist
      /\ \A k \in c.ck : k.pos \in 0..Len(c.hist) /\ k.pos \in 1..MaxCtx /\ k.mem = Up(c.hist, k.pos)
  BY SoundIs
<1>2. u \in Text /\ Len(u) = Len(c.hist) + Len(ts) /\ Len(ts) \in Nat /\ IsPrefix(c.hist, u)
  BY <1>1, TextConcat, PrefixOfConcat
<1>3. Fed(c, ts) = [hist |-> u, kv |-> u, rec |-> u, ck |-> c.ck]
  <2>1. Fed(c, ts) = [c EXCEPT !.hist = u, !.kv = u, !.rec = u]
    BY <1>1 DEF Fed, Record
  <2> HIDE DEF u
  <2> QED
    BY <1>1, <2>1 DEF Record
<1>4. \A k \in c.ck : k.pos <= Len(u) /\ k.mem = Up(u, k.pos)
  <2>1. SUFFICES ASSUME NEW k \in c.ck PROVE k.pos <= Len(u) /\ k.mem = Up(u, k.pos)
    OBVIOUS
  <2>2. Up(u, k.pos) = Up(c.hist, k.pos)
    BY <1>1, UpOfConcat DEF Text
  <2> QED
    BY <1>1, <1>2, <2>2
<1>5. IsFiniteSet(c.ck) /\ Cardinality(c.ck) <= MaxCk
  BY DEF Sound
<1> HIDE DEF u
<1>6. Sound([hist |-> u, kv |-> u, rec |-> u, ck |-> c.ck])
  BY <1>1, <1>2, <1>4, <1>5 DEF Sound, Record, Whole
<1> QED
  BY <1>2, <1>3, <1>6 DEF u

LEMMA SnappedSound ==
  ASSUME NEW c, Sound(c), Len(c.hist) <= MaxCtx, NEW d \in MayDrop(c)
  PROVE  Sound(Snapped(c, d)) /\ Snapped(c, d).hist = c.hist
<1>1. CASE Len(c.hist) \in Positions(c) \cup {0}
  BY <1>1 DEF Snapped
<1>2. CASE Len(c.hist) \notin Positions(c) \cup {0}
  <2> DEFINE k0 == [pos |-> Len(c.hist), mem |-> c.rec]
             ks == {k \in c.ck : k.pos # d}
             e  == [hist |-> c.hist, kv |-> c.hist, rec |-> c.hist, ck |-> ks \cup {k0}]
  <2>1. /\ c \in Record /\ c.hist \in Text /\ c.ck \subseteq Snapshots /\ Len(c.hist) \in Nat
        /\ c.kv = c.hist /\ c.rec = c.hist
        /\ \A k \in c.ck : k.pos \in 0..Len(c.hist) /\ k.pos \in 1..MaxCtx /\ k.mem = Up(c.hist, k.pos)
    BY SoundIs
  <2>2. Snapped(c, d) = e
    BY <1>2, <2>1 DEF Snapped, Record
  <2>3. k0 \in Snapshots /\ k0.pos <= Len(c.hist) /\ k0.mem = Up(c.hist, k0.pos)
    <3>1. Len(c.hist) \in 1..MaxCtx
      BY <1>2, <2>1, ConstantsAre
    <3>2. Up(c.hist, Len(c.hist)) = c.hist
      BY <2>1, UpWhole DEF Text
    <3> QED
      BY <2>1, <3>1, <3>2 DEF Snapshots
  <2>4. /\ IsFiniteSet(c.ck) /\ Cardinality(c.ck) \in Nat /\ Cardinality(c.ck) <= MaxCk
    BY FS_CardinalityType DEF Sound
  <2>5. IsFiniteSet(ks) /\ Cardinality(ks) \in Nat /\ Cardinality(ks) < MaxCk
    <3>1. IsFiniteSet(ks) /\ Cardinality(ks) <= Cardinality(c.ck) /\ Cardinality(ks) \in Nat
      BY <2>4, FS_Subset, FS_CardinalityType
    <3>2. CASE Cardinality(c.ck) < MaxCk
      BY <2>4, <3>1, <3>2, ConstantsAre
    <3>3. CASE ~(Cardinality(c.ck) < MaxCk)
      <4>1. d \in Positions(c)
        BY <1>2, <3>3 DEF MayDrop
      <4>2. PICK k \in c.ck : k.pos = d
        BY <4>1 DEF Positions
      <4>3. k \notin ks /\ ks \subseteq c.ck /\ ks # c.ck
        BY <4>2
      <4>4. Cardinality(ks) < Cardinality(c.ck)
        BY <2>4, <4>3, FS_Subset, <3>1
      <4> QED
        BY <2>4, <3>1, <4>4, ConstantsAre
    <3> QED
      BY <3>2, <3>3
  <2>6. IsFiniteSet(ks \cup {k0}) /\ Cardinality(ks \cup {k0}) <= MaxCk
    <3>1. IsFiniteSet(ks \cup {k0}) /\ Cardinality(ks \cup {k0}) = IF k0 \in ks THEN Cardinality(ks) ELSE Cardinality(ks) + 1
      BY <2>5, FS_AddElement
    <3> HIDE DEF ks, k0
    <3>2. CASE k0 \in ks
      BY <2>5, <3>1, <3>2, ConstantsAre
    <3>3. CASE k0 \notin ks
      BY <2>5, <3>1, <3>3, ConstantsAre
    <3> QED
      BY <3>2, <3>3
  <2>7. ks \cup {k0} \subseteq Snapshots /\ \A k \in ks \cup {k0} : k.pos <= Len(c.hist) /\ k.mem = Up(c.hist, k.pos)
    BY <2>1, <2>3
  <2>8. Sound(e)
    <3> HIDE DEF ks, k0
    <3> QED
      BY <2>1, <2>6, <2>7 DEF Sound, Record, Whole
  <2> QED
    BY <2>2, <2>8
<1> QED
  BY <1>1, <1>2

-----------------------------------------------------------------------------
(* The invariant *)

Phases == {"idle", "choose", "park", "room", "copy", "rewind", "read", "decode"}

\* making room for a copy, or copying; for a read, or reading; for a round, or decoding
Copying == pc \in {"room", "copy"} /\ back = "copy"
Reading == pc \in {"room", "read"} /\ back = "read"
InRound == pc \in {"room", "decode"} /\ back = "decode"

\* a request has taken a slot and is not in flight yet
Starting == pc \in {"choose", "park", "rewind"} \/ Copying \/ Reading

WorkerTyped ==
  /\ pc \in Phases /\ back \in {"copy", "read", "decode"} /\ (pc \in {"copy", "read", "decode"} => back = pc)
  /\ cur \in Slots \cup {None} /\ prompt \in Prompts \cup {<<>>} /\ cuts \subseteq 1..MaxCtx
  /\ plan \in [kind : {"live", "restore", "fork parked", "fork slot"}, id : Nat, slot : Slots \cup {None},
               at : Nat, park : BOOLEAN]
  /\ want \in 0..MaxCtx
  /\ active \subseteq Slots /\ replies \in [Slots -> 0..MaxReplies]
  /\ asked \in 0..MaxRequests /\ failures \in 0..MaxPinFailures

MemoryTyped ==
  /\ conv \in [Stages -> [Slots -> Record]]
  /\ mapped \in [Stages -> [Slots -> 0..MaxCtx]]
  /\ parked \in [Stages -> SUBSET [id : Nat \ {0}, c : Record, on : Stages]] /\ age \in Nat

\* Every conversation is as it must be; parked ones have numbers of their own.
AllSound ==
  /\ \A g \in Stages, s \in Slots : Sound(conv[g][s])
  /\ \A g \in Stages : \A e \in parked[g] : e.id <= age /\ Sound(e.c)
  /\ \A d, e \in parked[1] : d.id = e.id => d = e

\* those of the entries es that reached stage g
Reached(es, g) == {e \in es : g <= e.on}

\* The stages hold the same, but for what a parking that threw left out and for the snapshots of a conversation
\* about to be replaced.
SameEverywhere ==
  /\ \A g \in Stages : parked[g] = Reached(parked[1], g)
  /\ \A g \in Stages, s \in Slots : conv[g][s] = conv[1][s] \/ (s = cur /\ Copying)

\* Whom the worker works for, and how far it is.
Hands ==
  /\ Starting => cur \in Slots \ active /\ prompt \in Prompts
  /\ Reading => Len(conv[1][cur].hist) < Len(prompt) /\ want = Cells(Target(Len(conv[1][cur].hist)) + Window)
  /\ InRound => cur \in active /\ replies[cur] < MaxReplies /\ want = Cells(Len(conv[1][cur].hist) + 1 + Window)

\* c can give the request the prefix it was promised.
Offers(c) == plan.at \in Positions(c) /\ plan.at <= Common(c.hist, prompt) /\ plan.at < Len(prompt)

\* Where the copy comes from is still there.
SourceThere ==
  /\ plan.kind = "restore" => \E e \in parked[1] : e.id = plan.id /\ plan.at = Reuse(e.c, prompt)
  /\ plan.kind = "fork parked" => \E e \in parked[1] : e.id = plan.id /\ Offers(e.c)
  /\ plan.kind = "fork slot" => plan.slot \in Slots \ (active \cup {cur}) /\ Offers(conv[1][plan.slot])

Promised ==
  /\ pc = "rewind" \/ (pc = "park" /\ plan.kind = "live") => plan.at = Reuse(conv[1][cur], prompt)
  /\ Copying => plan.kind # "live"
  /\ pc = "park" \/ Copying => SourceThere

\* Requests in flight have a window's room past their position, and the worker the room it asked for.
WindowMapped ==
  \A s \in active, g \in Stages : mapped[g][s] >= Min({MaxCtx, Len(conv[g][s].hist) + Window})

WantMapped == pc \in {"read", "decode"} => \A g \in Stages : mapped[g][cur] >= want

IInv ==
  /\ WorkerTyped /\ MemoryTyped /\ AllSound /\ SameEverywhere
  /\ Hands /\ Promised /\ WindowMapped /\ WantMapped

-----------------------------------------------------------------------------
(* What the steps share *)

LEMMA TargetIs ==
  ASSUME prompt \in Prompts, cuts \subseteq 1..MaxCtx, NEW n \in Nat, n < Len(prompt)
  PROVE  Target(n) \in Nat /\ n < Target(n) /\ Target(n) <= Len(prompt)
<1> DEFINE T == {Len(prompt)} \cup {c \in cuts : c > n /\ c < Len(prompt)}
<1>1. Len(prompt) \in Nat
  BY PromptText
<1>2. T \in SUBSET Nat /\ T # {} /\ Len(prompt) \in T /\ \A c \in T : n < c /\ c <= Len(prompt)
  <2>1. \A c \in cuts : c \in Nat
    BY ConstantsAre
  <2>2. Len(prompt) \in T
    OBVIOUS
  <2>3. ASSUME NEW c \in T PROVE c \in Nat /\ n < c /\ c <= Len(prompt)
    <3>1. CASE c = Len(prompt)
      BY <1>1, <3>1
    <3>2. CASE c \in cuts /\ c > n /\ c < Len(prompt)
      BY <1>1, <2>1, <3>2
    <3> QED
      BY <2>3, <3>1, <3>2
  <2> HIDE DEF T
  <2> QED
    BY <2>2, <2>3
<1>3. Target(n) = Min(T)
  BY DEF Target
<1> HIDE DEF T
<1>4. Min(T) \in T
  BY <1>2, MinIs
<1> QED
  BY <1>2, <1>3, <1>4

\* A prefix inside what a conversation shares with the prompt is one the prompt extends.
LEMMA OfferedStart ==
  ASSUME NEW h \in Text, NEW p \in Text, NEW n \in Nat \ {0}, n <= Common(h, p), n < Len(p)
  PROVE  Extends(Up(h, n), p) /\ Len(Up(h, n)) = n
<1> DEFINE k == Common(h, p)
           u == Up(h, n)
<1>1. Len(h) \in Nat /\ Len(p) \in Nat
  BY TextConcat
<1>2. k \in 0..Len(h) /\ k \in 0..Len(p) /\ Up(h, k) = Up(p, k)
  BY <1>1, CommonIs
<1> HIDE DEF k
<1>3. n \in 0..k /\ n \in 0..Len(h)
  BY <1>1, <1>2 DEF k
<1>4. u = Up(p, n)
  BY <1>2, <1>3, UpOfUp DEF Text
<1>5. u \in Seq(Tokens) /\ Len(u) = n
  BY <1>3, UpIs DEF Text
<1> HIDE DEF u
<1>6. u # <<>>
  BY <1>5, EmptySeq
<1>7. SubSeq(u, 1, Len(u)) = u
  BY <1>5, UpWhole DEF Up
<1>8. IsPrefix(u, p) /\ u # p
  BY <1>1, <1>4, <1>5, <1>7 DEF IsPrefix, Up
<1>9. Extends(u, p)
  BY <1>6, <1>8 DEF Extends, IsStrictPrefix
<1> QED
  BY <1>5, <1>9 DEF u

LEMMA EntryIs ==
  ASSUME NEW es, \A d, e \in es : d.id = e.id => d = e, NEW e \in es
  PROVE  EntryOf(es, e.id) = e
<1> DEFINE c == CHOOSE d \in es : d.id = e.id
<1>1. c \in es /\ c.id = e.id
  BY Zenon
<1>2. EntryOf(es, e.id) = c
  BY DEF EntryOf
<1> HIDE DEF c
<1> QED
  BY <1>1, <1>2

\* What parking conversation s can come to, also when it throws: at most one entry more, on the first stages.
ParkOf(s, keep) ==
  \/ \E k \in 0..NStages : Park(s, keep, k)
  \/ \E k \in 0..(NStages - 1) : ParkThrows(s, keep, k)

MadeRoom(s, keep) == Spared(parked[1], keep, conv[1][s])

ParkOutcome(s, keep, N) ==
  /\ N = {} \/ /\ ParkFits(MadeRoom(s, keep), conv[1][s])
               /\ \E n \in Stages : N = {[id |-> age + 1, c |-> conv[1][s], on |-> n]}
  /\ parked' = [g \in Stages |-> Reached(MadeRoom(s, keep) \cup N, g)]
  /\ age' \in {age, age + 1} /\ (N # {} => age' = age + 1)
  /\ failures' \in 0..MaxPinFailures

LEMMA StaysIs ==
  ASSUME MemoryTyped, AllSound, SameEverywhere, NEW g \in Stages, NEW es \in SUBSET parked[1]
  PROVE  StayOn(g, es) = Reached(es, g)
<1>1. parked[g] = Reached(parked[1], g) /\ \A d, e \in parked[1] : d.id = e.id => d = e
  BY DEF SameEverywhere, AllSound
<1> QED
  BY <1>1 DEF StayOn, Reached

LEMMA ParkEnds ==
  ASSUME MemoryTyped, AllSound, SameEverywhere, NEW s \in Slots, NEW keep \in Nat, ParkOf(s, keep),
         \A g \in Stages : conv[g][s] = conv[1][s],
         failures \in 0..MaxPinFailures
  PROVE  \E N : ParkOutcome(s, keep, N)
<1> DEFINE spared == MadeRoom(s, keep)
           new(n) == [id |-> age + 1, c |-> conv[1][s], on |-> n]
<1>1. spared \in SUBSET parked[1] /\ \A g \in Stages : StayOn(g, spared) = Reached(spared, g)
  <2>1. spared \in SUBSET parked[1]
    BY DEF MadeRoom, Spared, NotSuperseded, Younger
  <2> HIDE DEF spared
  <2> QED
    BY <2>1, StaysIs
<1>2. NStages \in Nat \ {0} /\ NStages \in Stages /\ MaxPinFailures \in Nat
  BY ConstantsAre DEF Stages
<1>3. CASE \E k \in 0..NStages : Park(s, keep, k)
  <2>1. PICK k \in 0..NStages : Park(s, keep, k)
    BY <1>3
  <2>2. CASE ParkFits(spared, conv[1][s])
    <3>1. /\ age' = age + 1 /\ (k < NStages => failures < MaxPinFailures)
          /\ failures' = IF k = NStages THEN failures ELSE failures + 1
          /\ parked' = [g \in Stages |-> IF k = NStages
                          THEN StayOn(g, spared) \cup {[id |-> age + 1, c |-> conv[g][s], on |-> NStages]}
                          ELSE StayOn(g, spared)]
      BY <2>1, <2>2 DEF Park, ParkedAt, MadeRoom
    <3>2. failures' \in 0..MaxPinFailures
      BY <1>2, <2>1, <3>1
    <3> DEFINE N == IF k = NStages THEN {new(NStages)} ELSE {}
    <3>3. ASSUME NEW g \in Stages
          PROVE  (IF k = NStages THEN StayOn(g, spared) \cup {[id |-> age + 1, c |-> conv[g][s], on |-> NStages]}
                  ELSE StayOn(g, spared)) = Reached(spared \cup N, g)
      <4>1. StayOn(g, spared) = Reached(spared, g) /\ conv[g][s] = conv[1][s] /\ g <= NStages
        BY <1>1 DEF Stages
      <4>2. Reached({new(NStages)}, g) = {new(NStages)}
        BY <4>1 DEF Reached
      <4>3. Reached(spared \cup {new(NStages)}, g) = Reached(spared, g) \cup Reached({new(NStages)}, g)
        <5> HIDE DEF spared, new
        <5> QED
          BY DEF Reached
      <4> HIDE DEF spared
      <4> QED
        BY <4>1, <4>2, <4>3
    <3>4. parked' = [g \in Stages |-> Reached(spared \cup N, g)]
      <4> HIDE DEF N, spared
      <4> QED
        BY <3>1, <3>3
    <3>5. N = {} \/ \E n \in Stages : N = {new(n)}
      BY <1>2
    <3> HIDE DEF N
    <3> QED
      BY <2>2, <3>1, <3>2, <3>4, <3>5 DEF ParkOutcome
  <2>3. CASE ~ParkFits(spared, conv[1][s])
    <3>1. age' = age /\ failures' = failures /\ parked' = [g \in Stages |-> StayOn(g, spared)]
      BY <2>1, <2>3 DEF Park, MadeRoom
    <3>2. parked' = [g \in Stages |-> Reached(spared \cup {}, g)]
      <4> HIDE DEF spared
      <4> QED
        BY <1>1, <3>1
    <3> QED
      BY <3>1, <3>2 DEF ParkOutcome
  <2> QED
    BY <2>2, <2>3
<1>4. CASE \E k \in 0..(NStages - 1) : ParkThrows(s, keep, k)
  <2>1. PICK k \in 0..(NStages - 1) : ParkThrows(s, keep, k)
    BY <1>4
  <2>2. /\ ParkFits(spared, conv[1][s]) /\ age' = age + 1
        /\ failures < MaxPinFailures /\ failures' = failures + 1
        /\ parked' = [g \in Stages |-> StayOn(g, spared)
                                         \cup {e \in {[id |-> age + 1, c |-> conv[g][s], on |-> k]} : g <= k}]
    BY <2>1 DEF ParkThrows, MadeRoom
  <2>3. failures' \in 0..MaxPinFailures
    BY <1>2, <2>2
  <2> DEFINE N == IF k = 0 THEN {} ELSE {new(k)}
  <2>4. ASSUME NEW g \in Stages
        PROVE  StayOn(g, spared) \cup {e \in {[id |-> age + 1, c |-> conv[g][s], on |-> k]} : g <= k}
                 = Reached(spared \cup N, g)
    <3>1. StayOn(g, spared) = Reached(spared, g) /\ conv[g][s] = conv[1][s] /\ g \in Nat /\ g >= 1
      BY <1>1 DEF Stages
    <3>2. {e \in {new(k)} : g <= k} = Reached(N, g)
      <4>1. new(k).on = k
        OBVIOUS
      <4>2. CASE k = 0
        BY <3>1, <4>2 DEF Reached
      <4>3. CASE k # 0
        BY <3>1, <4>1, <4>3 DEF Reached
      <4> QED
        BY <4>2, <4>3
    <3> HIDE DEF N, spared
    <3>3. Reached(spared \cup N, g) = Reached(spared, g) \cup Reached(N, g)
      BY DEF Reached
    <3> QED
      BY <3>1, <3>2, <3>3
  <2>5. parked' = [g \in Stages |-> Reached(spared \cup N, g)]
    <3> HIDE DEF N, spared
    <3> QED
      BY <2>2, <2>4
  <2>6. N = {} \/ \E n \in Stages : N = {new(n)}
    BY <1>2, <2>1 DEF Stages
  <2> HIDE DEF N
  <2> QED
    BY <2>2, <2>3, <2>5, <2>6 DEF ParkOutcome
<1> QED
  BY <1>3, <1>4 DEF ParkOf

\* The parked entries are as they must be.
ParkedSound ==
  /\ parked \in [Stages -> SUBSET [id : Nat \ {0}, c : Record, on : Stages]] /\ age \in Nat
  /\ \A g \in Stages : \A e \in parked[g] : e.id <= age /\ Sound(e.c)
  /\ \A d, e \in parked[1] : d.id = e.id => d = e
  /\ \A g \in Stages : parked[g] = Reached(parked[1], g)

LEMMA ParkedIsSound ==
  ASSUME MemoryTyped, AllSound, SameEverywhere
  PROVE  ParkedSound
BY DEF MemoryTyped, AllSound, SameEverywhere, ParkedSound

\* Parking a conversation all stages have alike: the entries stay sound, numbered and alike where they are, and
\* the one protected stays.
LEMMA ParkKeeps ==
  ASSUME MemoryTyped, AllSound, NEW s \in Slots, NEW keep \in Nat, NEW N, ParkOutcome(s, keep, N)
  PROVE  /\ ParkedSound'
         /\ parked'[1] = MadeRoom(s, keep) \cup N
         /\ \A e \in parked[1] : e.id = keep => e \in parked'[1]
<1> DEFINE spared == MadeRoom(s, keep)
           now    == spared \cup N
<1>1. /\ parked \in [Stages -> SUBSET [id : Nat \ {0}, c : Record, on : Stages]] /\ age \in Nat
      /\ conv[1][s] \in Record /\ Sound(conv[1][s]) /\ 1 \in Stages
      /\ \A e \in parked[1] : e.id <= age /\ Sound(e.c)
      /\ \A d, e \in parked[1] : d.id = e.id => d = e
  BY ConstantsAre DEF MemoryTyped, AllSound
<1>2. \A e \in parked[1] : e.id = keep => e \in spared
  BY DEF MadeRoom, Spared, NotSuperseded, Younger
<1>3. spared \in SUBSET parked[1]
  BY DEF MadeRoom, Spared, NotSuperseded, Younger
<1> HIDE DEF spared
<1>4. /\ parked' = [g \in Stages |-> Reached(now, g)]
      /\ age' \in {age, age + 1} /\ (N # {} => age' = age + 1)
      /\ N = {} \/ \E n \in Stages : N = {[id |-> age + 1, c |-> conv[1][s], on |-> n]}
  BY DEF ParkOutcome, spared
<1>5. /\ N \in SUBSET [id : Nat \ {0}, c : Record, on : Stages]
      /\ \A e \in N : e.id = age + 1 /\ Sound(e.c)
      /\ \A d, e \in N : d = e
  <2>1. CASE N = {}
    BY <2>1
  <2>2. CASE N # {}
    <3>1. PICK n \in Stages : N = {[id |-> age + 1, c |-> conv[1][s], on |-> n]}
      BY <1>4, <2>2
    <3> QED
      BY <1>1, <3>1
  <2> QED
    BY <2>1, <2>2
<1>6. age' \in Nat /\ age <= age'
  BY <1>1, <1>4
<1>7. now \in SUBSET [id : Nat \ {0}, c : Record, on : Stages]
  BY <1>1, <1>3, <1>5
<1>8. \A e \in now : e.id <= age' /\ Sound(e.c)
  <2>1. ASSUME NEW e \in now PROVE e.id <= age' /\ Sound(e.c)
    <3>1. CASE e \in N
      BY <1>1, <1>4, <1>5, <3>1
    <3>2. CASE e \in spared
      <4>1. e \in parked[1] /\ e.id \in Nat /\ e.id <= age /\ Sound(e.c)
        BY <1>1, <1>3, <3>2
      <4> QED
        BY <1>1, <1>6, <4>1
    <3> QED
      BY <3>1, <3>2
  <2> QED
    BY <2>1
<1>9. \A d, e \in now : d.id = e.id => d = e
  <2>1. \A e \in spared : e.id \in Nat /\ e.id # age + 1
    BY <1>1, <1>3
  <2> QED
    BY <1>1, <1>3, <1>5, <2>1
<1>10. parked'[1] = now
  <2>1. parked'[1] = Reached(now, 1)
    BY <1>1, <1>4
  <2>2. \A e \in now : 1 <= e.on
    BY <1>7 DEF Stages
  <2> HIDE DEF now
  <2> QED
    BY <2>1, <2>2 DEF Reached
<1>11. \A g \in Stages : parked'[g] = Reached(now, g) /\ Reached(now, g) \subseteq now
  BY <1>4 DEF Reached
<1> HIDE DEF now
<1>12. ParkedSound'
  <2>1. parked' \in [Stages -> SUBSET [id : Nat \ {0}, c : Record, on : Stages]]
    BY <1>4, <1>7, <1>11
  <2>2. \A g \in Stages : \A e \in parked'[g] : e.id <= age' /\ Sound(e.c)
    BY <1>8, <1>11
  <2>3. \A d, e \in parked'[1] : d.id = e.id => d = e
    BY <1>9, <1>10
  <2>4. \A g \in Stages : parked'[g] = Reached(parked'[1], g)
    BY <1>10, <1>11
  <2> QED
    BY <1>6, <2>1, <2>2, <2>3, <2>4 DEF ParkedSound
<1> QED
  BY <1>2, <1>10, <1>12 DEF now, spared

\* What select_conversation decides can be kept: the prefix promised is there.
LEMMA ChoiceIs ==
  ASSUME WorkerTyped, MemoryTyped, AllSound, SameEverywhere, cur \in Slots, prompt \in Prompts
  PROVE  /\ Choice \in [kind : {"live", "restore", "fork parked", "fork slot"}, id : Nat, slot : Slots \cup {None},
                        at : Nat, park : BOOLEAN]
         /\ Choice.kind = "live" => Choice.at = Reuse(conv[1][cur], prompt)
         /\ Choice.kind = "restore" => \E e \in parked[1] : e.id = Choice.id /\ Choice.at = Reuse(e.c, prompt)
         /\ Choice.kind = "fork parked" =>
              \E e \in parked[1] : /\ e.id = Choice.id /\ Choice.at \in Positions(e.c)
                                   /\ Choice.at <= Common(e.c.hist, prompt) /\ Choice.at < Len(prompt)
         /\ Choice.kind = "fork slot" =>
              /\ Choice.slot \in Slots \ (active \cup {cur})
              /\ Choice.at \in Positions(conv[1][Choice.slot])
              /\ Choice.at <= Common(conv[1][Choice.slot].hist, prompt) /\ Choice.at < Len(prompt)
<1> DEFINE es    == parked[1]
           live  == Reuse(conv[1][cur], prompt)
           ids   == {e.id : e \in es}
           fromP(i) == Reuse(EntryOf(es, i).c, prompt)
           bestI == {i \in ids : fromP(i) > live /\ \A j \in ids : fromP(j) <= fromP(i)}
           i     == IF bestI = {} THEN None ELSE Min(bestI)
           bestP == IF i = None THEN live ELSE fromP(i)
           ext   == i # None /\ Extends(EntryOf(es, i).c.hist, prompt)
           fromS(s) == Reuse(conv[1][s], prompt)
           free  == {q \in Slots \ (active \cup {cur}) : ~Extends(conv[1][q].hist, prompt)}
           bestS == {s \in free : fromS(s) > bestP /\ \A q \in free : fromS(q) <= fromS(s)}
           s     == IF bestS = {} THEN None ELSE Min(bestS)
           forkS == ForkMin > 0 /\ s # None /\ fromS(s) >= ForkMin
           takeP == ~forkS /\ i # None /\ (ext \/ (ForkMin > 0 /\ bestP >= ForkMin))
           lost  == Len(conv[1][cur].hist) - (IF forkS \/ takeP THEN 0 ELSE live)
           kind  == IF forkS THEN "fork slot" ELSE IF ~takeP THEN "live" ELSE IF ext THEN "restore" ELSE "fork parked"
           id    == IF takeP THEN i ELSE 0
           slot  == IF forkS THEN s ELSE None
           at    == IF forkS THEN fromS(s) ELSE IF takeP THEN bestP ELSE live
           pk    == lost >= ParkMin /\ ParkLimit > 0
<1>1. Choice = [kind |-> kind, id |-> id, slot |-> slot, at |-> at, park |-> pk]
  BY DEF Choice, FirstBest
<1>2. /\ 1 \in Stages /\ ForkMin \in Nat /\ Slots \subseteq Nat /\ es \in SUBSET [id : Nat \ {0}, c : Record, on : Stages]
      /\ \A q \in Slots : Sound(conv[1][q])
      /\ \A e \in es : Sound(e.c)
      /\ \A d, e \in es : d.id = e.id => d = e
  BY ConstantsAre, ParkingAssumption DEF MemoryTyped, AllSound
<1>3. live \in Nat /\ \A q \in Slots : fromS(q) \in Nat
  BY <1>2, ReuseIs
<1>4. \A j \in ids : j \in Nat /\ \E e \in es : e.id = j /\ EntryOf(es, j) = e
  <2>1. SUFFICES ASSUME NEW j \in ids PROVE j \in Nat /\ \E e \in es : e.id = j /\ EntryOf(es, j) = e
    OBVIOUS
  <2>2. PICK e \in es : e.id = j
    BY <2>1
  <2>3. e.id \in Nat
    BY <1>2
  <2>4. EntryOf(es, e.id) = e
    <3> HIDE DEF es
    <3> QED
      BY <1>2, EntryIs
  <2> QED
    BY <2>2, <2>3, <2>4
<1>5. \A j \in ids : fromP(j) \in Nat
  <2>1. SUFFICES ASSUME NEW j \in ids PROVE fromP(j) \in Nat
    OBVIOUS
  <2>2. PICK e \in es : EntryOf(es, j) = e
    BY <1>4
  <2> QED
    BY <1>2, <2>2, ReuseIs
<1>6. i # None => i \in ids /\ fromP(i) > live
  <2>1. ASSUME bestI # {} PROVE Min(bestI) \in bestI
    <3>1. bestI \in SUBSET Nat
      BY <1>4
    <3> HIDE DEF bestI
    <3> QED
      BY <2>1, <3>1, MinIs
  <2> HIDE DEF fromP, live, ids
  <2> QED
    BY <2>1
<1>7. bestP \in Nat /\ bestP >= live
  <2> HIDE DEF fromP, live, ids, i
  <2> QED
    BY <1>3, <1>5, <1>6
<1>8. s # None => s \in free /\ fromS(s) > bestP
  <2>1. ASSUME bestS # {} PROVE Min(bestS) \in bestS
    <3>1. bestS \in SUBSET Nat
      BY <1>2
    <3> HIDE DEF bestS
    <3> QED
      BY <2>1, <3>1, MinIs
  <2> HIDE DEF fromS, bestP, free
  <2> QED
    BY <2>1
<1>9. ASSUME forkS
      PROVE  /\ s \in Slots \ (active \cup {cur}) /\ fromS(s) \in Nat
             /\ fromS(s) \in Positions(conv[1][s]) /\ fromS(s) <= Common(conv[1][s].hist, prompt) /\ fromS(s) < Len(prompt)
  <2>1. s \in Slots \ (active \cup {cur}) /\ ~Extends(conv[1][s].hist, prompt) /\ fromS(s) >= ForkMin /\ ForkMin > 0
    <3> HIDE DEF s, fromS
    <3> QED
      BY <1>8, <1>9
  <2>2. PICK q \in Slots : q = s
    BY <2>1
  <2> HIDE DEF s
  <2>3. Sound(conv[1][q]) /\ Reuse(conv[1][q], prompt) # 0
    BY <1>2, <1>3, <2>1, <2>2
  <2>4. /\ Reuse(conv[1][q], prompt) \in Nat /\ Reuse(conv[1][q], prompt) < Len(prompt)
        /\ ~Extends(conv[1][q].hist, prompt) => /\ Reuse(conv[1][q], prompt) \in Positions(conv[1][q])
                                                /\ Reuse(conv[1][q], prompt) <= Common(conv[1][q].hist, prompt)
    BY <2>3, ReuseIs
  <2> QED
    BY <2>1, <2>2, <2>4
<1>10. ASSUME takeP
       PROVE  \E e \in es : /\ e.id = i /\ at = Reuse(e.c, prompt)
                            /\ ~ext => /\ at \in Positions(e.c) /\ at <= Common(e.c.hist, prompt) /\ at < Len(prompt)
  <2>1. i # None /\ ~forkS
    BY <1>10
  <2>2. i \in ids /\ fromP(i) > live
    <3> HIDE DEF i, fromP
    <3> QED
      BY <1>6, <2>1
  <2>3. at = fromP(i)
    <3> HIDE DEF i, fromP, forkS, live, fromS, takeP
    <3> QED
      BY <1>10, <2>1
  <2>4. PICK e \in es : e.id = i /\ EntryOf(es, i) = e
    <3> HIDE DEF i, ids, es
    <3> QED
      BY <1>4, <2>2
  <2>5. at = Reuse(e.c, prompt)
    <3> HIDE DEF at, i
    <3> QED
      BY <2>3, <2>4
  <2>6. ~ext => ~Extends(e.c.hist, prompt)
    <3> HIDE DEF i
    <3> QED
      BY <2>1, <2>4
  <2>7. Reuse(e.c, prompt) # 0
    <3> HIDE DEF i
    <3> QED
      BY <1>3, <2>2, <2>4
  <2>8. Sound(e.c)
    BY <1>2
  <2>9. /\ Reuse(e.c, prompt) < Len(prompt)
        /\ ~Extends(e.c.hist, prompt) => Reuse(e.c, prompt) \in Positions(e.c) /\ Reuse(e.c, prompt) <= Common(e.c.hist, prompt)
    BY <2>7, <2>8, ReuseIs
  <2> HIDE DEF at, i, ext, es
  <2> QED
    BY <2>4, <2>5, <2>6, <2>9
<1>11. at \in Nat
  <2> HIDE DEF forkS, takeP, fromS, bestP, live, s
  <2> QED
    BY <1>3, <1>7, <1>9
<1>12. id \in Nat
  <2>1. takeP => i \in Nat
    <3>1. takeP => i # None
      OBVIOUS
    <3> HIDE DEF i, takeP, ids, fromP
    <3> QED
      BY <1>4, <1>6, <3>1
  <2> HIDE DEF takeP, i
  <2> QED
    BY <2>1
<1>13. slot \in Slots \cup {None}
  <2> HIDE DEF s, forkS, fromS
  <2> QED
    BY <1>9
<1>14. pk \in BOOLEAN /\ kind \in {"live", "restore", "fork parked", "fork slot"}
  <2> HIDE DEF lost, forkS, takeP, ext
  <2> QED
    OBVIOUS
<1>15. /\ kind = "live" => at = live
       /\ kind = "restore" => \E e \in es : e.id = id /\ at = Reuse(e.c, prompt)
       /\ kind = "fork parked" => \E e \in es : /\ e.id = id /\ at \in Positions(e.c)
                                                /\ at <= Common(e.c.hist, prompt) /\ at < Len(prompt)
  <2>1. kind = "live" => at = live
    <3> HIDE DEF forkS, takeP, live, bestP, fromS, ext
    <3> QED
      OBVIOUS
  <2>2. kind \in {"restore", "fork parked"} => takeP /\ id = i /\ (kind = "fork parked" => ~ext)
    <3> HIDE DEF forkS, takeP, i, ext
    <3> QED
      OBVIOUS
  <2> HIDE DEF kind, at, id, takeP, ext, i, live, es
  <2> QED
    BY <1>10, <2>1, <2>2
<1>16. kind = "fork slot" => /\ slot \in Slots \ (active \cup {cur})
                             /\ at \in Positions(conv[1][slot])
                             /\ at <= Common(conv[1][slot].hist, prompt) /\ at < Len(prompt)
  <2>1. kind = "fork slot" => forkS /\ slot = s /\ at = fromS(s)
    <3> HIDE DEF forkS, takeP, live, bestP, fromS, ext, s
    <3> QED
      OBVIOUS
  <2> HIDE DEF kind, at, forkS, fromS, s, slot
  <2> QED
    BY <1>9, <2>1
<1> HIDE DEF kind, id, slot, at, pk
<1> QED
  BY <1>1, <1>11, <1>12, <1>13, <1>14, <1>15, <1>16

LEMMA MemoryStill ==
  ASSUME MemoryTyped, AllSound, UNCHANGED memory
  PROVE  MemoryTyped' /\ AllSound'
BY DEF MemoryTyped, AllSound, memory

\* One conversation is replaced, on every stage by a sound one.
LEMMA OneReplaced ==
  ASSUME MemoryTyped, AllSound, NEW s \in Slots, NEW D, \A g \in Stages : Sound(D[g]),
         conv' = [g \in Stages |-> [conv[g] EXCEPT ![s] = D[g]]]
  PROVE  /\ conv' \in [Stages -> [Slots -> Record]]
         /\ \A g \in Stages, q \in Slots : Sound(conv'[g][q])
         /\ \A g \in Stages : conv'[g][s] = D[g] /\ \A q \in Slots \ {s} : conv'[g][q] = conv[g][q]
<1>1. conv \in [Stages -> [Slots -> Record]] /\ \A g \in Stages : D[g] \in Record
  BY SoundIs DEF MemoryTyped
<1>2. \A g \in Stages : conv'[g][s] = D[g] /\ \A q \in Slots \ {s} : conv'[g][q] = conv[g][q]
  BY <1>1
<1>3. conv' \in [Stages -> [Slots -> Record]]
  BY <1>1
<1>4. \A g \in Stages, q \in Slots : Sound(conv'[g][q])
  BY <1>2 DEF AllSound
<1> QED
  BY <1>2, <1>3, <1>4

\* Shrinking the context of a slot takes nothing from the others.
LEMMA ShrunkIs ==
  ASSUME MemoryTyped, NEW s \in Slots, mapped' = Shrunk(s)
  PROVE  /\ mapped' \in [Stages -> [Slots -> 0..MaxCtx]]
         /\ \A g \in Stages, q \in Slots \ {s} : mapped'[g][q] = mapped[g][q]
<1>1. \A g \in Stages : mapped[g] \in [Slots -> 0..MaxCtx] /\ mapped[g][s] \in 0..MaxCtx
  BY DEF MemoryTyped
<1>2. \A g \in Stages : Min({mapped[g][s], Baseline}) \in 0..MaxCtx
  <2>1. SUFFICES ASSUME NEW g \in Stages PROVE Min({mapped[g][s], Baseline}) \in 0..MaxCtx
    OBVIOUS
  <2>2. PICK m \in 0..MaxCtx : m = mapped[g][s]
    BY <1>1
  <2>3. Min({m, Baseline}) \in Nat /\ Min({m, Baseline}) <= Baseline
    BY <2>2, ConstantsAre, MinOfTwo
  <2> QED
    BY <2>2, <2>3, ConstantsAre
<1> QED
  BY <1>1, <1>2 DEF Shrunk

\* What the request needs to see of the windows of those in flight.
LEMMA WindowsStill ==
  ASSUME WindowMapped, active' \subseteq active,
         \A s \in active', g \in Stages : conv'[g][s] = conv[g][s] /\ mapped'[g][s] >= mapped[g][s],
         \A s \in active, g \in Stages : /\ mapped[g][s] \in Int /\ mapped'[g][s] \in Int
                                          /\ Min({MaxCtx, Len(conv[g][s].hist) + Window}) \in Int
  PROVE  WindowMapped'
BY DEF WindowMapped

LEMMA WindowIs ==
  ASSUME MemoryTyped, AllSound, NEW s \in Slots, NEW g \in Stages
  PROVE  /\ Len(conv[g][s].hist) \in Nat /\ Min({MaxCtx, Len(conv[g][s].hist) + Window}) \in Nat
         /\ mapped[g][s] \in 0..MaxCtx
<1>1. Len(conv[g][s].hist) \in Nat
  BY SoundIs DEF AllSound
<1>2. mapped[g][s] \in 0..MaxCtx
  BY DEF MemoryTyped
<1>3. Len(conv[g][s].hist) + Window \in Nat /\ MaxCtx \in Nat
  BY <1>1, ConstantsAre
<1> QED
  BY <1>1, <1>2, <1>3, MinOfTwo

\* The source of a copy stays when its entry and its slot do.
LEMMA SourceStays ==
  ASSUME SourceThere, UNCHANGED <<plan, prompt, cur, active>>,
         \A e \in parked[1] : e.id = plan.id => e \in parked'[1],
         plan.kind = "fork slot" => conv'[1][plan.slot] = conv[1][plan.slot]
  PROVE  SourceThere'
<1>1. \A c : Offers(c) => Offers(c)'
  BY DEF Offers
<1>2. ASSUME plan.kind = "fork slot" PROVE plan'.slot \in Slots \ (active' \cup {cur'}) /\ Offers(conv[1][plan.slot])'
  <2>1. PICK c : c = conv[1][plan.slot]
    OBVIOUS
  <2>2. Offers(c)' /\ conv'[1][plan'.slot] = c
    BY <1>1, <1>2, <2>1 DEF SourceThere
  <2> QED
    BY <1>2, <2>2 DEF SourceThere, Offers
<1>3. ASSUME plan.kind = "restore" PROVE \E e \in parked'[1] : e.id = plan'.id /\ plan'.at = Reuse(e.c, prompt')
  BY <1>3 DEF SourceThere
<1>4. ASSUME plan.kind = "fork parked" PROVE \E e \in parked'[1] : e.id = plan'.id /\ Offers(e.c)'
  <2>1. PICK e \in parked[1] : e.id = plan.id /\ Offers(e.c)
    BY <1>4 DEF SourceThere
  <2>2. PICK c : c = e.c
    OBVIOUS
  <2>3. Offers(c)'
    BY <1>1, <2>1, <2>2
  <2>4. Offers(e.c)'
    BY <2>2, <2>3 DEF Offers
  <2> QED
    BY <2>1, <2>4
<1> QED
  BY <1>2, <1>3, <1>4 DEF SourceThere

-----------------------------------------------------------------------------
(* The steps *)

LEMMA InitInv == Init => IInv
<1> SUFFICES ASSUME Init PROVE IInv
  OBVIOUS
<1>1. WorkerTyped
  BY ConstantsAre, ParkingAssumption DEF Init, WorkerTyped, Phases, NoPlan
<1>2. MemoryTyped
  <2>1. Empty \in Record
    BY EmptySound DEF Sound
  <2> QED
    BY <2>1, ConstantsAre DEF Init, MemoryTyped
<1>3. AllSound
  <2>1. \A g \in Stages, s \in Slots : conv[g][s] = Empty
    BY DEF Init
  <2>2. \A g \in Stages : parked[g] = {}
    BY DEF Init
  <2> QED
    BY <2>1, <2>2, EmptySound, ConstantsAre DEF AllSound
<1>4. SameEverywhere
  <2>1. \A g \in Stages : parked[g] = {} /\ \A s \in Slots : conv[g][s] = Empty
    BY DEF Init
  <2>2. \A g \in Stages : Reached({}, g) = {}
    BY DEF Reached
  <2> QED
    BY <2>1, <2>2, ConstantsAre DEF SameEverywhere
<1>5. Hands /\ Promised /\ WindowMapped /\ WantMapped
  BY DEF Init, Hands, Promised, WindowMapped, WantMapped, Starting, Copying, Reading, InRound
<1> QED
  BY <1>1, <1>2, <1>3, <1>4, <1>5 DEF IInv

LEMMA TakeInv ==
  ASSUME IInv, NEW p \in Prompts, Take(p)
  PROVE  IInv'
<1>1. /\ pc = "idle" /\ pc' = "choose" /\ asked < MaxRequests /\ asked' = asked + 1
      /\ prompt' = p /\ cuts' \in Cuts /\ UNCHANGED <<plan, want, back, memory, active, replies, failures>>
  BY DEF Take
<1>2. cur' \in Slots \ active
  BY DEF Take
<1>3. WorkerTyped'
  <2>1. cuts' \subseteq 1..MaxCtx
    <3>1. \A c \in Cuts : c \subseteq 1..MaxCtx
      BY ParkingAssumption
    <3> QED
      BY <1>1, <3>1
  <2>2. asked' \in 0..MaxRequests
    <3>1. asked \in 0..MaxRequests
      BY DEF IInv, WorkerTyped
    <3> QED
      BY <1>1, <3>1, ConstantsAre
  <2> QED
    BY <1>1, <1>2, <2>1, <2>2 DEF IInv, WorkerTyped, Phases
<1>4. MemoryTyped' /\ AllSound'
  BY <1>1, MemoryStill DEF IInv
<1>5. SameEverywhere'
  BY <1>1 DEF IInv, SameEverywhere, Copying, memory
<1>6. Hands' /\ Promised' /\ WantMapped'
  BY <1>1, <1>2 DEF Hands, Promised, WantMapped, Starting, Copying, Reading, InRound
<1>7. WindowMapped'
  BY <1>1 DEF IInv, WindowMapped, memory
<1> QED
  BY <1>3, <1>4, <1>5, <1>6, <1>7 DEF IInv

LEMMA ChooseInv ==
  ASSUME IInv, Choose
  PROVE  IInv'
<1>1. /\ pc = "choose" /\ plan' = Choice
      /\ UNCHANGED <<cur, prompt, cuts, memory, active, replies, asked, failures>>
      /\ \/ pc' = "park" /\ UNCHANGED <<want, back>>
         \/ plan'.kind = "live" /\ pc' = "rewind" /\ UNCHANGED <<want, back>>
         \/ plan'.kind # "live" /\ pc' = "room" /\ want' = Cells(plan'.at + Window) /\ back' = "copy"
  BY DEF Choose, GoOn, Ensure
<1>2. cur \in Slots \ active /\ prompt \in Prompts
  BY <1>1 DEF IInv, Hands, Starting
<1>3. /\ plan' \in [kind : {"live", "restore", "fork parked", "fork slot"}, id : Nat, slot : Slots \cup {None},
                    at : Nat, park : BOOLEAN]
      /\ plan'.kind = "live" => plan'.at = Reuse(conv[1][cur], prompt)
      /\ plan'.kind = "restore" => \E e \in parked[1] : e.id = plan'.id /\ plan'.at = Reuse(e.c, prompt)
      /\ plan'.kind = "fork parked" =>
           \E e \in parked[1] : /\ e.id = plan'.id /\ plan'.at \in Positions(e.c)
                                /\ plan'.at <= Common(e.c.hist, prompt) /\ plan'.at < Len(prompt)
      /\ plan'.kind = "fork slot" =>
           /\ plan'.slot \in Slots \ (active \cup {cur})
           /\ plan'.at \in Positions(conv[1][plan'.slot])
           /\ plan'.at <= Common(conv[1][plan'.slot].hist, prompt) /\ plan'.at < Len(prompt)
  BY <1>1, <1>2, ChoiceIs DEF IInv
<1>4. want' \in 0..MaxCtx
  <2>1. plan'.at \in Nat
    BY <1>3
  <2>2. plan'.at + Window \in Nat
    BY <2>1, ConstantsAre
  <2>3. Cells(plan'.at + Window) \in 0..MaxCtx
    BY <2>2, CellsIs
  <2> QED
    BY <1>1, <2>3 DEF IInv, WorkerTyped
<1>5. WorkerTyped'
  BY <1>1, <1>3, <1>4 DEF IInv, WorkerTyped, Phases
<1>6. MemoryTyped' /\ AllSound'
  BY <1>1, MemoryStill DEF IInv
<1>7. SameEverywhere'
  BY <1>1 DEF IInv, SameEverywhere, Copying, memory
<1>8. Hands' /\ WantMapped'
  BY <1>1, <1>2 DEF IInv, WorkerTyped, Hands, WantMapped, Starting, Copying, Reading, InRound
<1>9. Promised'
  <2>1. conv' = conv /\ parked' = parked
    BY <1>1 DEF memory
  <2>2. (pc' = "rewind" \/ (pc' = "park" /\ plan'.kind = "live")) => plan'.at = Reuse(conv[1][cur], prompt)
    BY <1>1, <1>3
  <2>3. Copying' => plan'.kind # "live"
    BY <1>1 DEF Copying
  <2> HIDE DEF Choice
  <2> QED
    BY <1>1, <1>3, <2>1, <2>2, <2>3, Zenon DEF Promised, SourceThere, Offers
<1>10. WindowMapped'
  BY <1>1 DEF IInv, WindowMapped, memory
<1> QED
  BY <1>5, <1>6, <1>7, <1>8, <1>9, <1>10 DEF IInv

LEMMA ParkLiveInv ==
  ASSUME IInv, ParkLive
  PROVE  IInv'
<1>1. PICK k \in 0..NStages :
        /\ Park(cur, plan.id, k)
        /\ conv' = IF plan.kind = "live" THEN conv
                   ELSE [g \in Stages |-> IF g <= k THEN [conv[g] EXCEPT ![cur].ck = {}] ELSE conv[g]]
  BY DEF ParkLive
<1>2. /\ pc = "park" /\ UNCHANGED <<cur, prompt, cuts, plan, mapped, active, replies, asked>>
      /\ \/ plan.kind = "live" /\ pc' = "rewind" /\ UNCHANGED <<want, back>>
         \/ plan.kind # "live" /\ pc' = "room" /\ want' = Cells(plan.at + Window) /\ back' = "copy"
  BY DEF ParkLive, GoOn, Ensure
<1>3. /\ cur \in Slots \ active /\ prompt \in Prompts /\ plan.id \in Nat /\ plan.at \in Nat /\ 1 \in Stages
      /\ failures \in 0..MaxPinFailures
      /\ \A g \in Stages, s \in Slots : conv[g][s] = conv[1][s]
  BY <1>2, ConstantsAre DEF IInv, Hands, Starting, WorkerTyped, SameEverywhere, Copying
<1>4. ParkedSound' /\ failures' \in 0..MaxPinFailures /\ \A e \in parked[1] : e.id = plan.id => e \in parked'[1]
  <2>1. ParkOf(cur, plan.id)
    BY <1>1 DEF ParkOf
  <2>2. PICK N : ParkOutcome(cur, plan.id, N)
    BY <1>3, <2>1, ParkEnds DEF IInv
  <2>3. failures' \in 0..MaxPinFailures
    BY <2>2 DEF ParkOutcome
  <2> QED
    BY <1>3, <2>2, <2>3, ParkKeeps DEF IInv
<1>5. /\ conv' \in [Stages -> [Slots -> Record]]
      /\ \A g \in Stages, q \in Slots : Sound(conv'[g][q])
      /\ \A g \in Stages, q \in Slots \ {cur} : conv'[g][q] = conv[g][q]
      /\ plan.kind = "live" => conv' = conv
      /\ \A g \in Stages : conv'[g][cur].hist = conv[g][cur].hist
  <2>1. CASE plan.kind = "live"
    BY <1>1, <1>3, <2>1 DEF IInv, MemoryTyped, AllSound
  <2>2. CASE plan.kind # "live"
    <3> DEFINE D == [g \in Stages |-> IF g <= k THEN [conv[g][cur] EXCEPT !.ck = {}] ELSE conv[g][cur]]
    <3>1. conv \in [Stages -> [Slots -> Record]] /\ \A g \in Stages : Sound(conv[g][cur]) /\ conv[g][cur] \in Record
      BY <1>3 DEF IInv, MemoryTyped, AllSound
    <3>2. \A g \in Stages : Sound([conv[g][cur] EXCEPT !.ck = {}])
      BY <3>1, ClearedSound
    <3>3. \A g \in Stages : Sound(D[g]) /\ D[g].hist = conv[g][cur].hist
      BY <3>1, <3>2 DEF Record
    <3>4. conv' = [g \in Stages |-> [conv[g] EXCEPT ![cur] = D[g]]]
      <4>1. conv' = [g \in Stages |-> IF g <= k THEN [conv[g] EXCEPT ![cur].ck = {}] ELSE conv[g]]
        BY <1>1, <2>2
      <4>2. ASSUME NEW g \in Stages
            PROVE  (IF g <= k THEN [conv[g] EXCEPT ![cur].ck = {}] ELSE conv[g]) = [conv[g] EXCEPT ![cur] = D[g]]
        BY <1>3, <3>1
      <4> HIDE DEF D
      <4> QED
        BY <4>1, <4>2
    <3> HIDE DEF D
    <3>5. /\ conv' \in [Stages -> [Slots -> Record]]
          /\ \A g \in Stages, q \in Slots : Sound(conv'[g][q])
          /\ \A g \in Stages : conv'[g][cur] = D[g] /\ \A q \in Slots \ {cur} : conv'[g][q] = conv[g][q]
      BY <1>3, <3>3, <3>4, OneReplaced DEF IInv
    <3> QED
      BY <2>2, <3>3, <3>5
  <2> QED
    BY <2>1, <2>2
<1>6. WorkerTyped'
  <2>1. Cells(plan.at + Window) \in 0..MaxCtx
    BY <1>3, ConstantsAre, CellsIs
  <2> QED
    BY <1>2, <1>3, <1>4, <2>1 DEF IInv, WorkerTyped, Phases
<1>7. MemoryTyped' /\ AllSound'
  BY <1>2, <1>4, <1>5 DEF IInv, MemoryTyped, AllSound, ParkedSound
<1>8. SameEverywhere'
  <2>1. \A g \in Stages, s \in Slots : s = cur \/ conv'[g][s] = conv'[1][s]
    BY <1>3, <1>5
  <2>2. plan.kind = "live" => \A g \in Stages, s \in Slots : conv'[g][s] = conv'[1][s]
    BY <1>3, <1>5
  <2>3. plan.kind # "live" => Copying'
    BY <1>2 DEF Copying
  <2> QED
    BY <1>2, <1>4, <2>1, <2>2, <2>3 DEF SameEverywhere, ParkedSound
<1>9. Hands' /\ WantMapped'
  BY <1>2, <1>3 DEF Hands, WantMapped, Starting, Copying, Reading, InRound
<1>10. Promised'
  <2>1. SourceThere /\ (plan.kind = "live" => plan.at = Reuse(conv[1][cur], prompt))
    BY <1>2 DEF IInv, Promised
  <2>2. plan.kind = "fork slot" => conv'[1][plan.slot] = conv[1][plan.slot]
    BY <1>3, <1>5, <2>1 DEF SourceThere
  <2>3. SourceThere'
    BY <1>2, <1>4, <2>1, <2>2, SourceStays
  <2>4. ASSUME plan.kind = "live" PROVE pc' = "rewind" /\ ~Copying' /\ plan'.at = Reuse(conv[1][cur], prompt)'
    BY <1>2, <1>5, <2>1, <2>4 DEF Copying
  <2>5. ASSUME plan.kind # "live" PROVE pc' = "room" /\ plan'.kind # "live"
    BY <1>2, <2>5
  <2> QED
    BY <2>3, <2>4, <2>5 DEF Promised
<1>11. WindowMapped'
  <2>1. active \subseteq Slots
    BY DEF IInv, WorkerTyped
  <2>2. \A s \in active, g \in Stages : conv'[g][s] = conv[g][s]
    BY <1>3, <1>5, <2>1
  <2> QED
    BY <1>2, <2>2 DEF IInv, WindowMapped
<1> QED
  BY <1>6, <1>7, <1>8, <1>9, <1>10, <1>11 DEF IInv

\* While room is made, the worker has a slot.
LEMMA InRoom ==
  ASSUME IInv, pc = "room"
  PROVE  cur \in Slots /\ 1 \in Stages /\ (Copying \/ Reading \/ InRound)
BY ConstantsAre DEF IInv, WorkerTyped, Hands, Starting, Copying, Reading, InRound

LEMMA MapContextInv ==
  ASSUME IInv, MapContext
  PROVE  IInv'
<1>1. /\ pc = "room" /\ Lacking # {} /\ mapped' = [mapped EXCEPT ![Stage][cur] = want]
      /\ UNCHANGED <<pc, cur, prompt, cuts, plan, want, back, conv, parked, age, active, replies, asked, failures>>
  BY DEF MapContext, worker
<1>2. cur \in Slots
  BY <1>1, InRoom
<1>3. Stage \in Stages /\ mapped[Stage][cur] < want
  <2>1. Lacking \in SUBSET Nat
    BY ConstantsAre DEF Lacking, Stages
  <2>2. Stage \in Lacking
    BY <1>1, <2>1, MinIs DEF Stage
  <2> QED
    BY <2>2 DEF Lacking
<1> DEFINE h == Stage
<1> HIDE DEF h
<1>4. h \in Stages /\ mapped[h][cur] < want /\ mapped' = [mapped EXCEPT ![h][cur] = want]
  BY <1>1, <1>3 DEF h
<1>5. mapped \in [Stages -> [Slots -> 0..MaxCtx]] /\ want \in 0..MaxCtx
  BY DEF IInv, MemoryTyped, WorkerTyped
<1>6. mapped' \in [Stages -> [Slots -> 0..MaxCtx]] /\ \A g \in Stages, s \in Slots : mapped'[g][s] >= mapped[g][s]
  BY <1>2, <1>4, <1>5
<1>7. MemoryTyped' /\ AllSound'
  BY <1>1, <1>6 DEF IInv, MemoryTyped, AllSound
<1>8. WorkerTyped' /\ SameEverywhere'
  BY <1>1 DEF IInv, WorkerTyped, SameEverywhere, Copying
<1>9. Hands'
  BY <1>1 DEF IInv, Hands, Starting, Copying, Reading, InRound, Target
<1>10. Promised'
  BY <1>1 DEF IInv, Promised, SourceThere, Offers, Copying
<1>11. WindowMapped'
  <2>1. active \subseteq Slots
    BY DEF IInv, WorkerTyped
  <2>2. \A s \in active, g \in Stages : /\ mapped[g][s] \in Int /\ mapped'[g][s] \in Int
                                        /\ Min({MaxCtx, Len(conv[g][s].hist) + Window}) \in Int
    BY <1>5, <1>6, <2>1, WindowIs, ConstantsAre DEF IInv
  <2> QED
    BY <1>1, <1>6, <2>1, <2>2, WindowsStill DEF IInv
<1>12. WantMapped'
  BY <1>1 DEF WantMapped
<1> QED
  BY <1>7, <1>8, <1>9, <1>10, <1>11, <1>12 DEF IInv

LEMMA VictimIs ==
  ASSUME IInv, NEW s \in Slots, Victim(s)
  PROVE  /\ s \notin active /\ s # cur /\ cur \in Slots /\ 1 \in Stages /\ pc = "room"
         /\ back = "copy" /\ plan.kind = "fork slot" => s # plan.slot
         /\ \A g \in Stages : conv[g][s] = conv[1][s]
         /\ Restoring \in Nat /\ failures \in 0..MaxPinFailures
         /\ back = "copy" => Restoring = plan.id
<1>1. pc = "room" /\ s \in Victims
  BY DEF Victim
<1>2. /\ s \notin active /\ s # cur /\ cur \in Slots /\ 1 \in Stages
      /\ back = "copy" /\ plan.kind = "fork slot" => s # plan.slot
  BY <1>1, InRoom DEF Victims, Busy
<1> QED
  BY <1>1, <1>2 DEF IInv, SameEverywhere, WorkerTyped, Restoring

LEMMA EvictInv ==
  ASSUME IInv, Evict
  PROVE  IInv'
<1>1. PICK s \in Slots :
        /\ Victim(s)
        /\ IF WorthParking(s)
           THEN \E k \in 0..NStages : Park(s, Restoring, k)
           ELSE UNCHANGED <<parked, age, failures>>
        /\ conv' = OnEveryStage(s, LAMBDA c : Empty)
        /\ mapped' = Shrunk(s)
  BY DEF Evict
<1>2. pc = "room" /\ UNCHANGED <<pc, cur, prompt, cuts, plan, want, back, active, replies, asked>>
  BY <1>1 DEF Evict, Victim, worker
<1>3. /\ s \in Slots /\ s \notin active /\ s # cur /\ cur \in Slots /\ 1 \in Stages
      /\ back = "copy" /\ plan.kind = "fork slot" => s # plan.slot
  BY <1>1, VictimIs
<1>4. /\ \A g \in Stages : conv[g][s] = conv[1][s]
      /\ Restoring \in Nat /\ failures \in 0..MaxPinFailures
      /\ back = "copy" => Restoring = plan.id
  BY <1>1, VictimIs
<1>5. ParkedSound' /\ failures' \in 0..MaxPinFailures /\ \A e \in parked[1] : e.id = Restoring => e \in parked'[1]
  <2>1. CASE \E k \in 0..NStages : Park(s, Restoring, k)
    <3>1. ParkOf(s, Restoring)
      BY <2>1 DEF ParkOf
    <3> HIDE DEF Restoring
    <3>2. PICK N : ParkOutcome(s, Restoring, N)
      BY <1>3, <1>4, <3>1, ParkEnds DEF IInv
    <3>3. failures' \in 0..MaxPinFailures
      BY <3>2 DEF ParkOutcome
    <3> QED
      BY <1>3, <1>4, <3>2, <3>3, ParkKeeps DEF IInv
  <2>2. CASE UNCHANGED <<parked, age, failures>>
    <3>1. ParkedSound
      BY ParkedIsSound DEF IInv
    <3>2. ParkedSound'
      BY <2>2, <3>1 DEF ParkedSound
    <3> QED
      BY <1>4, <2>2, <3>2
  <2> QED
    BY <1>1, <2>1, <2>2
<1>6. /\ conv' \in [Stages -> [Slots -> Record]]
      /\ \A g \in Stages, q \in Slots : Sound(conv'[g][q])
      /\ \A g \in Stages : conv'[g][s] = Empty /\ \A q \in Slots \ {s} : conv'[g][q] = conv[g][q]
  <2> DEFINE D == [g \in Stages |-> Empty]
  <2>1. \A g \in Stages : Sound(D[g]) /\ D[g] = Empty
    BY EmptySound
  <2>2. conv' = [g \in Stages |-> [conv[g] EXCEPT ![s] = D[g]]]
    BY <1>1 DEF OnEveryStage
  <2> HIDE DEF D
  <2>3. /\ conv' \in [Stages -> [Slots -> Record]]
        /\ \A g \in Stages, q \in Slots : Sound(conv'[g][q])
        /\ \A g \in Stages : conv'[g][s] = D[g] /\ \A q \in Slots \ {s} : conv'[g][q] = conv[g][q]
    BY <1>3, <2>1, <2>2, OneReplaced DEF IInv
  <2> QED
    BY <2>1, <2>3
<1>7. /\ mapped' \in [Stages -> [Slots -> 0..MaxCtx]]
      /\ \A g \in Stages, q \in Slots \ {s} : mapped'[g][q] = mapped[g][q]
  BY <1>1, <1>3, ShrunkIs DEF IInv
<1>8. WorkerTyped'
  BY <1>2, <1>5 DEF IInv, WorkerTyped
<1>9. MemoryTyped' /\ AllSound'
  BY <1>5, <1>6, <1>7 DEF MemoryTyped, AllSound, ParkedSound
<1>10. SameEverywhere'
  <2>1. \A g \in Stages, q \in Slots : conv'[g][q] = conv'[1][q] \/ (q = cur /\ Copying)
    <3>1. ASSUME NEW g \in Stages, NEW q \in Slots PROVE conv'[g][q] = conv'[1][q] \/ (q = cur /\ Copying)
      <4>1. CASE q = s
        BY <1>3, <1>6, <4>1
      <4>2. CASE q # s
        <5>1. conv[g][q] = conv[1][q] \/ (q = cur /\ Copying)
          BY DEF IInv, SameEverywhere
        <5> QED
          BY <1>3, <1>6, <4>2, <5>1
      <4> QED
        BY <4>1, <4>2
    <3> QED
      BY <3>1
  <2> QED
    BY <1>2, <1>5, <2>1 DEF SameEverywhere, Copying, ParkedSound
<1>11. Hands'
  <2>1. conv'[1][cur] = conv[1][cur]
    BY <1>3, <1>6
  <2> QED
    BY <1>2, <2>1 DEF IInv, Hands, Starting, Copying, Reading, InRound, Target
<1>12. Promised'
  <2>1. CASE Copying
    <3>1. SourceThere /\ plan.kind # "live" /\ back = "copy"
      BY <2>1 DEF IInv, Promised, Copying
    <3>2. plan.kind = "fork slot" => conv'[1][plan.slot] = conv[1][plan.slot]
      BY <1>3, <1>6, <3>1 DEF SourceThere
    <3>3. SourceThere'
      BY <1>2, <1>4, <1>5, <3>1, <3>2, SourceStays
    <3> QED
      BY <1>2, <3>1, <3>3 DEF Promised
  <2>2. CASE ~Copying
    BY <1>2, <2>2 DEF Promised, Copying
  <2> QED
    BY <2>1, <2>2
<1>13. WindowMapped'
  <2>1. active \subseteq Slots \ {s}
    BY <1>3 DEF IInv, WorkerTyped
  <2> QED
    BY <1>2, <1>6, <1>7, <2>1 DEF IInv, WindowMapped
<1>14. WantMapped'
  BY <1>2 DEF WantMapped
<1> QED
  BY <1>8, <1>9, <1>10, <1>11, <1>12, <1>13, <1>14 DEF IInv

LEMMA RoomyInv ==
  ASSUME IInv, Roomy
  PROVE  IInv'
<1>1. /\ pc = "room" /\ Lacking = {} /\ pc' = back
      /\ UNCHANGED <<cur, prompt, cuts, plan, want, back, memory, active, replies, asked, failures>>
  BY DEF Roomy
<1>2. cur \in Slots
  BY <1>1, InRoom
<1>3. WorkerTyped'
  BY <1>1 DEF IInv, WorkerTyped, Phases
<1>4. MemoryTyped' /\ AllSound'
  BY <1>1, MemoryStill DEF IInv
<1>5. /\ Copying' <=> Copying
      /\ Reading' <=> Reading
      /\ InRound' <=> InRound
      /\ Starting' <=> Starting
  BY <1>1 DEF IInv, WorkerTyped, Starting, Copying, Reading, InRound
<1>6. SameEverywhere'
  BY <1>1, <1>5 DEF IInv, SameEverywhere, memory
<1>7. Hands'
  BY <1>1, <1>5 DEF IInv, Hands, Target, memory
<1>8. Promised'
  BY <1>1, <1>5 DEF IInv, WorkerTyped, Promised, SourceThere, Offers, memory
<1>9. WindowMapped'
  BY <1>1 DEF IInv, WindowMapped, memory
<1>10. WantMapped'
  <2>1. ASSUME NEW g \in Stages PROVE mapped'[g][cur'] >= want'
    <3>1. ~(mapped[g][cur] < want)
      BY <1>1 DEF Lacking
    <3>2. mapped[g][cur] \in 0..MaxCtx /\ want \in 0..MaxCtx
      BY <1>2 DEF IInv, MemoryTyped, WorkerTyped
    <3> QED
      BY <1>1, <3>1, <3>2, ConstantsAre DEF memory
  <2> QED
    BY <2>1 DEF WantMapped
<1> QED
  BY <1>3, <1>4, <1>6, <1>7, <1>8, <1>9, <1>10 DEF IInv

\* An exception: the slots it hits start clean, whatever a parking left of the entries.
LEMMA LoseInv ==
  ASSUME IInv, NEW lose, Lose(lose), Copying => cur \in lose, ParkedSound', failures' \in 0..MaxPinFailures
  PROVE  IInv'
<1>1. /\ pc' = "idle" /\ active' = active \ lose
      /\ conv' = [g \in Stages |-> [s \in Slots |-> IF s \in lose THEN Empty ELSE conv[g][s]]]
      /\ mapped' = [g \in Stages |-> [s \in Slots |-> IF s \in lose THEN Min({mapped[g][s], Baseline}) ELSE mapped[g][s]]]
      /\ replies' = [s \in Slots |-> IF s \in lose THEN 0 ELSE replies[s]]
      /\ UNCHANGED <<cur, prompt, cuts, plan, want, back, asked>>
  BY DEF Lose
<1>2. 1 \in Stages
  BY ConstantsAre
<1>3. WorkerTyped'
  <2>1. replies' \in [Slots -> 0..MaxReplies]
    <3>1. replies \in [Slots -> 0..MaxReplies]
      BY DEF IInv, WorkerTyped
    <3> QED
      BY <1>1, <3>1, ConstantsAre
  <2>2. active' \subseteq Slots
    BY <1>1 DEF IInv, WorkerTyped
  <2> QED
    BY <1>1, <2>1, <2>2 DEF IInv, WorkerTyped, Phases
<1>4. MemoryTyped'
  <2>1. Empty \in Record
    BY EmptySound DEF Sound
  <2>2. \A g \in Stages, s \in Slots : Min({mapped[g][s], Baseline}) \in 0..MaxCtx /\ mapped[g][s] \in 0..MaxCtx
    <3>1. SUFFICES ASSUME NEW g \in Stages, NEW s \in Slots
                   PROVE  Min({mapped[g][s], Baseline}) \in 0..MaxCtx /\ mapped[g][s] \in 0..MaxCtx
      OBVIOUS
    <3>2. PICK m \in 0..MaxCtx : m = mapped[g][s]
      BY DEF IInv, MemoryTyped
    <3>3. Min({m, Baseline}) \in Nat /\ Min({m, Baseline}) <= Baseline
      BY <3>2, ConstantsAre, MinOfTwo
    <3> QED
      BY <3>2, <3>3, ConstantsAre
  <2> QED
    BY <1>1, <2>1, <2>2 DEF IInv, MemoryTyped, ParkedSound
<1>5. AllSound'
  <2>1. \A g \in Stages, s \in Slots : Sound(conv'[g][s])
    BY <1>1, EmptySound DEF IInv, AllSound
  <2> QED
    BY <2>1 DEF AllSound, ParkedSound
<1>6. SameEverywhere'
  <2>1. \A g \in Stages, s \in Slots : conv[g][s] = conv[1][s] \/ s \in lose
    BY DEF IInv, SameEverywhere
  <2>2. \A g \in Stages, s \in Slots : conv'[g][s] = conv'[1][s]
    BY <1>1, <1>2, <2>1
  <2> QED
    BY <2>2 DEF SameEverywhere, ParkedSound
<1>7. Hands' /\ Promised' /\ WantMapped'
  BY <1>1 DEF Hands, Promised, WantMapped, Starting, Copying, Reading, InRound
<1>8. WindowMapped'
  <2>1. active \subseteq Slots
    BY DEF IInv, WorkerTyped
  <2> QED
    BY <1>1, <2>1 DEF IInv, WindowMapped
<1> QED
  BY <1>3, <1>4, <1>5, <1>6, <1>7, <1>8 DEF IInv

\* The entries stay as they are.
LEMMA ParkedSoundStill ==
  ASSUME IInv, UNCHANGED <<parked, age, failures>>
  PROVE  ParkedSound' /\ failures' \in 0..MaxPinFailures
<1>1. ParkedSound /\ failures \in 0..MaxPinFailures
  BY ParkedIsSound DEF IInv, WorkerTyped
<1> QED
  BY <1>1 DEF ParkedSound

LEMMA HitIs ==
  ASSUME Copying
  PROVE  cur \in Hit
BY DEF Copying, Hit

LEMMA NoRoomInv ==
  ASSUME IInv, NoRoom
  PROVE  IInv'
<1>1. Lose(Hit) /\ UNCHANGED <<parked, age, failures>>
  BY DEF NoRoom
<1> QED
  BY <1>1, HitIs, ParkedSoundStill, LoseInv

LEMMA SourceLostInv ==
  ASSUME IInv, SourceLost
  PROVE  IInv'
<1>1. Lose({cur}) /\ UNCHANGED <<parked, age, failures>>
  BY DEF SourceLost
<1> QED
  BY <1>1, ParkedSoundStill, LoseInv

LEMMA LiveIs ==
  ASSUME IInv, pc = "park"
  PROVE  /\ cur \in Slots /\ plan.id \in Nat /\ failures \in 0..MaxPinFailures
         /\ \A g \in Stages, s \in Slots : conv[g][s] = conv[1][s]
<1>1. cur \in Slots /\ plan.id \in Nat /\ failures \in 0..MaxPinFailures
  BY DEF IInv, Hands, Starting, WorkerTyped
<1>2. \A g \in Stages, s \in Slots : conv[g][s] = conv[1][s]
  BY DEF IInv, SameEverywhere, Copying
<1> QED
  BY <1>1, <1>2

\* What the parking of the live conversation, or of a victim, comes to when it throws.
LEMMA ParkLiveThrown ==
  ASSUME IInv, ParkLiveThrows
  PROVE  \E N : ParkOutcome(cur, plan.id, N) /\ cur \in Slots /\ plan.id \in Nat
<1>1. pc = "park" /\ ParkOf(cur, plan.id)
  BY DEF ParkLiveThrows, ParkOf
<1>2. /\ cur \in Slots /\ plan.id \in Nat /\ failures \in 0..MaxPinFailures
      /\ \A g \in Stages, s \in Slots : conv[g][s] = conv[1][s]
  BY <1>1, LiveIs
<1>3. PICK N : ParkOutcome(cur, plan.id, N)
  BY <1>1, <1>2, ParkEnds DEF IInv
<1> QED
  BY <1>2, <1>3

LEMMA EvictThrown ==
  ASSUME IInv, EvictThrows
  PROVE  \E s \in Slots : \E N : ParkOutcome(s, Restoring, N) /\ Restoring \in Nat
<1>1. PICK s \in Slots : Victim(s) /\ ParkOf(s, Restoring)
  BY DEF EvictThrows, ParkOf
<1>2. Restoring \in Nat /\ failures \in 0..MaxPinFailures /\ \A g \in Stages : conv[g][s] = conv[1][s]
  BY <1>1, VictimIs
<1> HIDE DEF Restoring
<1>3. PICK N : ParkOutcome(s, Restoring, N)
  BY <1>1, <1>2, ParkEnds DEF IInv
<1> QED
  BY <1>2, <1>3

LEMMA ThrowsInv ==
  ASSUME IInv, ParkLiveThrows \/ EvictThrows
  PROVE  IInv'
<1>1. \E s \in Slots, keep \in Nat : \E N : ParkOutcome(s, keep, N)
  BY ParkLiveThrown, EvictThrown
<1>2. ParkedSound' /\ failures' \in 0..MaxPinFailures
  <2>1. PICK s \in Slots, keep \in Nat : \E N : ParkOutcome(s, keep, N)
    BY <1>1
  <2>2. PICK N : ParkOutcome(s, keep, N)
    BY <2>1
  <2>3. failures' \in 0..MaxPinFailures
    BY <2>2 DEF ParkOutcome
  <2> QED
    BY <2>2, <2>3, ParkKeeps DEF IInv
<1>3. CASE ParkLiveThrows
  <2>1. Lose({cur})
    BY <1>3 DEF ParkLiveThrows
  <2> QED
    BY <1>2, <2>1, LoseInv
<1>4. CASE EvictThrows
  <2>1. Lose(Hit)
    BY <1>4 DEF EvictThrows
  <2> QED
    BY <1>2, <2>1, HitIs, LoseInv
<1> QED
  BY <1>3, <1>4

\* The entry a copy is made of, the same on every stage.
LEMMA EntrySame ==
  ASSUME MemoryTyped, AllSound, SameEverywhere, NEW e \in parked[1], e.id = plan.id, Held, plan.kind # "fork slot"
  PROVE  \A g \in Stages : Entry(g) = e
<1>1. SUFFICES ASSUME NEW g \in Stages PROVE Entry(g) = e
  OBVIOUS
<1>2. parked[g] \subseteq parked[1] /\ \A d, f \in parked[1] : d.id = f.id => d = f
  BY DEF SameEverywhere, AllSound, Reached
<1>3. PICK f \in parked[g] : f.id = plan.id
  BY DEF Held
<1>4. e \in parked[g] /\ \A d, c \in parked[g] : d.id = c.id => d = c
  BY <1>2, <1>3
<1>5. EntryOf(parked[g], e.id) = e
  BY <1>4, EntryIs
<1> QED
  BY <1>5 DEF Entry

\* A copy ends: the conversation of the slot is D on every stage, which keeps what was promised.
LEMMA CopyEnds ==
  ASSUME IInv, pc = "copy", pc' = "rewind", NEW D, Sound(D), Reuse(D, prompt) = plan.at,
         conv' = [g \in Stages |-> [conv[g] EXCEPT ![cur] = D]],
         parked' \in [Stages -> SUBSET [id : Nat \ {0}, c : Record, on : Stages]],
         \A g \in Stages : parked'[g] \subseteq parked[g] /\ parked'[g] = Reached(parked'[1], g),
         UNCHANGED <<cur, prompt, cuts, plan, want, back, mapped, age, active, replies, asked, failures>>
  PROVE  IInv'
<1>1. back = "copy" /\ Copying /\ Starting
  BY DEF IInv, WorkerTyped, Copying, Starting
<1>2. cur \in Slots \ active /\ prompt \in Prompts /\ 1 \in Stages
  BY <1>1, ConstantsAre DEF IInv, Hands
<1>3. /\ conv' \in [Stages -> [Slots -> Record]]
      /\ \A g \in Stages, q \in Slots : Sound(conv'[g][q])
      /\ \A g \in Stages : conv'[g][cur] = D /\ \A q \in Slots \ {cur} : conv'[g][q] = conv[g][q]
  <2> DEFINE E == [g \in Stages |-> D]
  <2>1. \A g \in Stages : Sound(E[g]) /\ E[g] = D
    OBVIOUS
  <2>2. conv' = [g \in Stages |-> [conv[g] EXCEPT ![cur] = E[g]]]
    OBVIOUS
  <2> HIDE DEF E
  <2>3. /\ conv' \in [Stages -> [Slots -> Record]]
        /\ \A g \in Stages, q \in Slots : Sound(conv'[g][q])
        /\ \A g \in Stages : conv'[g][cur] = E[g] /\ \A q \in Slots \ {cur} : conv'[g][q] = conv[g][q]
    BY <1>2, <2>1, <2>2, OneReplaced DEF IInv
  <2> QED
    BY <2>1, <2>3
<1>4. WorkerTyped'
  BY DEF IInv, WorkerTyped, Phases
<1>5. MemoryTyped' /\ AllSound'
  <2>1. \A g \in Stages : \A e \in parked'[g] : e.id <= age /\ Sound(e.c)
    BY DEF IInv, AllSound
  <2>2. \A d, e \in parked'[1] : d.id = e.id => d = e
    BY <1>2 DEF IInv, AllSound
  <2> QED
    BY <1>3, <2>1, <2>2 DEF IInv, MemoryTyped, AllSound
<1>6. SameEverywhere'
  <2>1. ASSUME NEW g \in Stages, NEW q \in Slots PROVE conv'[g][q] = conv'[1][q]
    <3>1. CASE q = cur
      BY <1>2, <1>3, <3>1
    <3>2. CASE q # cur
      <4>1. conv[g][q] = conv[1][q]
        BY <3>2 DEF IInv, SameEverywhere
      <4> QED
        BY <1>2, <1>3, <3>2, <4>1
    <3> QED
      BY <3>1, <3>2
  <2> QED
    BY <2>1 DEF SameEverywhere
<1>7. Hands' /\ WantMapped'
  BY <1>2 DEF Hands, WantMapped, Starting, Copying, Reading, InRound
<1>8. Promised'
  <2>1. Reuse(conv[1][cur], prompt)' = Reuse(D, prompt)
    BY <1>2, <1>3
  <2> QED
    BY <2>1 DEF Promised, Copying
<1>9. WindowMapped'
  <2>1. active \subseteq Slots \ {cur}
    BY <1>2 DEF IInv, WorkerTyped
  <2> QED
    BY <1>3, <2>1 DEF IInv, WindowMapped
<1> QED
  BY <1>4, <1>5, <1>6, <1>7, <1>8, <1>9 DEF IInv

LEMMA RestoreInv ==
  ASSUME IInv, Restore
  PROVE  IInv'
<1>1. /\ pc = "copy" /\ pc' = "rewind" /\ plan.kind = "restore" /\ Held
      /\ conv' = [g \in Stages |-> [conv[g] EXCEPT ![cur] = Entry(g).c]]
      /\ parked' = [g \in Stages |-> {e \in parked[g] : e.id # plan.id}]
      /\ UNCHANGED <<cur, prompt, cuts, plan, want, back, mapped, age, active, replies, asked, failures>>
  BY DEF Restore
<1>2. PICK e \in parked[1] : e.id = plan.id /\ plan.at = Reuse(e.c, prompt)
  BY <1>1 DEF IInv, WorkerTyped, Promised, SourceThere, Copying
<1>3. \A g \in Stages : Entry(g) = e
  BY <1>1, <1>2, EntrySame DEF IInv
<1>4. Sound(e.c)
  BY ConstantsAre DEF IInv, AllSound
<1>5. conv' = [g \in Stages |-> [conv[g] EXCEPT ![cur] = e.c]]
  BY <1>1, <1>3
<1>6. parked' \in [Stages -> SUBSET [id : Nat \ {0}, c : Record, on : Stages]]
  BY <1>1 DEF IInv, MemoryTyped
<1>7. \A g \in Stages : parked'[g] \subseteq parked[g] /\ parked'[g] = Reached(parked'[1], g)
  <2>1. 1 \in Stages /\ \A g \in Stages : parked[g] = Reached(parked[1], g)
    BY ConstantsAre DEF IInv, SameEverywhere
  <2>2. \A g \in Stages : parked'[g] = {f \in parked[g] : f.id # plan.id}
    BY <1>1
  <2> QED
    BY <2>1, <2>2 DEF Reached
<1> QED
  BY <1>1, <1>2, <1>4, <1>5, <1>6, <1>7, CopyEnds

LEMMA ForkInv ==
  ASSUME IInv, Fork
  PROVE  IInv'
<1> DEFINE source(g) == IF plan.kind = "fork slot" THEN conv[g][plan.slot] ELSE Entry(g).c
           n == plan.at
<1>1. /\ pc = "copy" /\ pc' = "rewind" /\ plan.kind \in {"fork parked", "fork slot"} /\ Held
      /\ conv' = [g \in Stages |-> [conv[g] EXCEPT ![cur] = Snapped(Forked(source(g), n, @), 0)]]
      /\ UNCHANGED <<cur, prompt, cuts, plan, want, back, mapped, parked, age, active, replies, asked, failures>>
  BY DEF Fork
<1>2. SourceThere /\ 1 \in Stages /\ cur \in Slots /\ prompt \in Prompts
  BY <1>1, ConstantsAre DEF IInv, WorkerTyped, Promised, Hands, Starting, Copying
<1>3. PICK c : Sound(c) /\ Offers(c) /\ \A g \in Stages : source(g) = c
  <2>1. CASE plan.kind = "fork slot"
    <3>1. plan.slot \in Slots /\ plan.slot # cur /\ Offers(conv[1][plan.slot])
      BY <1>2, <2>1 DEF SourceThere
    <3>2. Sound(conv[1][plan.slot]) /\ \A g \in Stages : conv[g][plan.slot] = conv[1][plan.slot]
      BY <1>2, <3>1 DEF IInv, AllSound, SameEverywhere
    <3> QED
      BY <2>1, <3>1, <3>2
  <2>2. CASE plan.kind = "fork parked"
    <3>1. PICK e \in parked[1] : e.id = plan.id /\ Offers(e.c)
      BY <1>2, <2>2 DEF SourceThere
    <3>2. Sound(e.c) /\ \A g \in Stages : Entry(g) = e
      BY <1>1, <1>2, <2>2, <3>1, EntrySame DEF IInv, AllSound
    <3> QED
      BY <2>2, <3>1, <3>2
  <2> QED
    BY <1>1, <2>1, <2>2
<1> HIDE DEF source, n
<1>4. n \in Positions(c) /\ n <= Common(c.hist, prompt) /\ n < Len(prompt)
  BY <1>3 DEF Offers, n
<1>5. n \in 1..MaxCtx /\ n \in Nat \ {0} /\ n \in 0..Len(c.hist)
  BY <1>3, <1>4, SnapshotFound, ConstantsAre
<1> DEFINE F == Forked(c, n, Empty)
           D == Snapped(F, 0)
<1>6. Sound(F) /\ F.hist = Up(c.hist, n) /\ Len(Up(c.hist, n)) = n /\ F.ck = {}
  BY <1>3, <1>4, ForkedSound
<1>7. \A old : Forked(c, n, old) = F
  BY DEF Forked
<1> HIDE DEF F
<1>8. Sound(D) /\ D.hist = F.hist
  <2>1. Len(F.hist) <= MaxCtx
    BY <1>5, <1>6
  <2>2. 0 \in MayDrop(F)
    <3>1. Cardinality({}) = 0
      BY FS_EmptySet
    <3>2. Cardinality(F.ck) < MaxCk
      BY <1>6, <3>1, ConstantsAre
    <3> QED
      BY <3>2 DEF MayDrop
  <2> QED
    BY <1>6, <2>1, <2>2, SnappedSound
<1>9. conv' = [g \in Stages |-> [conv[g] EXCEPT ![cur] = D]]
  BY <1>1, <1>3, <1>7
<1> HIDE DEF D
<1>10. Reuse(D, prompt) = plan.at
  <2>1. prompt \in Text /\ c.hist \in Text
    BY <1>2, <1>3, PromptText, SoundIs
  <2>2. Extends(Up(c.hist, n), prompt)
    BY <1>4, <1>5, <2>1, OfferedStart
  <2> QED
    BY <1>6, <1>8, <2>2 DEF Reuse, n
<1>11. parked' \in [Stages -> SUBSET [id : Nat \ {0}, c : Record, on : Stages]]
       /\ \A g \in Stages : parked'[g] \subseteq parked[g] /\ parked'[g] = Reached(parked'[1], g)
  BY <1>1 DEF IInv, MemoryTyped, SameEverywhere
<1> QED
  BY <1>1, <1>8, <1>9, <1>10, <1>11, CopyEnds

LEMMA RewindInv ==
  ASSUME IInv, Rewind
  PROVE  IInv'
<1> DEFINE c == conv[1][cur]
           keep == StartKeeps(c)
<1>1. /\ pc = "rewind" /\ pc' = "room" /\ want' = Cells(Target(keep) + Window) /\ back' = "read"
      /\ IF Extends(c.hist, prompt) THEN UNCHANGED <<conv, mapped>>
         ELSE IF keep = 0 THEN conv' = OnEveryStage(cur, LAMBDA d : Empty) /\ mapped' = Shrunk(cur)
         ELSE conv' = OnEveryStage(cur, LAMBDA d : Rewound(d, keep)) /\ UNCHANGED mapped
      /\ UNCHANGED <<cur, prompt, cuts, plan, parked, age, active, replies, asked, failures>>
  BY DEF Rewind, Ensure
<1>2. /\ cur \in Slots \ active /\ prompt \in Prompts /\ 1 \in Stages
      /\ \A g \in Stages, q \in Slots : conv[g][q] = conv[1][q]
      /\ \A g \in Stages : parked[g] = Reached(parked[1], g)
      /\ \A g \in Stages, q \in Slots : Sound(conv[g][q])
      /\ conv \in [Stages -> [Slots -> Record]]
  BY <1>1, ConstantsAre DEF IInv, Hands, Starting, Copying, SameEverywhere, AllSound, MemoryTyped
<1>3. Sound(c) /\ keep = Reuse(c, prompt) /\ Len(prompt) \in Nat /\ Len(c.hist) \in Nat
  BY <1>2, StartIsReuse, PromptText, SoundIs
<1>4. /\ keep \in Nat /\ keep < Len(prompt)
      /\ Extends(c.hist, prompt) => keep = Len(c.hist)
      /\ ~Extends(c.hist, prompt) /\ keep # 0 => keep \in Positions(c)
  BY <1>2, <1>3, ReuseIs
<1> DEFINE D == IF Extends(c.hist, prompt) THEN c ELSE IF keep = 0 THEN Empty ELSE Rewound(c, keep)
<1>5. Sound(D) /\ Len(D.hist) = keep
  <2>1. CASE Extends(c.hist, prompt)
    BY <1>3, <1>4, <2>1
  <2>2. CASE ~Extends(c.hist, prompt) /\ keep = 0
    <3>1. Len(Empty.hist) = 0
      BY EmptySeq DEF Empty
    <3> HIDE DEF keep
    <3> QED
      BY <2>2, <3>1, EmptySound
  <2>3. CASE ~Extends(c.hist, prompt) /\ keep # 0
    <3>1. keep \in Positions(c)
      BY <1>4, <2>3
    <3> HIDE DEF keep, c
    <3>2. Sound(Rewound(c, keep)) /\ Len(Rewound(c, keep).hist) = keep
      BY <1>3, <3>1, RewoundSound
    <3> QED
      BY <2>3, <3>2
  <2> QED
    BY <2>1, <2>2, <2>3
<1>6. conv' = [g \in Stages |-> [conv[g] EXCEPT ![cur] = D]]
  <2>1. CASE Extends(c.hist, prompt)
    <3>1. D = c
      BY <2>1
    <3>2. \A g \in Stages : [conv[g] EXCEPT ![cur] = c] = conv[g]
      BY <1>2
    <3> HIDE DEF D, c
    <3>3. conv = [g \in Stages |-> conv[g]]
      BY <1>2
    <3> QED
      BY <1>1, <2>1, <3>1, <3>2, <3>3
  <2>2. CASE ~Extends(c.hist, prompt) /\ keep = 0
    BY <1>1, <2>2 DEF OnEveryStage
  <2>3. CASE ~Extends(c.hist, prompt) /\ keep # 0
    <3>1. conv' = [g \in Stages |-> [conv[g] EXCEPT ![cur] = Rewound(conv[g][cur], keep)]]
      BY <1>1, <2>3 DEF OnEveryStage
    <3>2. \A g \in Stages : conv[g][cur] = c
      BY <1>2
    <3>3. D = Rewound(c, keep)
      BY <2>3
    <3> HIDE DEF D, keep, c
    <3> QED
      BY <3>1, <3>2, <3>3
  <2> QED
    BY <2>1, <2>2, <2>3
<1> HIDE DEF D
<1>7. /\ conv' \in [Stages -> [Slots -> Record]]
      /\ \A g \in Stages, q \in Slots : Sound(conv'[g][q])
      /\ \A g \in Stages : conv'[g][cur] = D /\ \A q \in Slots \ {cur} : conv'[g][q] = conv[g][q]
  <2> DEFINE E == [g \in Stages |-> D]
  <2>1. \A g \in Stages : Sound(E[g]) /\ E[g] = D
    BY <1>5
  <2>2. conv' = [g \in Stages |-> [conv[g] EXCEPT ![cur] = E[g]]]
    BY <1>6
  <2> HIDE DEF E
  <2>3. /\ conv' \in [Stages -> [Slots -> Record]]
        /\ \A g \in Stages, q \in Slots : Sound(conv'[g][q])
        /\ \A g \in Stages : conv'[g][cur] = E[g] /\ \A q \in Slots \ {cur} : conv'[g][q] = conv[g][q]
    BY <1>2, <2>1, <2>2, OneReplaced DEF IInv
  <2> QED
    BY <2>1, <2>3
<1>8. /\ mapped' \in [Stages -> [Slots -> 0..MaxCtx]]
      /\ \A g \in Stages, q \in Slots \ {cur} : mapped'[g][q] = mapped[g][q]
  <2>1. CASE mapped' = mapped
    BY <2>1 DEF IInv, MemoryTyped
  <2>2. CASE mapped' = Shrunk(cur)
    BY <1>2, <2>2, ShrunkIs DEF IInv
  <2> QED
    BY <1>1, <2>1, <2>2
<1> HIDE DEF keep, c
<1>9. Target(keep) \in Nat /\ cuts \subseteq 1..MaxCtx
  BY <1>2, <1>4, TargetIs DEF IInv, WorkerTyped
<1>10. WorkerTyped'
  <2>1. Target(keep) + Window \in Nat
    BY <1>9, ConstantsAre
  <2>2. Cells(Target(keep) + Window) \in 0..MaxCtx
    BY <2>1, CellsIs
  <2> QED
    BY <1>1, <2>2 DEF IInv, WorkerTyped, Phases
<1>11. MemoryTyped' /\ AllSound'
  BY <1>1, <1>7, <1>8 DEF IInv, MemoryTyped, AllSound
<1>12. SameEverywhere'
  BY <1>1, <1>2, <1>7 DEF SameEverywhere
<1>13. Hands'
  <2>1. conv'[1][cur'] = D
    BY <1>1, <1>2, <1>7
  <2>2. Len(conv'[1][cur'].hist) = keep
    BY <1>5, <2>1
  <2>3. want' = Cells(Target(Len(conv[1][cur].hist)) + Window)'
    BY <1>1, <2>2 DEF Target, Cells
  <2> QED
    BY <1>1, <1>2, <1>4, <2>2, <2>3 DEF Hands, Starting, Copying, Reading, InRound
<1>14. Promised' /\ WantMapped'
  BY <1>1 DEF Promised, WantMapped, Copying
<1>15. WindowMapped'
  <2>1. active \subseteq Slots \ {cur}
    BY <1>2 DEF IInv, WorkerTyped
  <2> QED
    BY <1>1, <1>7, <1>8, <2>1 DEF IInv, WindowMapped
<1> QED
  BY <1>10, <1>11, <1>12, <1>13, <1>14, <1>15 DEF IInv

LEMMA RoundInv ==
  ASSUME IInv, NEW s \in Slots, Round(s)
  PROVE  IInv'
<1>1. /\ pc = "idle" /\ pc' = "room" /\ s \in active /\ replies[s] < MaxReplies
      /\ cur' = s /\ want' = Cells(Len(conv[1][s].hist) + 1 + Window) /\ back' = "decode"
      /\ UNCHANGED <<prompt, cuts, plan, memory, active, replies, asked, failures>>
  BY DEF Round, Ensure
<1>2. WorkerTyped'
  <2>1. Len(conv[1][s].hist) \in Nat
    BY WindowIs, ConstantsAre DEF IInv
  <2>2. Len(conv[1][s].hist) + 1 + Window \in Nat
    BY <2>1, ConstantsAre
  <2>3. Cells(Len(conv[1][s].hist) + 1 + Window) \in 0..MaxCtx
    BY <2>2, CellsIs
  <2> QED
    BY <1>1, <2>3 DEF IInv, WorkerTyped, Phases
<1>3. MemoryTyped' /\ AllSound'
  BY <1>1, MemoryStill DEF IInv
<1>4. SameEverywhere'
  BY <1>1 DEF IInv, SameEverywhere, Copying, memory
<1>5. Hands' /\ Promised' /\ WantMapped'
  BY <1>1 DEF Hands, Promised, WantMapped, Starting, Copying, Reading, InRound, memory
<1>6. WindowMapped'
  BY <1>1 DEF IInv, WindowMapped, memory
<1> QED
  BY <1>2, <1>3, <1>4, <1>5, <1>6 DEF IInv

LEMMA FinishInv ==
  ASSUME IInv, NEW s \in Slots, Finish(s)
  PROVE  IInv'
<1>1. pc = "idle" /\ active' = active \ {s} /\ UNCHANGED <<worker, memory, replies, asked, failures>>
  BY DEF Finish
<1>2. WorkerTyped'
  BY <1>1 DEF IInv, WorkerTyped, worker
<1>3. MemoryTyped' /\ AllSound'
  BY <1>1, MemoryStill DEF IInv
<1>4. SameEverywhere'
  BY <1>1 DEF IInv, SameEverywhere, Copying, memory, worker
<1>5. Hands' /\ Promised' /\ WantMapped'
  BY <1>1 DEF Hands, Promised, WantMapped, Starting, Copying, Reading, InRound, worker
<1>6. WindowMapped'
  BY <1>1 DEF IInv, WindowMapped, memory
<1> QED
  BY <1>2, <1>3, <1>4, <1>5, <1>6 DEF IInv

\* All stages have the same conversation in the worker's slot, which becomes D.
LEMMA SlotBecomes ==
  ASSUME MemoryTyped, AllSound, SameEverywhere, cur \in Slots, ~Copying, NEW D, Sound(D),
         conv' = [g \in Stages |-> [conv[g] EXCEPT ![cur] = D]]
  PROVE  /\ conv' \in [Stages -> [Slots -> Record]]
         /\ \A g \in Stages, q \in Slots : Sound(conv'[g][q]) /\ conv'[g][q] = conv'[1][q]
         /\ \A g \in Stages : conv'[g][cur] = D /\ \A q \in Slots \ {cur} : conv'[g][q] = conv[g][q]
<1> DEFINE E == [g \in Stages |-> D]
<1>1. \A g \in Stages : Sound(E[g]) /\ E[g] = D
  OBVIOUS
<1>2. conv' = [g \in Stages |-> [conv[g] EXCEPT ![cur] = E[g]]]
  OBVIOUS
<1> HIDE DEF E
<1>3. /\ conv' \in [Stages -> [Slots -> Record]]
      /\ \A g \in Stages, q \in Slots : Sound(conv'[g][q])
      /\ \A g \in Stages : conv'[g][cur] = E[g] /\ \A q \in Slots \ {cur} : conv'[g][q] = conv[g][q]
  BY <1>1, <1>2, OneReplaced
<1>4. ASSUME NEW g \in Stages, NEW q \in Slots PROVE conv'[g][q] = conv'[1][q]
  <2>1. 1 \in Stages /\ conv[g][q] = conv[1][q]
    BY ConstantsAre DEF SameEverywhere
  <2>2. CASE q = cur
    BY <1>1, <1>3, <2>1, <2>2
  <2>3. CASE q # cur
    BY <1>3, <2>1, <2>3
  <2> QED
    BY <2>2, <2>3
<1> QED
  BY <1>1, <1>3, <1>4

LEMMA ReadInv ==
  ASSUME IInv, Read
  PROVE  IInv'
<1> DEFINE c    == conv[1][cur]
           from == Len(c.hist)
           to   == Target(from)
           ts   == SubSeq(prompt, from + 1, to)
<1>1. /\ pc = "read"
      /\ IF to \in cuts
         THEN \E d \in MayDrop(Fed(c, ts)) : conv' = OnEveryStage(cur, LAMBDA x : Snapped(Fed(x, ts), d))
         ELSE conv' = OnEveryStage(cur, LAMBDA x : Fed(x, ts))
      /\ mapped' = [g \in Stages |-> [mapped[g] EXCEPT ![cur] = Min({@, Kept(to)})]]
      /\ \/ /\ to = Len(prompt) /\ pc' = "idle" /\ active' = active \cup {cur}
            /\ replies' = [replies EXCEPT ![cur] = 0] /\ UNCHANGED <<want, back>>
         \/ /\ to # Len(prompt) /\ pc' = "room" /\ want' = Cells(Target(to) + Window) /\ back' = "read"
            /\ UNCHANGED <<active, replies>>
      /\ UNCHANGED <<cur, prompt, cuts, plan, parked, age, asked, failures>>
  BY DEF Read, Ensure
<1>2. /\ cur \in Slots \ active /\ prompt \in Prompts /\ 1 \in Stages /\ cuts \subseteq 1..MaxCtx /\ back = "read"
      /\ from < Len(prompt) /\ want = Cells(to + Window)
      /\ ~Copying /\ \A g \in Stages : conv[g][cur] = c /\ mapped[g][cur] >= want
  <2>1. back = "read" /\ Reading /\ ~Copying /\ Starting
    BY <1>1 DEF IInv, WorkerTyped, Reading, Copying, Starting
  <2>2. cur \in Slots \ active /\ prompt \in Prompts /\ from < Len(prompt) /\ want = Cells(to + Window)
    BY <2>1 DEF IInv, Hands
  <2>3. 1 \in Stages /\ cuts \subseteq 1..MaxCtx
    BY ConstantsAre DEF IInv, WorkerTyped
  <2>4. \A g \in Stages : conv[g][cur] = c /\ mapped[g][cur] >= want
    BY <1>1, <2>1, <2>2 DEF IInv, SameEverywhere, WantMapped
  <2> QED
    BY <2>1, <2>2, <2>3, <2>4
<1>3. Sound(c) /\ from \in Nat /\ c.hist \in Text /\ prompt \in Text /\ Len(prompt) \in Nat /\ Len(prompt) <= MaxCtx
  <2>1. Sound(c)
    BY <1>2 DEF IInv, AllSound
  <2> QED
    BY <1>2, <2>1, SoundIs, PromptText
<1> HIDE DEF c
<1>4. to \in Nat /\ from < to /\ to <= Len(prompt)
  BY <1>2, <1>3, TargetIs
<1>5. ts \in Text /\ Len(ts) = to - from
  <2>1. \A i \in (from + 1)..to : prompt[i] \in Tokens
    BY <1>3, <1>4, ElementOfSeq DEF Text
  <2>2. from + 1 \in Int /\ to \in Int
    BY <1>3, <1>4
  <2> HIDE DEF from, to
  <2>3. /\ SubSeq(prompt, from + 1, to) \in Seq(Tokens)
        /\ Len(SubSeq(prompt, from + 1, to)) = IF from + 1 <= to THEN to - (from + 1) + 1 ELSE 0
    BY <2>1, <2>2, SubSeqProperties
  <2> DEFINE v == SubSeq(prompt, from + 1, to)
  <2> HIDE DEF v
  <2>4. v \in Seq(Tokens) /\ Len(v) = to - from
    BY <1>3, <1>4, <2>3 DEF v
  <2> QED
    BY <2>4 DEF v, Text
<1> DEFINE F == Fed(c, ts)
<1> HIDE DEF ts
<1>6. Sound(F) /\ Len(F.hist) = to
  <2>1. Sound(F) /\ Len(F.hist) = from + Len(ts)
    BY <1>3, <1>5, FedSound
  <2> HIDE DEF F
  <2> QED
    BY <1>3, <1>4, <1>5, <2>1
<1>7. PICK D : /\ Sound(D) /\ Len(D.hist) = to
               /\ conv' = [g \in Stages |-> [conv[g] EXCEPT ![cur] = D]]
  <2>1. CASE to \in cuts
    <3>1. PICK d \in MayDrop(F) : conv' = [g \in Stages |-> [conv[g] EXCEPT ![cur] = Snapped(Fed(conv[g][cur], ts), d)]]
      BY <1>1, <2>1 DEF OnEveryStage
    <3>2. conv' = [g \in Stages |-> [conv[g] EXCEPT ![cur] = Snapped(F, d)]]
      BY <1>2, <3>1
    <3>3. Len(F.hist) <= MaxCtx
      BY <1>3, <1>4, <1>6, ConstantsAre
    <3> HIDE DEF F
    <3>4. Sound(Snapped(F, d)) /\ Snapped(F, d).hist = F.hist
      BY <1>6, <3>1, <3>3, SnappedSound
    <3> QED
      BY <1>6, <3>2, <3>4
  <2>2. CASE to \notin cuts
    <3>1. conv' = [g \in Stages |-> [conv[g] EXCEPT ![cur] = Fed(conv[g][cur], ts)]]
      BY <1>1, <2>2 DEF OnEveryStage
    <3>2. conv' = [g \in Stages |-> [conv[g] EXCEPT ![cur] = F]]
      BY <1>2, <3>1
    <3> QED
      BY <1>6, <3>2
  <2> QED
    BY <2>1, <2>2
<1>8. /\ conv' \in [Stages -> [Slots -> Record]]
      /\ \A g \in Stages, q \in Slots : Sound(conv'[g][q]) /\ conv'[g][q] = conv'[1][q]
      /\ \A g \in Stages : conv'[g][cur] = D /\ \A q \in Slots \ {cur} : conv'[g][q] = conv[g][q]
  BY <1>2, <1>7, SlotBecomes DEF IInv
<1> HIDE DEF F, from
<1>9. /\ Cells(to + Window) \in 0..MaxCtx /\ (to + Window <= Cells(to + Window) \/ Cells(to + Window) = MaxCtx)
      /\ Kept(to) \in Nat /\ Cells(to + Window) <= Kept(to)
  <2>1. to + Window \in Nat
    BY <1>4, ConstantsAre
  <2>2. /\ Cells(to + Window) \in 0..MaxCtx
        /\ (to + Window <= Cells(to + Window) \/ Cells(to + Window) = MaxCtx)
    BY <2>1, CellsIs
  <2>3. Kept(to) \in Nat /\ Cells(to + Window) <= Kept(to)
    BY <2>2, ConstantsAre, MaxOfTwo DEF Kept
  <2> QED
    BY <2>2, <2>3
<1>10. /\ mapped' \in [Stages -> [Slots -> 0..MaxCtx]]
       /\ \A g \in Stages, q \in Slots \ {cur} : mapped'[g][q] = mapped[g][q]
       /\ \A g \in Stages : mapped'[g][cur] >= Cells(to + Window)
  <2>1. mapped \in [Stages -> [Slots -> 0..MaxCtx]]
    BY DEF IInv, MemoryTyped
  <2>2. ASSUME NEW g \in Stages
        PROVE  Min({mapped[g][cur], Kept(to)}) \in 0..MaxCtx /\ Min({mapped[g][cur], Kept(to)}) >= Cells(to + Window)
    <3>1. PICK m \in 0..MaxCtx : m = mapped[g][cur]
      BY <1>2, <2>1
    <3>2. /\ Min({m, Kept(to)}) \in {m, Kept(to)} /\ Min({m, Kept(to)}) \in Nat /\ Min({m, Kept(to)}) <= m
      BY <1>9, <3>1, ConstantsAre, MinOfTwo
    <3>3. m >= Cells(to + Window)
      BY <1>2, <3>1
    <3> HIDE DEF to
    <3> QED
      BY <1>9, <3>1, <3>2, <3>3, ConstantsAre
  <2>3. mapped' \in [Stages -> [Slots -> 0..MaxCtx]]
    BY <1>1, <1>2, <2>1, <2>2
  <2>4. \A g \in Stages : mapped'[g][cur] = Min({mapped[g][cur], Kept(to)})
    BY <1>1, <1>2, <2>1
  <2>5. \A g \in Stages, q \in Slots \ {cur} : mapped'[g][q] = mapped[g][q]
    BY <1>1, <1>2, <2>1
  <2> HIDE DEF to
  <2> QED
    BY <2>2, <2>3, <2>4, <2>5
<1>11. MemoryTyped' /\ AllSound'
  BY <1>1, <1>8, <1>10 DEF IInv, MemoryTyped, AllSound
<1>12. SameEverywhere'
  BY <1>1, <1>8 DEF IInv, SameEverywhere
<1>13. CASE to = Len(prompt) /\ pc' = "idle" /\ active' = active \cup {cur}
            /\ replies' = [replies EXCEPT ![cur] = 0] /\ UNCHANGED <<want, back>>
  <2>1. WorkerTyped'
    <3>1. replies \in [Slots -> 0..MaxReplies] /\ active \subseteq Slots
      BY DEF IInv, WorkerTyped
    <3>2. replies' \in [Slots -> 0..MaxReplies] /\ active' \subseteq Slots
      BY <1>2, <1>13, <3>1, ConstantsAre
    <3> QED
      BY <1>1, <1>13, <3>2 DEF IInv, WorkerTyped, Phases
  <2>2. Hands' /\ Promised' /\ WantMapped'
    BY <1>13 DEF Hands, Promised, WantMapped, Starting, Copying, Reading, InRound
  <2>3. WindowMapped'
    <3>1. ASSUME NEW s \in active', NEW g \in Stages
          PROVE  mapped'[g][s] >= Min({MaxCtx, Len(conv'[g][s].hist) + Window})
      <4>1. CASE s = cur
        <5>1. Len(conv'[g][s].hist) = to
          BY <1>7, <1>8, <4>1
        <5>2. to + Window \in Nat
          BY <1>4, ConstantsAre
        <5>3. Min({MaxCtx, to + Window}) \in Nat /\ Min({MaxCtx, to + Window}) <= MaxCtx /\ Min({MaxCtx, to + Window}) <= to + Window
          BY <5>2, ConstantsAre, MinOfTwo
        <5>4. mapped'[g][s] >= Cells(to + Window) /\ mapped'[g][s] \in 0..MaxCtx
          BY <1>2, <1>10, <4>1
        <5> HIDE DEF to
        <5> QED
          BY <1>9, <5>1, <5>2, <5>3, <5>4, ConstantsAre
      <4>2. CASE s # cur
        <5>1. s \in active /\ s \in Slots \ {cur}
          BY <1>13, <4>2 DEF IInv, WorkerTyped
        <5>2. mapped[g][s] >= Min({MaxCtx, Len(conv[g][s].hist) + Window})
          BY <5>1 DEF IInv, WindowMapped
        <5> QED
          BY <1>8, <1>10, <5>1, <5>2
      <4> QED
        BY <4>1, <4>2
    <3> QED
      BY <3>1 DEF WindowMapped
  <2> QED
    BY <1>11, <1>12, <2>1, <2>2, <2>3 DEF IInv
<1>14. CASE to # Len(prompt) /\ pc' = "room" /\ want' = Cells(Target(to) + Window) /\ back' = "read"
            /\ UNCHANGED <<active, replies>>
  <2>1. to < Len(prompt)
    BY <1>3, <1>4, <1>14
  <2>2. Target(to) \in Nat
    BY <1>2, <1>4, <2>1, TargetIs
  <2> HIDE DEF to
  <2>3. WorkerTyped'
    <3>1. Target(to) + Window \in Nat
      BY <2>2, ConstantsAre
    <3>2. Cells(Target(to) + Window) \in 0..MaxCtx
      BY <3>1, CellsIs
    <3> QED
      BY <1>1, <1>14, <3>2 DEF IInv, WorkerTyped, Phases
  <2>4. Hands'
    <3>1. conv'[1][cur'] = D
      BY <1>1, <1>2, <1>8
    <3>2. Len(conv'[1][cur'].hist) = to
      BY <1>7, <3>1
    <3>3. want' = Cells(Target(Len(conv[1][cur].hist)) + Window)'
      BY <1>1, <1>14, <3>2 DEF Target, Cells
    <3> QED
      BY <1>1, <1>2, <1>14, <2>1, <3>2, <3>3 DEF Hands, Starting, Copying, Reading, InRound
  <2>5. Promised' /\ WantMapped'
    BY <1>14 DEF Promised, WantMapped, Copying
  <2>6. WindowMapped'
    <3>1. active \subseteq Slots \ {cur}
      BY <1>2 DEF IInv, WorkerTyped
    <3> QED
      BY <1>8, <1>10, <1>14, <3>1 DEF IInv, WindowMapped
  <2> QED
    BY <1>11, <1>12, <2>3, <2>4, <2>5, <2>6 DEF IInv
<1> QED
  BY <1>1, <1>13, <1>14

LEMMA DecodeInv ==
  ASSUME IInv, Decode
  PROVE  IInv'
<1> DEFINE c  == conv[1][cur]
           ts == <<Reply>>
           D  == Fed(c, ts)
           n  == Len(c.hist) + 1
<1>1. /\ pc = "decode" /\ pc' = "idle"
      /\ conv' = [g \in Stages |-> [conv[g] EXCEPT ![cur] = Fed(conv[g][cur], ts)]]
      /\ replies' = [replies EXCEPT ![cur] = @ + 1]
      /\ UNCHANGED <<cur, prompt, cuts, plan, want, back, mapped, parked, age, active, asked, failures>>
  BY DEF Decode, OnEveryStage
<1>2. /\ back = "decode" /\ ~Copying /\ InRound /\ 1 \in Stages
      /\ cur \in active /\ cur \in Slots /\ replies[cur] < MaxReplies /\ want = Cells(n + Window)
      /\ \A g \in Stages : conv[g][cur] = c /\ mapped[g][cur] >= want
  <2>1. back = "decode" /\ ~Copying /\ InRound /\ 1 \in Stages
    BY <1>1, ConstantsAre DEF IInv, WorkerTyped, Copying, InRound
  <2>2. cur \in active /\ cur \in Slots /\ replies[cur] < MaxReplies /\ want = Cells(n + Window)
    BY <2>1 DEF IInv, WorkerTyped, Hands
  <2> QED
    BY <1>1, <2>1, <2>2 DEF IInv, SameEverywhere, WantMapped
<1>3. Sound(c) /\ Len(c.hist) \in Nat
  <2>1. Sound(c)
    BY <1>2 DEF IInv, AllSound
  <2> QED
    BY <2>1, SoundIs
<1> HIDE DEF c
<1>4. ts \in Text /\ Len(ts) = 1
  BY ConstantsAre DEF Text
<1>5. Sound(D) /\ Len(D.hist) = n /\ n \in Nat
  <2>1. Sound(D) /\ Len(D.hist) = Len(c.hist) + Len(ts)
    BY <1>3, <1>4, FedSound
  <2> HIDE DEF D, ts
  <2> QED
    BY <1>3, <1>4, <2>1
<1>6. conv' = [g \in Stages |-> [conv[g] EXCEPT ![cur] = D]]
  BY <1>1, <1>2
<1> HIDE DEF D, ts, n
<1>7. /\ conv' \in [Stages -> [Slots -> Record]]
      /\ \A g \in Stages, q \in Slots : Sound(conv'[g][q]) /\ conv'[g][q] = conv'[1][q]
      /\ \A g \in Stages : conv'[g][cur] = D /\ \A q \in Slots \ {cur} : conv'[g][q] = conv[g][q]
  BY <1>2, <1>5, <1>6, SlotBecomes DEF IInv
<1>8. WorkerTyped'
  <2>1. replies \in [Slots -> 0..MaxReplies]
    BY DEF IInv, WorkerTyped
  <2>2. replies' \in [Slots -> 0..MaxReplies]
    <3>1. replies[cur] + 1 \in 0..MaxReplies
      BY <1>2, <2>1, ConstantsAre
    <3> QED
      BY <1>1, <2>1, <3>1
  <2> QED
    BY <1>1, <2>2 DEF IInv, WorkerTyped, Phases
<1>9. MemoryTyped' /\ AllSound'
  BY <1>1, <1>7 DEF IInv, MemoryTyped, AllSound
<1>10. SameEverywhere'
  BY <1>1, <1>7 DEF IInv, SameEverywhere
<1>11. Hands' /\ Promised' /\ WantMapped'
  BY <1>1 DEF Hands, Promised, WantMapped, Starting, Copying, Reading, InRound
<1>12. WindowMapped'
  <2>1. ASSUME NEW s \in active, NEW g \in Stages
        PROVE  mapped'[g][s] >= Min({MaxCtx, Len(conv'[g][s].hist) + Window})
    <3>1. CASE s = cur
      <4>1. Len(conv'[g][s].hist) = n
        BY <1>5, <1>7, <3>1
      <4>2. n + Window \in Nat
        BY <1>5, ConstantsAre
      <4>3. Min({MaxCtx, n + Window}) \in Nat /\ Min({MaxCtx, n + Window}) <= MaxCtx /\ Min({MaxCtx, n + Window}) <= n + Window
        BY <4>2, ConstantsAre, MinOfTwo
      <4>4. Cells(n + Window) \in 0..MaxCtx /\ (n + Window <= Cells(n + Window) \/ Cells(n + Window) = MaxCtx)
        BY <4>2, CellsIs
      <4>5. mapped'[g][s] >= Cells(n + Window) /\ mapped'[g][s] \in 0..MaxCtx
        BY <1>1, <1>2, <3>1 DEF IInv, MemoryTyped
      <4> QED
        BY <4>1, <4>2, <4>3, <4>4, <4>5, ConstantsAre
    <3>2. CASE s # cur
      <4>1. s \in Slots \ {cur}
        BY <3>2 DEF IInv, WorkerTyped
      <4>2. mapped[g][s] >= Min({MaxCtx, Len(conv[g][s].hist) + Window})
        BY DEF IInv, WindowMapped
      <4> QED
        BY <1>1, <1>7, <4>1, <4>2
    <3> QED
      BY <3>1, <3>2
  <2> QED
    BY <1>1, <2>1 DEF WindowMapped
<1> QED
  BY <1>8, <1>9, <1>10, <1>11, <1>12 DEF IInv

LEMMA StutterInv ==
  ASSUME IInv, UNCHANGED vars
  PROVE  IInv'
<1>1. UNCHANGED <<pc, cur, prompt, cuts, plan, want, back, conv, mapped, parked, age, active, replies, asked, failures>>
  BY DEF vars, worker, memory
<1>2. WorkerTyped' /\ MemoryTyped' /\ AllSound' /\ SameEverywhere'
  BY <1>1 DEF IInv, WorkerTyped, MemoryTyped, AllSound, SameEverywhere, Copying
<1>3. Hands'
  BY <1>1 DEF IInv, Hands, Starting, Copying, Reading, InRound, Target
<1>4. Promised'
  BY <1>1 DEF IInv, Promised, SourceThere, Offers, Copying
<1>5. WindowMapped' /\ WantMapped'
  BY <1>1 DEF IInv, WindowMapped, WantMapped
<1> QED
  BY <1>2, <1>3, <1>4, <1>5 DEF IInv

-----------------------------------------------------------------------------
(* Room: what is mapped on a stage, and what is parked *)

Rows == [Slots -> 0..MaxCtx]

LEMMA CellsFinite ==
  ASSUME NEW row \in Rows
  PROVE  IsFiniteSet(CellsOf(row)) /\ Cardinality(CellsOf(row)) \in Nat
<1>1. IsFiniteSet(Slots) /\ IsFiniteSet(1..MaxCtx)
  BY ParkingAssumption, FS_Interval
<1>2. IsFiniteSet(Slots \X (1..MaxCtx))
  BY <1>1, FS_Product
<1>3. CellsOf(row) \in SUBSET (Slots \X (1..MaxCtx))
  BY DEF CellsOf
<1> QED
  BY <1>2, <1>3, FS_Subset, FS_CardinalityType

\* Where no slot has more mapped, no more is used.
LEMMA NoMoreUsed ==
  ASSUME NEW row \in Rows, NEW old \in Rows, \A s \in Slots : row[s] <= old[s]
  PROVE  Cardinality(CellsOf(row)) <= Cardinality(CellsOf(old))
<1>1. ASSUME NEW x \in CellsOf(row) PROVE x \in CellsOf(old)
  <2>1. x \in Slots \X (1..MaxCtx) /\ x[1] \in Slots /\ x[2] \in 1..MaxCtx /\ x[2] <= row[x[1]]
    BY DEF CellsOf
  <2>2. row[x[1]] \in 0..MaxCtx /\ old[x[1]] \in 0..MaxCtx /\ row[x[1]] <= old[x[1]]
    BY <2>1 DEF Rows
  <2>3. x[2] <= old[x[1]]
    BY <2>1, <2>2, ConstantsAre
  <2> QED
    BY <2>1, <2>3 DEF CellsOf
<1>2. CellsOf(row) \in SUBSET CellsOf(old)
  BY <1>1
<1> QED
  BY <1>2, CellsFinite, FS_Subset

\* the cells of one slot
LEMMA CellsOfOne ==
  ASSUME NEW s, NEW n \in Nat
  PROVE  IsFiniteSet({s} \X (1..n)) /\ Cardinality({s} \X (1..n)) = n
<1>1. IsFiniteSet({s}) /\ Cardinality({s}) = 1
  BY FS_Singleton
<1>2. IsFiniteSet(1..n) /\ Cardinality(1..n) = n
  BY FS_Interval
<1>3. IsFiniteSet({s} \X (1..n)) /\ Cardinality({s} \X (1..n)) = Cardinality({s}) * Cardinality(1..n)
  BY <1>1, <1>2, FS_Product
<1> QED
  BY <1>1, <1>2, <1>3

\* A slot that grows takes what it grows by.
LEMMA GrowthUsed ==
  ASSUME NEW old \in Rows, NEW s \in Slots, NEW n \in 0..MaxCtx
  PROVE  Cardinality(CellsOf([old EXCEPT ![s] = n])) <= Cardinality(CellsOf(old)) - old[s] + n
<1> DEFINE row == [old EXCEPT ![s] = n]
           A   == {s} \X (1..old[s])
           B   == {s} \X (1..n)
           C   == CellsOf(old)
<1>1. old[s] \in 0..MaxCtx /\ MaxCtx \in Nat /\ row \in Rows /\ row[s] = n /\ \A q \in Slots \ {s} : row[q] = old[q]
  BY ConstantsAre DEF Rows
<1>2. old[s] \in Nat /\ n \in Nat
  BY <1>1
<1>3. IsFiniteSet(A) /\ Cardinality(A) = old[s] /\ IsFiniteSet(B) /\ Cardinality(B) = n
  BY <1>2, CellsOfOne
<1>4. IsFiniteSet(C) /\ Cardinality(C) \in Nat /\ IsFiniteSet(CellsOf(row)) /\ Cardinality(CellsOf(row)) \in Nat
  <2> HIDE DEF row
  <2> QED
    BY <1>1, CellsFinite
<1>5. C \cap A = A
  <2>1. ASSUME NEW x \in A PROVE x \in C
    <3>1. x \in Slots \X (1..MaxCtx) /\ x[1] = s /\ x[2] <= old[s]
      BY <1>1
    <3> QED
      BY <3>1 DEF CellsOf
  <2> QED
    BY <2>1
<1>6. ASSUME NEW x \in CellsOf(row) PROVE x \in (C \ A) \cup B
  <2>1. x \in Slots \X (1..MaxCtx) /\ x[2] <= row[x[1]]
    BY DEF CellsOf
  <2>2. PICK q \in Slots, i \in 1..MaxCtx : x = <<q, i>>
    BY <2>1
  <2> HIDE DEF row
  <2>3. i <= row[q]
    BY <2>1, <2>2
  <2>4. CASE q = s
    <3>1. i \in 1..n
      BY <1>1, <2>3, <2>4
    <3> QED
      BY <2>2, <2>4, <3>1
  <2>5. CASE q # s
    <3>1. i <= old[q]
      BY <1>1, <2>3, <2>5
    <3>2. x \in C
      BY <2>2, <3>1 DEF CellsOf
    <3>3. x \notin A
      BY <2>2, <2>5
    <3> QED
      BY <3>2, <3>3
  <2> QED
    BY <2>4, <2>5
<1> HIDE DEF A, B, C, row
<1>7. IsFiniteSet(C \ A) /\ Cardinality(C \ A) = Cardinality(C) - old[s]
  <2>1. IsFiniteSet(C \ A) /\ Cardinality(C \ A) = Cardinality(C) - Cardinality(C \cap A)
    BY <1>4, FS_Difference, Zenon
  <2> QED
    BY <1>3, <1>5, <2>1
<1>8. /\ IsFiniteSet((C \ A) \cup B)
      /\ Cardinality((C \ A) \cup B) = Cardinality(C \ A) + Cardinality(B) - Cardinality((C \ A) \cap B)
  BY <1>3, <1>7, FS_Union
<1>9. IsFiniteSet((C \ A) \cap B) /\ Cardinality((C \ A) \cap B) \in Nat
  <2>1. (C \ A) \cap B \in SUBSET B
    OBVIOUS
  <2> QED
    BY <1>3, <2>1, FS_Subset, FS_CardinalityType
<1>10. CellsOf(row) \in SUBSET ((C \ A) \cup B)
  BY <1>6
<1>11. Cardinality(CellsOf(row)) <= Cardinality((C \ A) \cup B)
  BY <1>8, <1>10, FS_Subset
<1>12. Cardinality(CellsOf(row)) <= Cardinality(C) - old[s] + n
  BY <1>1, <1>3, <1>4, <1>7, <1>8, <1>9, <1>11
<1> QED
  BY <1>12 DEF row, C

\* Fewer entries take no more.
LEMMA NoMoreParked ==
  ASSUME NEW es, NEW old, es \subseteq old, IsFiniteSet(UnitsOf(old))
  PROVE  IsFiniteSet(UnitsOf(es)) /\ ParkedBytes(es) <= ParkedBytes(old) /\ ParkedBytes(old) \in Nat
<1>1. UnitsOf(es) \in SUBSET UnitsOf(old)
  BY DEF UnitsOf
<1> QED
  BY <1>1, FS_Subset, FS_CardinalityType DEF ParkedBytes

\* One more entry takes its bytes, on the stages it reached.
LEMMA OneMoreParked ==
  ASSUME NEW es, IsFiniteSet(UnitsOf(es)), NEW e, BytesOn(e.c, e.on) \in Nat
  PROVE  /\ IsFiniteSet(UnitsOf(es \cup {e}))
         /\ ParkedBytes(es \cup {e}) <= ParkedBytes(es) + BytesOn(e.c, e.on)
<1> DEFINE B == {e.id} \X (1..BytesOn(e.c, e.on))
           C == UnitsOf(es)
<1>1. IsFiniteSet(B) /\ Cardinality(B) = BytesOn(e.c, e.on) /\ IsFiniteSet(C)
  BY CellsOfOne
<1>2. UnitsOf(es \cup {e}) = C \cup B
  BY Zenon DEF UnitsOf
<1> HIDE DEF B, C
<1>3. IsFiniteSet(C \cup B) /\ Cardinality(C \cup B) = Cardinality(C) + Cardinality(B) - Cardinality(C \cap B)
  BY <1>1, FS_Union
<1>4. C \cap B \in SUBSET B
  OBVIOUS
<1>5. Cardinality(C \cap B) \in Nat /\ Cardinality(C) \in Nat
  BY <1>1, <1>4, FS_Subset, FS_CardinalityType
<1>6. Cardinality(C \cup B) <= Cardinality(C) + BytesOn(e.c, e.on)
  BY <1>1, <1>3, <1>5
<1> QED
  BY <1>2, <1>3, <1>6 DEF ParkedBytes, C

\* On some of the stages a conversation takes no more than on all.
LEMMA BytesIs ==
  ASSUME NEW c, Sound(c), NEW n \in Stages
  PROVE  Bytes(c) \in Nat /\ BytesOn(c, n) \in Nat /\ BytesOn(c, n) <= Bytes(c)
<1>1. Len(c.hist) \in Nat /\ Cardinality(c.ck) \in Nat /\ NStages \in Nat
  BY SoundIs, FS_CardinalityType, ConstantsAre DEF Sound
<1>2. PICK m \in Nat : m = Len(c.hist) + 1 + Cardinality(c.ck)
  BY <1>1
<1>3. PICK d \in Nat : NStages = n + d
  <2>1. NStages - n \in Nat /\ NStages = n + (NStages - n)
    BY <1>1 DEF Stages
  <2> QED
    BY <2>1
<1>4. n \in Nat
  BY DEF Stages
<1>5. \A a, b \in Nat : a * b \in Nat
  OBVIOUS
<1>6. \A a, b, x \in Nat : (a + b) * x = a * x + b * x
  OBVIOUS
<1>7. n * m \in Nat /\ d * m \in Nat /\ NStages * m = n * m + d * m
  BY <1>2, <1>3, <1>4, <1>5, <1>6
<1>8. PICK u \in Nat, v \in Nat : u = n * m /\ v = d * m /\ NStages * m = u + v
  BY <1>7
<1>9. Bytes(c) = u + v /\ BytesOn(c, n) = u
  BY <1>2, <1>8 DEF Bytes, BytesOn
<1> QED
  BY <1>8, <1>9

\* No stage maps more than it has, and the parked conversations fit their limit.
ParkedFit == IsFiniteSet(UnitsOf(parked[1])) /\ ParkedBytes(parked[1]) <= ParkLimit
MappedFit == \A g \in Stages : Used(g) <= Vram[g]
RoomInv   == ParkedFit /\ MappedFit

LEMMA RowIs ==
  ASSUME MemoryTyped, NEW g \in Stages
  PROVE  mapped[g] \in Rows /\ Vram[g] \in Nat /\ Vram[g] >= MaxCtx /\ Used(g) \in Nat
<1>1. mapped[g] \in Rows /\ Vram[g] \in Nat /\ Vram[g] >= MaxCtx
  BY ParkingAssumption DEF MemoryTyped, Rows
<1> QED
  BY <1>1, CellsFinite DEF Used

LEMMA InitRoom == Init => RoomInv
<1> SUFFICES ASSUME Init PROVE RoomInv
  OBVIOUS
<1>1. ParkedFit
  <2>1. parked[1] = {}
    BY ConstantsAre DEF Init
  <2>2. UnitsOf(parked[1]) = {}
    BY <2>1 DEF UnitsOf
  <2>3. IsFiniteSet({}) /\ Cardinality({}) = 0
    BY FS_EmptySet
  <2> QED
    BY <2>2, <2>3, ParkingAssumption DEF ParkedFit, ParkedBytes
<1>2. ASSUME NEW g \in Stages PROVE Used(g) <= Vram[g]
  <2> DEFINE row == [s \in Slots |-> IF s = 0 THEN Baseline ELSE 0]
  <2>1. mapped[g] = row
    BY DEF Init
  <2>2. row \in Rows /\ Baseline \in Nat /\ Baseline <= MaxCtx /\ \A s \in Slots : row[s] = IF s = 0 THEN Baseline ELSE 0
    BY ConstantsAre DEF Rows
  <2> HIDE DEF row
  <2>3. ASSUME NEW x \in CellsOf(row) PROVE x \in {0} \X (1..Baseline)
    <3>1. x \in Slots \X (1..MaxCtx) /\ x[2] <= row[x[1]]
      BY DEF CellsOf
    <3>2. PICK q \in Slots, i \in 1..MaxCtx : x = <<q, i>>
      BY <3>1
    <3>3. i <= row[q]
      BY <3>1, <3>2
    <3>4. q = 0 /\ i \in 1..Baseline
      BY <2>2, <3>3
    <3> QED
      BY <3>2, <3>4
  <2>4. IsFiniteSet({0} \X (1..Baseline)) /\ Cardinality({0} \X (1..Baseline)) = Baseline
    BY <2>2, CellsOfOne
  <2>5. CellsOf(row) \in SUBSET ({0} \X (1..Baseline))
    BY <2>3
  <2>6. Cardinality(CellsOf(row)) <= Baseline /\ Cardinality(CellsOf(row)) \in Nat
    BY <2>2, <2>4, <2>5, FS_Subset, CellsFinite
  <2>7. Vram[g] \in Nat /\ Vram[g] >= MaxCtx /\ MaxCtx \in Nat
    BY ParkingAssumption
  <2> QED
    BY <2>1, <2>2, <2>6, <2>7 DEF Used
<1> QED
  BY <1>1, <1>2 DEF RoomInv, MappedFit

\* A step that maps nothing keeps within what every stage has.
LEMMA MappedShrinks ==
  ASSUME MemoryTyped, MemoryTyped', MappedFit, \A g \in Stages, s \in Slots : mapped'[g][s] <= mapped[g][s]
  PROVE  MappedFit'
<1>1. ASSUME NEW g \in Stages PROVE Cardinality(CellsOf(mapped'[g])) <= Vram[g]
  <2>1. mapped[g] \in Rows /\ mapped'[g] \in Rows /\ Vram[g] \in Nat /\ Used(g) \in Nat
    BY RowIs DEF MemoryTyped, Rows
  <2>2. Cardinality(CellsOf(mapped'[g])) <= Cardinality(CellsOf(mapped[g])) /\ Cardinality(CellsOf(mapped'[g])) \in Nat
    BY <2>1, NoMoreUsed, CellsFinite
  <2>3. Cardinality(CellsOf(mapped[g])) <= Vram[g] /\ Cardinality(CellsOf(mapped[g])) \in Nat
    BY <2>1 DEF MappedFit, Used
  <2> QED
    BY <2>1, <2>2, <2>3
<1> QED
  BY <1>1 DEF MappedFit, Used

\* Parking makes room first, and a conversation no room was made for is not parked.
LEMMA ParkRoom ==
  ASSUME MemoryTyped, AllSound, ParkedFit, NEW s \in Slots, NEW keep \in Nat, NEW N, ParkOutcome(s, keep, N)
  PROVE  ParkedFit'
<1> DEFINE spared == MadeRoom(s, keep)
<1>1. Sound(conv[1][s]) /\ parked'[1] = spared \cup N
  BY ParkKeeps, ConstantsAre DEF AllSound
<1>2. spared \subseteq parked[1]
  BY DEF MadeRoom, Spared, NotSuperseded, Younger
<1> HIDE DEF spared
<1>3. /\ IsFiniteSet(UnitsOf(spared)) /\ ParkedBytes(spared) <= ParkedBytes(parked[1])
      /\ ParkedBytes(parked[1]) \in Nat /\ ParkedBytes(spared) \in Nat /\ ParkLimit \in Nat
      /\ ParkedBytes(parked[1]) <= ParkLimit
  <2>1. IsFiniteSet(UnitsOf(spared)) /\ ParkedBytes(spared) <= ParkedBytes(parked[1]) /\ ParkedBytes(parked[1]) \in Nat
    BY <1>2, NoMoreParked DEF ParkedFit
  <2>2. ParkedBytes(spared) \in Nat
    BY <2>1, FS_CardinalityType DEF ParkedBytes
  <2> QED
    BY <2>1, <2>2, ParkingAssumption DEF ParkedFit
<1>4. CASE N = {}
  <2>1. parked'[1] = spared /\ ParkedBytes(spared) <= ParkLimit
    BY <1>1, <1>3, <1>4
  <2> QED
    BY <1>3, <2>1 DEF ParkedFit
<1>5. CASE N # {}
  <2>1. PICK n \in Stages : N = {[id |-> age + 1, c |-> conv[1][s], on |-> n]}
    BY <1>5 DEF ParkOutcome
  <2>2. ParkedBytes(spared) + Bytes(conv[1][s]) <= ParkLimit
    BY <1>5 DEF ParkOutcome, ParkFits, HasRoom, spared
  <2> DEFINE new == [id |-> age + 1, c |-> conv[1][s], on |-> n]
  <2>3. new.c = conv[1][s] /\ new.on = n /\ N = {new}
    BY <2>1
  <2> HIDE DEF new
  <2>4. /\ Bytes(conv[1][s]) \in Nat /\ BytesOn(new.c, new.on) \in Nat
        /\ BytesOn(new.c, new.on) <= Bytes(conv[1][s])
    BY <1>1, <2>3, BytesIs
  <2>5. /\ IsFiniteSet(UnitsOf(spared \cup {new}))
        /\ ParkedBytes(spared \cup {new}) <= ParkedBytes(spared) + BytesOn(new.c, new.on)
    BY <1>3, <2>4, OneMoreParked
  <2>6. ParkedBytes(spared \cup {new}) \in Nat
    BY <2>5, FS_CardinalityType DEF ParkedBytes
  <2>7. ParkedBytes(spared \cup {new}) <= ParkLimit
    BY <1>3, <2>2, <2>4, <2>5, <2>6
  <2> QED
    BY <1>1, <2>3, <2>5, <2>7 DEF ParkedFit
<1> QED
  BY <1>4, <1>5

LEMMA MapContextRoom ==
  ASSUME IInv, MappedFit, MapContext
  PROVE  MappedFit'
<1>1. /\ pc = "room" /\ Lacking # {} /\ mapped' = [mapped EXCEPT ![Stage][cur] = want] /\ Fits(Stage)
  BY DEF MapContext
<1>2. cur \in Slots
  BY <1>1, InRoom
<1>3. Stage \in Stages
  <2>1. Lacking \in SUBSET Nat
    BY ConstantsAre DEF Lacking, Stages
  <2>2. Stage \in Lacking
    BY <1>1, <2>1, MinIs DEF Stage
  <2> QED
    BY <2>2 DEF Lacking
<1> DEFINE h == Stage
<1> HIDE DEF h
<1>4. /\ h \in Stages /\ mapped' = [mapped EXCEPT ![h][cur] = want]
      /\ Used(h) - mapped[h][cur] + want <= Vram[h]
  BY <1>1, <1>3 DEF h, Fits
<1>5. mapped \in [Stages -> Rows] /\ want \in 0..MaxCtx /\ MemoryTyped /\ MaxCtx \in Nat
  BY ConstantsAre DEF IInv, MemoryTyped, WorkerTyped, Rows
<1>6. ASSUME NEW g \in Stages PROVE Cardinality(CellsOf(mapped'[g])) <= Vram[g]
  <2>1. CASE g # h
    <3>1. mapped'[g] = mapped[g]
      BY <1>4, <1>5, <2>1
    <3> QED
      BY <3>1 DEF MappedFit, Used
  <2>2. CASE g = h
    <3>1. mapped'[h] = [mapped[h] EXCEPT ![cur] = want]
      BY <1>4, <1>5
    <3>2. mapped[h] \in Rows /\ Vram[h] \in Nat /\ Used(h) \in Nat
      BY <1>4, <1>5, RowIs
    <3>3. Cardinality(CellsOf(mapped'[h])) <= Used(h) - mapped[h][cur] + want
      BY <1>2, <1>5, <3>1, <3>2, GrowthUsed DEF Used
    <3>4. mapped'[h] \in Rows /\ mapped[h][cur] \in 0..MaxCtx
      BY <1>2, <1>5, <3>1, <3>2 DEF Rows
    <3>5. Cardinality(CellsOf(mapped'[h])) \in Nat
      BY <3>4, CellsFinite
    <3> QED
      BY <1>4, <1>5, <2>2, <3>2, <3>3, <3>4, <3>5
  <2> QED
    BY <2>1, <2>2
<1> QED
  BY <1>6 DEF MappedFit, Used

\* What a reset, or the cut after a prompt, leaves of a slot's context.
LEMMA CutShrinks ==
  ASSUME MemoryTyped, NEW g \in Stages, NEW s \in Slots, NEW n \in Nat
  PROVE  Min({mapped[g][s], n}) <= mapped[g][s] /\ mapped[g][s] \in Nat
<1>1. mapped[g][s] \in Nat
  BY ConstantsAre DEF MemoryTyped
<1> QED
  BY <1>1, MinOfTwo

LEMMA ShrunkRoom ==
  ASSUME IInv, MemoryTyped', MappedFit, NEW s \in Slots, mapped' = Shrunk(s)
  PROVE  MappedFit'
<1>1. ASSUME NEW g \in Stages, NEW q \in Slots PROVE mapped'[g][q] <= mapped[g][q]
  <2>1. Min({mapped[g][s], Baseline}) <= mapped[g][s] /\ mapped[g][q] \in Nat
    <3>1. MemoryTyped /\ Baseline \in Nat
      BY ConstantsAre DEF IInv
    <3>2. Min({mapped[g][s], Baseline}) <= mapped[g][s]
      BY <3>1, CutShrinks
    <3>3. mapped[g][q] \in Nat
      BY <3>1, ConstantsAre DEF MemoryTyped
    <3> QED
      BY <3>2, <3>3
  <2>2. mapped'[g] = [mapped[g] EXCEPT ![s] = Min({mapped[g][s], Baseline})] /\ mapped[g] \in Rows
    BY RowIs DEF Shrunk, IInv
  <2> QED
    BY <2>1, <2>2 DEF Rows
<1> QED
  BY <1>1, MappedShrinks DEF IInv

LEMMA LoseRoom ==
  ASSUME IInv, MemoryTyped', MappedFit, NEW lose, Lose(lose)
  PROVE  MappedFit'
<1>1. mapped' = [g \in Stages |-> [s \in Slots |-> IF s \in lose THEN Min({mapped[g][s], Baseline}) ELSE mapped[g][s]]]
  BY DEF Lose
<1>2. ASSUME NEW g \in Stages, NEW s \in Slots PROVE mapped'[g][s] <= mapped[g][s]
  <2>1. Min({mapped[g][s], Baseline}) <= mapped[g][s] /\ mapped[g][s] \in Nat
    BY CutShrinks, ConstantsAre DEF IInv
  <2> QED
    BY <1>1, <2>1
<1> QED
  BY <1>2, MappedShrinks DEF IInv

LEMMA ReadRoom ==
  ASSUME IInv, MemoryTyped', MappedFit, Read
  PROVE  MappedFit'
<1> DEFINE to == Target(Len(conv[1][cur].hist))
<1>1. mapped' = [g \in Stages |-> [mapped[g] EXCEPT ![cur] = Min({mapped[g][cur], Kept(to)})]] /\ pc = "read"
  BY DEF Read
<1>2. cur \in Slots /\ to \in Nat
  <2>1. Starting /\ Reading
    BY <1>1 DEF IInv, WorkerTyped, Starting, Reading
  <2>2. cur \in Slots /\ prompt \in Prompts /\ Len(conv[1][cur].hist) < Len(prompt) /\ cuts \subseteq 1..MaxCtx
    BY <2>1 DEF IInv, Hands, WorkerTyped
  <2>3. Len(conv[1][cur].hist) \in Nat
    BY <2>2, SoundIs, ConstantsAre DEF IInv, AllSound
  <2> QED
    BY <2>2, <2>3, TargetIs DEF IInv
<1> HIDE DEF to
<1>3. Kept(to) \in Nat
  <2>1. to + Window \in Nat /\ Baseline \in Nat
    BY <1>2, ConstantsAre
  <2>2. Cells(to + Window) \in Nat
    BY <2>1, CellsIs, ConstantsAre
  <2> QED
    BY <2>1, <2>2, MaxOfTwo DEF Kept
<1>4. ASSUME NEW g \in Stages, NEW s \in Slots PROVE mapped'[g][s] <= mapped[g][s]
  <2>1. Min({mapped[g][cur], Kept(to)}) <= mapped[g][cur] /\ mapped[g][s] \in Nat
    BY <1>2, <1>3, CutShrinks DEF IInv
  <2>2. mapped'[g] = [mapped[g] EXCEPT ![cur] = Min({mapped[g][cur], Kept(to)})] /\ mapped[g] \in Rows
    BY <1>1, RowIs DEF IInv
  <2> QED
    BY <1>2, <2>1, <2>2 DEF Rows
<1> QED
  BY <1>4, MappedShrinks DEF IInv

LEMMA MappedStill ==
  ASSUME MappedFit, UNCHANGED mapped
  PROVE  MappedFit'
BY DEF MappedFit, Used

LEMMA ParkedStill ==
  ASSUME ParkedFit, UNCHANGED parked
  PROVE  ParkedFit'
BY DEF ParkedFit

LEMMA RoomNext ==
  ASSUME IInv, IInv', RoomInv, [Next]_vars
  PROVE  RoomInv'
<1>1. MemoryTyped /\ AllSound /\ MemoryTyped' /\ MappedFit /\ ParkedFit /\ failures \in 0..MaxPinFailures
  BY DEF IInv, RoomInv, WorkerTyped
<1>2. CASE UNCHANGED <<mapped, parked>>
  BY <1>1, <1>2, MappedStill, ParkedStill DEF RoomInv
<1>3. CASE ParkLive
  <2>1. /\ cur \in Slots /\ plan.id \in Nat /\ \A g \in Stages : conv[g][cur] = conv[1][cur]
        /\ ParkOf(cur, plan.id) /\ UNCHANGED mapped
    <3>1. pc = "park" /\ ParkOf(cur, plan.id) /\ UNCHANGED mapped
      BY <1>3 DEF ParkLive, ParkOf
    <3>2. cur \in Slots /\ plan.id \in Nat /\ \A g \in Stages, s \in Slots : conv[g][s] = conv[1][s]
      BY <3>1, LiveIs
    <3> QED
      BY <3>1, <3>2
  <2>2. PICK N : ParkOutcome(cur, plan.id, N)
    BY <1>1, <2>1, ParkEnds DEF IInv
  <2>3. ParkedFit'
    BY <1>1, <2>1, <2>2, ParkRoom
  <2> QED
    BY <1>1, <2>1, <2>3, MappedStill DEF RoomInv
<1>4. CASE MapContext
  <2>1. UNCHANGED parked
    BY <1>4 DEF MapContext
  <2> QED
    BY <1>1, <1>4, <2>1, MapContextRoom, ParkedStill DEF RoomInv
<1>5. CASE Evict
  <2>1. PICK s \in Slots :
          /\ Victim(s)
          /\ IF WorthParking(s)
             THEN \E k \in 0..NStages : Park(s, Restoring, k)
             ELSE UNCHANGED <<parked, age, failures>>
          /\ mapped' = Shrunk(s)
    BY <1>5 DEF Evict
  <2>2. Restoring \in Nat /\ \A g \in Stages : conv[g][s] = conv[1][s]
    BY <2>1, VictimIs
  <2>3. MappedFit'
    BY <1>1, <2>1, ShrunkRoom
  <2>4. CASE UNCHANGED <<parked, age, failures>>
    BY <1>1, <2>3, <2>4, ParkedStill DEF RoomInv
  <2>5. CASE \E k \in 0..NStages : Park(s, Restoring, k)
    <3>1. ParkOf(s, Restoring)
      BY <2>5 DEF ParkOf
    <3> HIDE DEF Restoring
    <3>2. PICK N : ParkOutcome(s, Restoring, N)
      BY <1>1, <2>2, <3>1, ParkEnds DEF IInv
    <3>3. ParkedFit'
      BY <1>1, <2>2, <3>2, ParkRoom
    <3> QED
      BY <2>3, <3>3 DEF RoomInv
  <2> QED
    BY <2>1, <2>4, <2>5
<1>6. CASE NoRoom \/ SourceLost
  <2>1. UNCHANGED parked /\ \E lose : Lose(lose)
    BY <1>6 DEF NoRoom, SourceLost
  <2> QED
    BY <1>1, <2>1, LoseRoom, ParkedStill DEF RoomInv
<1>12. CASE ParkLiveThrows \/ EvictThrows
  <2>1. PICK s \in Slots, keep \in Nat : \E N : ParkOutcome(s, keep, N)
    BY <1>12, ParkLiveThrown, EvictThrown
  <2>2. PICK N : ParkOutcome(s, keep, N)
    BY <2>1
  <2>3. ParkedFit'
    BY <1>1, <2>2, ParkRoom
  <2>4. PICK lose : Lose(lose)
    BY <1>12 DEF ParkLiveThrows, EvictThrows
  <2> QED
    BY <1>1, <2>3, <2>4, LoseRoom DEF RoomInv
<1>7. CASE Restore
  <2>1. parked'[1] \subseteq parked[1] /\ UNCHANGED mapped
    BY <1>7, ConstantsAre DEF Restore
  <2>2. ParkedFit'
    <3>1. IsFiniteSet(UnitsOf(parked'[1])) /\ ParkedBytes(parked'[1]) <= ParkedBytes(parked[1]) /\ ParkedBytes(parked[1]) \in Nat
      BY <1>1, <2>1, NoMoreParked DEF ParkedFit
    <3>2. ParkedBytes(parked'[1]) \in Nat /\ ParkedBytes(parked[1]) <= ParkLimit /\ ParkLimit \in Nat
      BY <1>1, <3>1, FS_CardinalityType, ParkingAssumption DEF ParkedFit, ParkedBytes
    <3>3. ParkedBytes(parked'[1]) <= ParkLimit
      BY <3>1, <3>2
    <3> QED
      BY <3>1, <3>3 DEF ParkedFit
  <2> QED
    BY <1>1, <2>1, <2>2, MappedStill DEF RoomInv
<1>8. CASE Rewind
  <2>1. UNCHANGED parked /\ (UNCHANGED mapped \/ mapped' = Shrunk(cur)) /\ cur \in Slots
    BY <1>8 DEF Rewind, IInv, Hands, Starting
  <2> QED
    BY <1>1, <2>1, ShrunkRoom, MappedStill, ParkedStill DEF RoomInv
<1>9. CASE Read
  <2>1. UNCHANGED parked
    BY <1>9 DEF Read
  <2> QED
    BY <1>1, <1>9, <2>1, ReadRoom, ParkedStill DEF RoomInv
<1>10. (Choose \/ Roomy \/ Fork \/ Decode \/ (\E p \in Prompts : Take(p)) \/ (\E q \in Slots : Round(q) \/ Finish(q))
          \/ UNCHANGED vars) => UNCHANGED <<mapped, parked>>
  BY DEF Choose, Roomy, Fork, Decode, Take, Round, Finish, vars, memory
<1> QED
  BY <1>2, <1>3, <1>4, <1>5, <1>6, <1>7, <1>8, <1>9, <1>10, <1>12 DEF Next

-----------------------------------------------------------------------------
(* The theorems *)

\* The invariant: sound conversations, the same on every stage, and a worker whose request has what it was
\* promised, through every step.
THEOREM ParkingInvariant == Spec => []IInv
<1>1. Init => IInv
  BY InitInv
<1>2. IInv /\ [Next]_vars => IInv'
  <2> SUFFICES ASSUME IInv, [Next]_vars PROVE IInv'
    OBVIOUS
  <2>1. CASE \E p \in Prompts : Take(p)
    BY <2>1, TakeInv
  <2>2. CASE Choose \/ ParkLive \/ MapContext \/ Evict
    BY <2>2, ChooseInv, ParkLiveInv, MapContextInv, EvictInv
  <2>3. CASE Roomy \/ NoRoom \/ Restore \/ Fork
    BY <2>3, RoomyInv, NoRoomInv, RestoreInv, ForkInv
  <2>7. CASE ParkLiveThrows \/ EvictThrows \/ SourceLost
    BY <2>7, ThrowsInv, SourceLostInv
  <2>4. CASE Rewind \/ Read \/ Decode
    BY <2>4, RewindInv, ReadInv, DecodeInv
  <2>5. CASE \E s \in Slots : Round(s) \/ Finish(s)
    BY <2>5, RoundInv, FinishInv
  <2>6. CASE UNCHANGED vars
    BY <2>6, StutterInv
  <2> QED
    BY <2>1, <2>2, <2>3, <2>4, <2>5, <2>6, <2>7 DEF Next
<1> QED
  BY <1>1, <1>2, PTL DEF Spec

LEMMA InvTyped == IInv => TypeOK
<1> SUFFICES ASSUME IInv PROVE TypeOK
  OBVIOUS
<1>1. \A g \in Stages, s \in Slots : IsConversation(conv[g][s])
  BY SoundIs DEF IInv, AllSound
<1>2. \A g \in Stages : \A e \in parked[g] : e.id \in 1..age /\ e.on \in Stages /\ IsConversation(e.c)
  <2>1. ASSUME NEW g \in Stages, NEW e \in parked[g]
        PROVE  e.id \in 1..age /\ e.on \in Stages /\ IsConversation(e.c)
    <3>1. e.id \in Nat \ {0} /\ age \in Nat /\ e.on \in Stages
      BY DEF IInv, MemoryTyped
    <3>2. e.id <= age /\ Sound(e.c)
      BY DEF IInv, AllSound
    <3> QED
      BY <3>1, <3>2, SoundIs
  <2> QED
    BY <2>1
<1>3. plan.kind \in {"live", "restore", "fork parked", "fork slot"}
  BY DEF IInv, WorkerTyped
<1> QED
  BY <1>1, <1>2, <1>3 DEF IInv, WorkerTyped, MemoryTyped, TypeOK, Phases

\* Whatever was parked, restored, forked, rewound or evicted, every conversation is whole, and the stages have
\* the same ones whenever the worker decides on them.
THEOREM ConversationsRightHolds == Spec => []ConversationsRight
<1>1. IInv => ConversationsRight
  <2> SUFFICES ASSUME IInv PROVE ConversationsRight
    OBVIOUS
  <2>1. ContentRight
    BY DEF IInv, AllSound, Sound, ContentRight
  <2>2. StagesAgree
    <3> SUFFICES ASSUME pc \in {"idle", "choose", "rewind"}, NEW g \in Stages
                 PROVE  conv[g] = conv[1] /\ parked[g] = {e \in parked[1] : g <= e.on}
      BY DEF StagesAgree
    <3>1. conv[g] \in [Slots -> Record] /\ conv[1] \in [Slots -> Record]
      BY ConstantsAre DEF IInv, MemoryTyped
    <3>2. \A s \in Slots : conv[g][s] = conv[1][s]
      BY DEF IInv, SameEverywhere, Copying
    <3> QED
      BY <3>1, <3>2 DEF IInv, SameEverywhere, Reached
  <2> QED
    BY <2>1, <2>2, InvTyped DEF ConversationsRight
<1> QED
  BY <1>1, ParkingInvariant, PTL

\* What select_conversation promised is there when it is copied, on every stage it was parked on, and is what
\* Generator::start then keeps: rollback cannot throw, and a restore or a fork only where the parking threw.
THEOREM PromiseKeptHolds == Spec => []PromiseKept
<1>1. IInv => PromiseKept
  <2> SUFFICES ASSUME IInv PROVE PromiseKept
    OBVIOUS
  <2>1. SourceKept
    <3> SUFFICES ASSUME pc = "copy"
                 PROVE  /\ plan.kind # "fork slot" =>
                             \E e \in parked[1] : /\ e.id = plan.id /\ \A g \in 1..e.on : e \in parked[g]
                                                  /\ plan.kind = "fork parked" => plan.at \in Positions(e.c)
                        /\ plan.kind = "fork slot" => \A g \in Stages : plan.at \in Positions(conv[g][plan.slot])
      BY DEF SourceKept
    <3>1. SourceThere /\ plan.kind \in {"restore", "fork parked", "fork slot"}
      BY DEF IInv, WorkerTyped, Promised, Copying
    <3>2. ASSUME NEW e \in parked[1], NEW g \in 1..e.on PROVE e \in parked[g]
      <4>1. e.on \in Stages
        BY ConstantsAre DEF IInv, MemoryTyped
      <4>2. g \in Stages /\ g <= e.on
        BY <4>1, ConstantsAre DEF Stages
      <4> QED
        BY <4>2 DEF IInv, SameEverywhere, Reached
    <3>3. ASSUME plan.kind # "fork slot"
          PROVE  \E e \in parked[1] : /\ e.id = plan.id /\ \A g \in 1..e.on : e \in parked[g]
                                      /\ plan.kind = "fork parked" => plan.at \in Positions(e.c)
      BY <3>1, <3>2, <3>3 DEF SourceThere, Offers
    <3>4. ASSUME plan.kind = "fork slot", NEW g \in Stages PROVE plan.at \in Positions(conv[g][plan.slot])
      <4>1. plan.slot \in Slots /\ plan.slot # cur /\ Offers(conv[1][plan.slot])
        BY <3>1, <3>4 DEF SourceThere
      <4>2. conv[g][plan.slot] = conv[1][plan.slot]
        BY <4>1 DEF IInv, SameEverywhere
      <4> QED
        BY <4>1, <4>2 DEF Offers
    <3> QED
      BY <3>3, <3>4
  <2>2. StartsAsChosen
    <3> SUFFICES ASSUME pc = "rewind", NEW g \in Stages PROVE StartKeeps(conv[g][cur]) = plan.at
      BY DEF StartsAsChosen
    <3>1. cur \in Slots /\ plan.at = Reuse(conv[1][cur], prompt)
      BY DEF IInv, Hands, Starting, Promised
    <3>2. conv[g][cur] = conv[1][cur]
      BY <3>1 DEF IInv, SameEverywhere, Copying
    <3> QED
      BY <3>1, <3>2, StartIsReuse
  <2> QED
    BY <2>1, <2>2 DEF PromiseKept
<1> QED
  BY <1>1, ParkingInvariant, PTL

\* Whatever is parked, evicted, restored or cut, the parked conversations fit their limit, no stage maps more
\* than it has, and between rounds a request in flight has a window's room past its position on every stage.
THEOREM RoomKeptHolds == Spec => []RoomKept
<1>1. Init => RoomInv
  BY InitRoom
<1>2. IInv /\ IInv' /\ RoomInv /\ [Next]_vars => RoomInv'
  BY RoomNext
<1>3. IInv /\ RoomInv => RoomKept
  BY DEF IInv, WindowMapped, RoomInv, ParkedFit, MappedFit, RoomKept, ParkBudget, DraftsFit
<1> QED
  BY <1>1, <1>2, <1>3, ParkingInvariant, PTL DEF Spec

\* No conversation in flight is moved, rewound or shortened by another request's.
THEOREM InFlightGrowsHolds == Spec => InFlightGrows
<1>1. IInv /\ [Next]_vars =>
        [\A s \in active \cap active', g \in Stages : IsPrefix(conv[g][s].hist, conv'[g][s].hist)]_vars
  <2> SUFFICES ASSUME IInv, Next, NEW s \in active \cap active', NEW g \in Stages
               PROVE  IsPrefix(conv[g][s].hist, conv'[g][s].hist)
    OBVIOUS
  <2>1. s \in Slots /\ 1 \in Stages /\ conv \in [Stages -> [Slots -> Record]]
    BY ConstantsAre DEF IInv, WorkerTyped, MemoryTyped
  <2>2. Sound(conv[g][s]) /\ conv[g][s].hist \in Text
    <3>1. Sound(conv[g][s])
      BY <2>1 DEF IInv, AllSound
    <3> QED
      BY <3>1, SoundIs
  <2>3. ASSUME conv'[g][s] = conv[g][s] PROVE IsPrefix(conv[g][s].hist, conv'[g][s].hist)
    BY <2>2, <2>3, PrefixOfSelf
  <2>4. Starting => s # cur
    BY DEF IInv, Hands
  <2>5. CASE UNCHANGED conv
    BY <2>3, <2>5
  <2>6. CASE ParkLive
    <3>1. s # cur
      BY <2>4, <2>6 DEF ParkLive, Starting
    <3>2. conv'[g][s] = conv[g][s]
      BY <2>1, <2>6, <3>1 DEF ParkLive
    <3> QED
      BY <2>3, <3>2
  <2>7. CASE Evict
    <3>1. PICK q \in Slots : Victim(q) /\ conv' = [h \in Stages |-> [conv[h] EXCEPT ![q] = Empty]]
      BY <2>7 DEF Evict, OnEveryStage
    <3>2. q # s
      BY <3>1, VictimIs
    <3>3. conv'[g][s] = conv[g][s]
      BY <2>1, <3>1, <3>2
    <3> QED
      BY <2>3, <3>3
  <2>8. CASE NoRoom \/ ParkLiveThrows \/ EvictThrows \/ SourceLost
    <3>1. PICK lose : Lose(lose)
      BY <2>8 DEF NoRoom, ParkLiveThrows, EvictThrows, SourceLost
    <3>2. conv'[g][s] = conv[g][s]
      BY <2>1, <3>1 DEF Lose
    <3> QED
      BY <2>3, <3>2
  <2>9. CASE Restore \/ Fork
    <3>1. s # cur
      BY <2>4, <2>9 DEF Restore, Fork, Starting, Copying, IInv, WorkerTyped
    <3>2. ASSUME Restore PROVE conv'[g][s] = conv[g][s]
      <4>1. conv' = [h \in Stages |-> [conv[h] EXCEPT ![cur] = Entry(h).c]]
        BY <3>2 DEF Restore
      <4> QED
        BY <2>1, <3>1, <4>1
    <3>3. ASSUME Fork PROVE conv'[g][s] = conv[g][s]
      <4> DEFINE source(h) == IF plan.kind = "fork slot" THEN conv[h][plan.slot] ELSE Entry(h).c
                 row(h) == Snapped(Forked(source(h), plan.at, conv[h][cur]), 0)
      <4>1. conv' = [h \in Stages |-> [conv[h] EXCEPT ![cur] = row(h)]]
        BY <3>3 DEF Fork
      <4> HIDE DEF row
      <4> QED
        BY <2>1, <3>1, <4>1
    <3> QED
      BY <2>3, <2>9, <3>2, <3>3
  <2>10. CASE Rewind \/ Read
    <3>1. s # cur
      BY <2>4, <2>10 DEF Rewind, Read, Starting, Reading, IInv, WorkerTyped
    <3>2. conv'[g][s] = conv[g][s]
      BY <2>1, <2>10, <3>1 DEF Rewind, Read, OnEveryStage
    <3> QED
      BY <2>3, <3>2
  <2>11. CASE Decode
    <3>1. CASE s # cur
      <4>1. conv'[g][s] = conv[g][s]
        BY <2>1, <2>11, <3>1 DEF Decode, OnEveryStage
      <4> QED
        BY <2>3, <4>1
    <3>2. CASE s = cur
      <4>1. conv'[g][s] = Fed(conv[g][s], <<Reply>>)
        BY <2>1, <2>11, <3>2 DEF Decode, OnEveryStage
      <4>2. <<Reply>> \in Text
        BY ConstantsAre DEF Text
      <4> QED
        BY <2>2, <4>1, <4>2, FedSound
    <3> QED
      BY <3>1, <3>2
  <2>12. (Choose \/ MapContext \/ Roomy \/ (\E p \in Prompts : Take(p)) \/ \E q \in Slots : Round(q) \/ Finish(q))
           => UNCHANGED conv
    BY DEF Choose, MapContext, Roomy, Take, Round, Finish, memory
  <2> QED
    BY <2>5, <2>6, <2>7, <2>8, <2>9, <2>10, <2>11, <2>12 DEF Next
<1> QED
  BY <1>1, ParkingInvariant, PTL DEF Spec, InFlightGrows
=============================================================================
