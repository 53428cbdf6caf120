------------------------------- MODULE Parking -------------------------------
(***************************************************************************)
(* The conversations of an engine (src/engine/park.cpp, the memory part of *)
(* src/engine/engine.cpp and Generator::start): each slot holds one        *)
(* conversation on the GPUs, with snapshots of its recurrent state; others *)
(* are parked in host RAM.  A request takes a slot, starts from what the   *)
(* slot, a parked conversation or another slot shares with its prompt,     *)
(* reads the rest and decodes.  A forward or a read that needs memory      *)
(* moves idle conversations off the GPUs.                                  *)
(*                                                                         *)
(* Every stage of the pipeline (one GPU each) keeps its own copy of all    *)
(* this.  What a buffer holds is the sequence of tokens it was computed    *)
(* from.  The cache of experts gives up what the contexts need, so a       *)
(* stage's memory is a number of cells.  Pinning host RAM may fail: for a  *)
(* conversation it is given up, for a snapshot of it an exception leaves   *)
(* park, and what the earlier stages parked stays.                         *)
(***************************************************************************)
EXTENDS Integers, Sequences, FiniteSets, SequencesExt

CONSTANTS
  NStages, Slots,       \* pipeline stages; slots, numbered
  Prompts, Reply,       \* prompts, and the token every reply consists of
  Cuts,                 \* sets of positions a request asks snapshots at (start ignores those outside)
  MaxCk,                \* kMaxCheckpoints
  Window, Step, Baseline, MaxCtx,   \* kMaxWindow, kCtxStep, kCtxBaseline, max_ctx, in cells
  Vram,                 \* cells a stage can map
  ParkMin, ForkMin,     \* tokens that make parking, or a fork, worth it
  ParkLimit,            \* park_gib; a token's cells and a snapshot of the state count 1 per stage
  MaxRequests, MaxReplies, MaxPinFailures,   \* bounds
  None

Stages == 1..NStages

ASSUME ParkingAssumption ==
  /\ NStages \in Nat \ {0} /\ Slots \subseteq Nat /\ Slots # {} /\ IsFiniteSet(Slots) /\ None \notin Slots
  /\ \A p \in Prompts : p \in Seq(Nat) /\ p # <<>> /\ Len(p) + MaxReplies <= MaxCtx
  /\ \A c \in Cuts : c \subseteq 1..MaxCtx
  /\ Reply \in Nat /\ MaxCk \in Nat \ {0}
  /\ Window \in Nat \ {0} /\ Step \in Nat \ {0} /\ Baseline \in 1..MaxCtx /\ MaxCtx \in Nat
  /\ Vram \in [Stages -> Nat] /\ \A g \in Stages : Vram[g] >= MaxCtx
  /\ ParkMin \in Nat \ {0} /\ ForkMin \in Nat /\ ParkLimit \in Nat
  /\ MaxRequests \in Nat /\ MaxReplies \in Nat /\ MaxPinFailures \in Nat

VARIABLES
  pc,                    \* what the worker does: idle, choose, park, room, copy, rewind, read, decode
  cur, prompt, cuts,     \* the slot worked for; its prompt; the positions it wants snapshots at
  plan,                  \* what select_conversation decided
  want, back,            \* ensure_ctx: the cells needed, and what needs them
  conv,                  \* per stage and slot: history, KV cells, recurrent state, snapshots
  mapped,                \* per stage and slot: ctx_mapped
  parked,                \* per stage: parked_, a set of entries; the smaller the id, the longer ago it was used;
                         \* `on', the number of stages an entry reached, is not in the code
  age,                   \* park_age_
  active, replies,       \* slots of the requests in flight; tokens they decoded
  asked, failures        \* requests taken, and pinnings that failed

worker == <<pc, cur, prompt, cuts, plan, want, back>>
memory == <<conv, mapped, parked, age>>
vars == <<worker, memory, active, replies, asked, failures>>

Empty  == [hist |-> <<>>, kv |-> <<>>, rec |-> <<>>, ck |-> {}]
NoPlan == [kind |-> "live", id |-> 0, slot |-> None, at |-> 0, park |-> FALSE]

Tokens == {Reply} \cup UNION {Range(p) : p \in Prompts}

IsConversation(c) ==
  /\ DOMAIN c = {"hist", "kv", "rec", "ck"}
  /\ c.hist \in Seq(Tokens) /\ c.kv \in Seq(Tokens) /\ c.rec \in Seq(Tokens)
  /\ Cardinality(c.ck) <= MaxCk /\ \A k \in c.ck : k.pos \in 1..MaxCtx /\ k.mem \in Seq(Tokens)

TypeOK ==
  /\ pc \in {"idle", "choose", "park", "room", "copy", "rewind", "read", "decode"}
  /\ back \in {"copy", "read", "decode"}
  /\ cur \in Slots \cup {None} /\ prompt \in Prompts \cup {<<>>} /\ cuts \subseteq 1..MaxCtx
  /\ plan.kind \in {"live", "restore", "fork parked", "fork slot"}
  /\ want \in 0..MaxCtx
  /\ \A g \in Stages, s \in Slots : IsConversation(conv[g][s])
  /\ mapped \in [Stages -> [Slots -> 0..MaxCtx]]
  /\ \A g \in Stages : \A e \in parked[g] : e.id \in 1..age /\ e.on \in Stages /\ IsConversation(e.c)
  /\ active \subseteq Slots /\ replies \in [Slots -> 0..MaxReplies]
  /\ asked \in 0..MaxRequests /\ failures \in 0..MaxPinFailures

\* load: every slot empty; its context is mapped when it is first needed (slot 0's baseline at once)
Init ==
  /\ pc = "idle" /\ cur = None /\ prompt = <<>> /\ cuts = {} /\ plan = NoPlan /\ want = 0 /\ back = "read"
  /\ conv = [g \in Stages |-> [s \in Slots |-> Empty]]
  /\ mapped = [g \in Stages |-> [s \in Slots |-> IF s = 0 THEN Baseline ELSE 0]]
  /\ parked = [g \in Stages |-> {}] /\ age = 0
  /\ active = {} /\ replies = [s \in Slots |-> 0] /\ asked = 0 /\ failures = 0

-----------------------------------------------------------------------------
(* Histories, prompts, snapshots *)

Up(s, n) == SubSeq(s, 1, n)

Common(h, p) == Len(LongestCommonPrefix({h, p}))

Extends(h, p) == h # <<>> /\ IsStrictPrefix(h, p)

Positions(c) == {k.pos : k \in c.ck}

\* the last snapshot of c at or before position lim, 0 when there is none
LastSnapshot(c, lim) == Max({0} \cup {n \in Positions(c) : n <= lim /\ n <= Len(c.hist)})

\* reuse_of: all of a history the prompt extends, else up to the last snapshot in the shared prefix
Reuse(c, p) ==
  IF Extends(c.hist, p) THEN Len(c.hist)
  ELSE LastSnapshot(c, Min({Common(c.hist, p), Len(p) - 1}))

\* mutant: snapshots past the cut stay
RewoundKeepingAll(c, n) ==
  [c EXCEPT !.hist = Up(@, n), !.kv = Up(@, n), !.rec = (CHOOSE k \in c.ck : k.pos = n).mem]

\* rollback: the state of the snapshot at n; later snapshots describe a history that is gone.
Rewound(c, n) ==
  [c EXCEPT !.hist = Up(@, n), !.kv = Up(@, n), !.rec = (CHOOSE k \in c.ck : k.pos = n).mem,
            !.ck = {k \in @ : k.pos <= n}]

\* fork_copy_parked, fork_copy_slot, fork_done_here: the first n tokens of c, with its snapshot's state, replace the conversation old.
Forked(c, n, old) ==
  [hist |-> Up(c.hist, n), kv |-> Up(c.kv, n), rec |-> (CHOOSE k \in c.ck : k.pos = n).mem, ck |-> {}]

\* The tokens ts go through the layers.
Fed(c, ts) == [c EXCEPT !.hist = @ \o ts, !.kv = @ \o ts, !.rec = @ \o ts]

\* checkpoint: a snapshot of where c is, in the place of the one at drop when all are taken (the least
\* recently used: every stage is told the same, which one is left open)
MayDrop(c) == IF Len(c.hist) \in Positions(c) \cup {0} \/ Cardinality(c.ck) < MaxCk THEN {0} ELSE Positions(c)

Snapped(c, drop) ==
  IF Len(c.hist) \in Positions(c) \cup {0} THEN c
  ELSE [c EXCEPT !.ck = {k \in @ : k.pos # drop} \cup {[pos |-> Len(c.hist), mem |-> c.rec]}]

\* conversation s becomes F of what it is, on every stage
OnEveryStage(s, F(_)) == [g \in Stages |-> [conv[g] EXCEPT ![s] = F(@)]]

-----------------------------------------------------------------------------
(* Context memory *)

\* a number of cells, rounded up to whole steps
Cells(n) == Min({MaxCtx, ((n + Step - 1) \div Step) * Step})

\* the cells of one stage whose slots have so many mapped
CellsOf(row) == {x \in Slots \X (1..MaxCtx) : x[2] <= row[x[1]]}

Used(g) == Cardinality(CellsOf(mapped[g]))

\* reset: the context's memory back to its baseline
Shrunk(s) == [g \in Stages |-> [mapped[g] EXCEPT ![s] = Min({@, Baseline})]]

\* mutant: one cell of headroom is kept
KeptShort(n) == Max({Baseline, Cells(n + 1)})

\* what rebalance keeps after a prompt: a window past the position
Kept(n) == Max({Baseline, Cells(n + Window)})

\* ensure_ctx(n) for the slot cur; then the worker goes on at next
Ensure(n, next) == pc' = "room" /\ want' = Cells(n) /\ back' = next

-----------------------------------------------------------------------------
(* Parking *)

\* bytes of conversation c, on n stages and on all
BytesOn(c, n) == n * (Len(c.hist) + 1 + Cardinality(c.ck))
Bytes(c)      == BytesOn(c, NStages)

\* the bytes of the entries es one by one, on the stages they reached (every entry has an id of its own)
UnitsOf(es) == UNION {{e.id} \X (1..BytesOn(e.c, e.on)) : e \in es}

ParkedBytes(es) == Cardinality(UnitsOf(es))

\* mutant: nothing protects the entry about to be restored
WithoutKeep(es, keep, h) == {e \in es : ~IsPrefix(e.c.hist, h)}

\* An older copy whose history this one extends is superseded.
NotSuperseded(es, keep, h) == {e \in es : e.id = keep \/ ~IsPrefix(e.c.hist, h)}

\* the entries used after `last', and the one kept
Younger(es, keep, last) == {e \in es : e.id = keep \/ e.id > last}

HasRoom(es, c) == ParkedBytes(es) + Bytes(c) <= ParkLimit

\* What park leaves of the entries es to make room for conversation c: the least recently used go first;
\* none go when c is too large anyway.
Spared(es, keep, c) ==
  LET left   == NotSuperseded(es, keep, c.hist)
      enough == {last \in 0..age : HasRoom(Younger(left, keep, last), c)}
  IN  IF Bytes(c) > ParkLimit THEN left
      ELSE Younger(left, keep, IF enough = {} THEN age ELSE Min(enough))

\* there is room for c beside what was spared
ParkFits(es, c) == HasRoom(es, c)

\* stages 1 to k parked entry e: it stays when all did, else it is dropped everywhere.
ParkedAt(g, k, es, e) == IF k = NStages THEN es \cup {e} ELSE es

\* what stage g keeps of its entries when those of spared stay
StayOn(g, spared) == {e \in parked[g] : \E x \in spared : x.id = e.id}

\* park: a copy of conversation s into host RAM; stages 1 to k get pinned memory for it.
Park(s, keep, k) ==
  LET spared == Spared(parked[1], keep, conv[1][s])
      new(g) == [id |-> age + 1, c |-> conv[g][s], on |-> NStages]
  IN  IF ParkFits(spared, conv[1][s])
      THEN /\ age' = age + 1
           /\ parked' = [g \in Stages |-> ParkedAt(g, k, StayOn(g, spared), new(g))]
           /\ k < NStages => failures < MaxPinFailures
           /\ failures' = IF k = NStages THEN failures ELSE failures + 1
      ELSE /\ k = 0
           /\ parked' = [g \in Stages |-> StayOn(g, spared)]
           /\ UNCHANGED <<age, failures>>

\* "cannot pin host RAM for a snapshot", on stage k + 1 (ck_take, in park_copy): nothing between there and the
\* worker catches it, so the entry stays where it is, on the stages before.
ParkThrows(s, keep, k) ==
  LET spared == Spared(parked[1], keep, conv[1][s])
      new(g) == [id |-> age + 1, c |-> conv[g][s], on |-> k]
  IN  /\ ParkFits(spared, conv[1][s])
      /\ conv[k + 1][s].ck # {}
      /\ failures < MaxPinFailures /\ failures' = failures + 1
      /\ age' = age + 1
      /\ parked' = [g \in Stages |-> StayOn(g, spared) \cup {e \in {new(g)} : g <= k}]

\* An exception reaches the worker: the requests on the slots lose are answered with an error, their slots
\* start clean.
Lose(lose) ==
  /\ conv' = [g \in Stages |-> [s \in Slots |-> IF s \in lose THEN Empty ELSE conv[g][s]]]
  /\ mapped' = [g \in Stages |-> [s \in Slots |-> IF s \in lose THEN Min({mapped[g][s], Baseline}) ELSE mapped[g][s]]]
  /\ active' = active \ lose
  /\ replies' = [s \in Slots |-> IF s \in lose THEN 0 ELSE replies[s]]
  /\ pc' = "idle"
  /\ UNCHANGED <<cur, prompt, cuts, plan, want, back, asked>>

-----------------------------------------------------------------------------
(* A request takes a slot (pick_slot and select_conversation) *)

\* pick_slot: the conversation it continues, one it rewinds a little, an empty one, any
Rank(c, p) ==
  LET r == Reuse(c, p)
  IN  IF ForkMin = 0 THEN r
      ELSE IF r > 0 /\ r = Len(c.hist) THEN 3
      ELSE IF r > 0 /\ Len(c.hist) - r < ParkMin THEN 2
      ELSE IF c.hist = <<>> THEN 1 ELSE 0

\* Of the best slots the least recently used is taken; which one that is is left open.
Take(p) ==
  /\ pc = "idle" /\ asked < MaxRequests /\ active # Slots
  /\ \E s \in Slots \ active :
       /\ \A q \in Slots \ active : Rank(conv[1][q], p) <= Rank(conv[1][s], p)
       /\ cur' = s
  /\ prompt' = p /\ cuts' \in Cuts
  /\ pc' = "choose" /\ asked' = asked + 1
  /\ UNCHANGED <<plan, want, back, memory, active, replies, failures>>

\* The least of is with the largest F, which is above floor; None when there is none
FirstBest(is, F(_), floor) ==
  LET best == {i \in is : F(i) > floor /\ \A j \in is : F(j) <= F(i)} IN IF best = {} THEN None ELSE Min(best)

EntryOf(es, id) == CHOOSE e \in es : e.id = id

\* where the request starts from
Choice ==
  LET es    == parked[1]
      live  == Reuse(conv[1][cur], prompt)
      fromP(i) == Reuse(EntryOf(es, i).c, prompt)
      i     == FirstBest({e.id : e \in es}, fromP, live)
      bestP == IF i = None THEN live ELSE fromP(i)
      ext   == i # None /\ Extends(EntryOf(es, i).c.hist, prompt)
      fromS(s) == Reuse(conv[1][s], prompt)
      s     == FirstBest({q \in Slots \ (active \cup {cur}) : ~Extends(conv[1][q].hist, prompt)}, fromS, bestP)
      forkS == ForkMin > 0 /\ s # None /\ fromS(s) >= ForkMin
      takeP == ~forkS /\ i # None /\ (ext \/ (ForkMin > 0 /\ bestP >= ForkMin))
      lost  == Len(conv[1][cur].hist) - (IF forkS \/ takeP THEN 0 ELSE live)
  IN  [kind |-> IF forkS THEN "fork slot" ELSE IF ~takeP THEN "live" ELSE IF ext THEN "restore" ELSE "fork parked",
       id   |-> IF takeP THEN i ELSE 0,
       slot |-> IF forkS THEN s ELSE None,
       at   |-> IF forkS THEN fromS(s) ELSE IF takeP THEN bestP ELSE live,
       park |-> lost >= ParkMin /\ ParkLimit > 0]

\* the room a restore or a fork needs before it copies; nothing when the live conversation stays
GoOn(p) == IF p.kind = "live" THEN pc' = "rewind" /\ UNCHANGED <<want, back>> ELSE Ensure(p.at + Window, "copy")

Choose ==
  /\ pc = "choose"
  /\ plan' = Choice
  /\ IF plan'.park THEN pc' = "park" /\ UNCHANGED <<want, back>> ELSE GoOn(plan')
  /\ UNCHANGED <<cur, prompt, cuts, memory, active, replies, asked, failures>>

\* The live conversation is parked before it is replaced (its snapshots go along) or rewound far.
ParkLive ==
  /\ pc = "park"
  /\ \E k \in 0..NStages :
       /\ Park(cur, plan.id, k)
       /\ conv' = IF plan.kind = "live" THEN conv
                  ELSE [g \in Stages |-> IF g <= k THEN [conv[g] EXCEPT ![cur].ck = {}] ELSE conv[g]]
  /\ GoOn(plan)
  /\ UNCHANGED <<cur, prompt, cuts, plan, mapped, active, replies, asked>>

ParkLiveThrows ==
  /\ pc = "park"
  /\ \E k \in 0..(NStages - 1) : ParkThrows(cur, plan.id, k)
  /\ Lose({cur})

-----------------------------------------------------------------------------
(* ensure_ctx: every stage in turn; idle conversations make way (evict_idle_for) *)

Lacking == {g \in Stages : mapped[g][cur] < want}
Stage   == Min(Lacking)
Fits(g) == Used(g) - mapped[g][cur] + want <= Vram[g]

\* slots set_busy names, and the source of a fork while room is made for it
Busy == active \cup {cur} \cup (IF back = "copy" /\ plan.kind = "fork slot" THEN {plan.slot} ELSE {})

\* mutant: slots in use may go
VictimsAny == {s \in Slots \ {cur} : mapped[Stage][s] > Baseline}

Victims == {s \in Slots \ Busy : mapped[Stage][s] > Baseline}

\* the entry an eviction's parking may not drop
Restoring == IF back = "copy" THEN plan.id ELSE 0

MapContext ==
  /\ pc = "room" /\ Lacking # {} /\ Fits(Stage)
  /\ mapped' = [mapped EXCEPT ![Stage][cur] = want]
  /\ UNCHANGED <<worker, conv, parked, age, active, replies, asked, failures>>

\* the one with the largest context is to go
Victim(s) ==
  /\ pc = "room" /\ Lacking # {} /\ ~Fits(Stage) /\ s \in Victims
  /\ \A q \in Victims : mapped[Stage][q] < mapped[Stage][s] \/ (mapped[Stage][q] = mapped[Stage][s] /\ q >= s)

WorthParking(s) == Len(conv[1][s].hist) >= ParkMin /\ ParkLimit > 0

\* It goes: parked when worth it, its slot empty on every stage.
Evict ==
  /\ \E s \in Slots :
       /\ Victim(s)
       /\ IF WorthParking(s)
          THEN \E k \in 0..NStages : Park(s, Restoring, k)
          ELSE UNCHANGED <<parked, age, failures>>
       /\ conv' = OnEveryStage(s, LAMBDA c : Empty)
       /\ mapped' = Shrunk(s)
  /\ UNCHANGED <<worker, active, replies, asked>>

\* whose requests end with an error when the work at hand throws: in a round, all in flight
Hit == IF back = "decode" THEN active ELSE {cur}

\* The conversation stays on the GPU too.
EvictThrows ==
  /\ \E s \in Slots : Victim(s) /\ WorthParking(s) /\ \E k \in 0..(NStages - 1) : ParkThrows(s, Restoring, k)
  /\ Lose(Hit)

Roomy ==
  /\ pc = "room" /\ Lacking = {}
  /\ pc' = back
  /\ UNCHANGED <<cur, prompt, cuts, plan, want, back, memory, active, replies, asked, failures>>

\* "not enough VRAM"
NoRoom ==
  /\ pc = "room" /\ Lacking # {} /\ ~Fits(Stage) /\ Victims = {}
  /\ Lose(Hit)
  /\ UNCHANGED <<parked, age, failures>>

-----------------------------------------------------------------------------
(* restore, fork_parked, fork_slot *)

Entry(g) == EntryOf(parked[g], plan.id)

\* every stage has what is copied
Held == plan.kind # "fork slot" => \A g \in Stages : \E e \in parked[g] : e.id = plan.id

\* "a pipeline stage lost the parked conversation": the entry of a parking that threw; it stays parked.
SourceLost ==
  /\ pc = "copy" /\ ~Held
  /\ Lose({cur})
  /\ UNCHANGED <<parked, age, failures>>

Restore ==
  /\ pc = "copy" /\ plan.kind = "restore" /\ Held
  /\ conv' = [g \in Stages |-> [conv[g] EXCEPT ![cur] = Entry(g).c]]
  /\ parked' = [g \in Stages |-> {e \in parked[g] : e.id # plan.id}]
  /\ pc' = "rewind"
  /\ UNCHANGED <<cur, prompt, cuts, plan, want, back, mapped, age, active, replies, asked, failures>>

\* The source is left as it is; the prefix is a snapshot of the new conversation too.
Fork ==
  /\ pc = "copy" /\ plan.kind \in {"fork parked", "fork slot"} /\ Held
  /\ LET source(g) == IF plan.kind = "fork slot" THEN conv[g][plan.slot] ELSE Entry(g).c
     IN  conv' = [g \in Stages |-> [conv[g] EXCEPT ![cur] = Snapped(Forked(source(g), plan.at, @), 0)]]
  /\ pc' = "rewind"
  /\ UNCHANGED <<cur, prompt, cuts, plan, want, back, mapped, parked, age, active, replies, asked, failures>>

-----------------------------------------------------------------------------
(* Generator::start, after select_conversation *)

\* the next position to read up to, past n
Target(n) == Min({Len(prompt)} \cup {c \in cuts : c > n /\ c < Len(prompt)})

\* Generator::start's own rule: the history, or what rollback finds
StartKeeps(c) ==
  IF Extends(c.hist, prompt) THEN Len(c.hist) ELSE LastSnapshot(c, Min({Common(c.hist, prompt), Len(prompt) - 1}))

\* The live conversation goes on, goes back to a snapshot, or starts over.
Rewind ==
  /\ pc = "rewind"
  /\ LET keep == StartKeeps(conv[1][cur])
     IN  /\ IF Extends(conv[1][cur].hist, prompt) THEN UNCHANGED <<conv, mapped>>
            ELSE IF keep = 0 THEN conv' = OnEveryStage(cur, LAMBDA c : Empty) /\ mapped' = Shrunk(cur)
            ELSE conv' = OnEveryStage(cur, LAMBDA c : Rewound(c, keep)) /\ UNCHANGED mapped
         /\ Ensure(Target(keep) + Window, "read")
  /\ UNCHANGED <<cur, prompt, cuts, plan, parked, age, active, replies, asked, failures>>

\* One prefill, its rebalance, and the snapshot asked for at its end; past the last, the request is in flight.
Read ==
  /\ pc = "read"
  /\ LET from == Len(conv[1][cur].hist)
         to   == Target(from)
         fed(c) == Fed(c, SubSeq(prompt, from + 1, to))
     IN  /\ IF to \in cuts
            THEN \E d \in MayDrop(fed(conv[1][cur])) : conv' = OnEveryStage(cur, LAMBDA c : Snapped(fed(c), d))
            ELSE conv' = OnEveryStage(cur, fed)
         /\ mapped' = [g \in Stages |-> [mapped[g] EXCEPT ![cur] = Min({@, Kept(to)})]]
         /\ IF to = Len(prompt)
            THEN /\ pc' = "idle" /\ active' = active \cup {cur} /\ replies' = [replies EXCEPT ![cur] = 0]
                 /\ UNCHANGED <<want, back>>
            ELSE Ensure(Target(to) + Window, "read") /\ UNCHANGED <<active, replies>>
  /\ UNCHANGED <<cur, prompt, cuts, plan, parked, age, asked, failures>>

-----------------------------------------------------------------------------
(* Decoding *)

\* A round for the request on slot s: fwd_prepare makes sure of its context first.
Round(s) ==
  /\ pc = "idle" /\ s \in active /\ replies[s] < MaxReplies
  /\ cur' = s /\ Ensure(Len(conv[1][s].hist) + 1 + Window, "decode")
  /\ UNCHANGED <<prompt, cuts, plan, memory, active, replies, asked, failures>>

Decode ==
  /\ pc = "decode"
  /\ conv' = OnEveryStage(cur, LAMBDA c : Fed(c, <<Reply>>))
  /\ replies' = [replies EXCEPT ![cur] = @ + 1]
  /\ pc' = "idle"
  /\ UNCHANGED <<cur, prompt, cuts, plan, want, back, mapped, parked, age, active, asked, failures>>

\* The answer is over: the slot is free, its conversation stays.
Finish(s) ==
  /\ pc = "idle" /\ s \in active
  /\ active' = active \ {s}
  /\ UNCHANGED <<worker, memory, replies, asked, failures>>

-----------------------------------------------------------------------------
Next ==
  \/ \E p \in Prompts : Take(p)
  \/ Choose \/ ParkLive \/ ParkLiveThrows
  \/ MapContext \/ Evict \/ EvictThrows \/ Roomy \/ NoRoom
  \/ Restore \/ Fork \/ SourceLost \/ Rewind \/ Read \/ Decode
  \/ \E s \in Slots : Round(s) \/ Finish(s)

Spec == Init /\ [][Next]_vars

-----------------------------------------------------------------------------
(* Properties *)

\* Conversation c is whole: its KV cells and its recurrent state are those of its history, and every
\* snapshot is the state after that many of its tokens.
Whole(c) ==
  /\ c.kv = c.hist /\ c.rec = c.hist
  /\ \A k \in c.ck : k.pos <= Len(c.hist) /\ k.mem = Up(c.hist, k.pos)

\* Whatever was parked, restored, forked, rewound or moved off the GPU in between, every conversation, on
\* the GPU or parked, is whole on every stage ("the request then proceeds exactly as if it had never been
\* away", park.cpp).
ContentRight ==
  \A g \in Stages : /\ \A s \in Slots : Whole(conv[g][s])
                    /\ \A e \in parked[g] : Whole(e.c)

\* The conversation a request was promised is still there, when its copy starts, on every stage it reached:
\* parking the live one and making room never drop it (restore and fork_parked throw "a pipeline stage lost
\* the parked conversation", fork_copy_slot "has no snapshot").
SourceKept ==
  pc = "copy" =>
    /\ plan.kind # "fork slot" =>
         \E e \in parked[1] : /\ e.id = plan.id /\ \A g \in 1..e.on : e \in parked[g]
                              /\ plan.kind = "fork parked" => plan.at \in Positions(e.c)
    /\ plan.kind = "fork slot" => \A g \in Stages : plan.at \in Positions(conv[g][plan.slot])

\* The same on every stage (src/engine/park.cpp:8: "the request then proceeds exactly as if it had never been
\* away").  README: not after a parking that threw.
HeldEverywhere == pc = "copy" => Held

\* Generator::start keeps exactly what select_conversation counted on, on every stage: the two compute it
\* separately, before and after the copies (rollback throws "the pipeline stages disagree").
StartsAsChosen == pc = "rewind" => \A g \in Stages : StartKeeps(conv[g][cur]) = plan.at

\* Between requests every stage has the same conversations, the same snapshots and the same parked entries,
\* but for those of a parking that threw, which the stages it reached all have.
StagesAgree ==
  pc \in {"idle", "choose", "rewind"} =>
    \A g \in Stages : conv[g] = conv[1] /\ parked[g] = {e \in parked[1] : g <= e.on}

\* Parked conversations take at most park_gib of host RAM, on all stages together (engine.h: "up to
\* park_gib, least recently used dropped first").
ParkBudget == ParkedBytes(parked[1]) <= ParkLimit

\* What select_conversation promised is there when it is copied, but where its parking threw, and is what the
\* request then starts from.
PromiseKept == SourceKept /\ StartsAsChosen

\* Between rounds a request in flight has a window's room past its position on every stage: its drafts are
\* written before any forward maps more ("one cell of headroom wrote past the mapping", rebalance_here).
DraftsFit ==
  pc = "idle" => \A s \in active, g \in Stages :
    mapped[g][s] >= Min({MaxCtx, Len(conv[g][s].hist) + Window}) /\ Used(g) <= Vram[g]

\* Host RAM and VRAM hold what is put there.
RoomKept == ParkBudget /\ DraftsFit

\* The conversations are whole, and the stages have the same ones: no stage ever goes on with one another
\* stage lacks.
ConversationsRight == TypeOK /\ ContentRight /\ StagesAgree

\* No conversation in flight is moved, rewound or shortened by another request's.
InFlightGrows ==
  [][\A s \in active \cap active', g \in Stages : IsPrefix(conv[g][s].hist, conv'[g][s].hist)]_vars
=============================================================================
