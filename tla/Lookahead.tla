------------------------------ MODULE Lookahead ------------------------------
(***************************************************************************)
(* One conversation decoded by lookahead on two GPUs: the rounds of        *)
(* Generator::next_lookahead and next (src/engine/generate.cpp) over the   *)
(* engine's two stages (src/engine/engine.cpp).  A round verifies a window *)
(* of drafts: stage 0 runs it, stage 1 runs it from stage 0's hand-off     *)
(* rows and gives the verdict.  Meanwhile stage 0 runs, in the other lane  *)
(* and over a shadow of its state, the window that follows if every draft  *)
(* is accepted; a verdict that agrees makes the shadow real and the next   *)
(* round starts with stage 0's half done.                                  *)
(*                                                                         *)
(* The data are the texts things were computed from: a recurrent state is  *)
(* the text absorbed, a K/V cell and a lane's rows the text they saw, None *)
(* when it was not the conversation's.  Logits computed over such rows     *)
(* accept and propose anything.  Cells past the history, the rows of a     *)
(* window that was settled and a shadow nobody waits for are forgotten:    *)
(* to read them is to read rows that are not the conversation's.  Drafts   *)
(* are arbitrary tokens (a drafter or a lookup proposed them), and a chain  *)
(* ahead has one or more: a lookup's ends before an image, a drafter's      *)
(* where its block is spent.                                               *)
(***************************************************************************)
EXTENDS Integers, Sequences, FiniteSets, FiniteSetsExt

CONSTANTS
  Tokens,
  Support(_),     \* the tokens the sampler may draw after a text (one, when greedy)
  kMaxWindow,     \* rows of a window
  MaxDraft,       \* tokens the drafter proposes (GenOptions::max_draft)
  MaxCtx,         \* cells of the context
  MaxPrompt,      \* bound: tokens of a prompt that does not continue the text
  MaxTurns,       \* bound: requests
  None,
  Mass, Vocabulary    \* of the distributions of a draft that is verified: the sum of the weights, the tokens

ASSUME LookaheadAssumption ==
  /\ MaxDraft \in Nat \ {0} /\ kMaxWindow \in Nat /\ kMaxWindow > MaxDraft
  /\ MaxPrompt \in Nat \ {0} /\ MaxTurns \in Nat
  /\ MaxCtx \in Nat /\ MaxCtx > MaxPrompt
  /\ None \notin Seq(Tokens)

ASSUME VerificationAssumption == Mass \in Nat \ {0} /\ IsFiniteSet(Vocabulary)

Stages == {0, 1}
Lanes == {0, 1}

VARIABLES
  history, state, cells, pendingT, lane, lastLane, ckpts,   \* each stage's Seq
  shadow, specT, specLane, inflight,                        \* stage 0's speculation
  pending, drafts, stage0Done, laLane,                      \* the generator
  pc, win, verdict,                                         \* its round
  text, open, failed, turns,                                \* what the client saw
  unsettled   \* history variable: the last round's window was half done before it and of one token

engine      == <<history, state, cells, pendingT, lane, lastLane, ckpts>>
speculation == <<shadow, specT, specLane, inflight>>
generator   == <<pending, drafts, stage0Done, laLane>>
round       == <<pc, win, verdict>>
client      == <<text, open, failed, turns, unsettled>>
vars == <<engine, speculation, generator, round, client>>

Windows(n) == UNION {[1..k -> Tokens] : k \in 0..n}
Prefix(s, n) == SubSeq(s, 1, n)
pos == Len(history[0])

NoRows == [base |-> None, win |-> <<>>]
NoLanes == [l \in Lanes |-> NoRows]
Fresh == [text |-> <<>>, rows |-> <<>>]

(***************************************************************************)
(* A stage's forward.                                                      *)
(***************************************************************************)
(* The state and every cell a forward reads come from the text h.          *)
Sound(st, kv, h) ==
  /\ st.text = h
  /\ Len(kv) >= Len(h) /\ \A i \in 1..Len(h) : kv[i] = Prefix(h, i)

(* The text the rows of a window run over h are computed from.              *)
Base(st, kv, h) == IF Sound(st, kv, h) THEN h ELSE None

(* The cells a window writes, after those of the n tokens before it.       *)
Written(kv, n, base, w) ==
  Prefix(kv, n) \o [i \in 1..Len(w) |-> IF base = None THEN None ELSE base \o Prefix(w, i)]

(* The state after a forward: a single row is committed inside it, the     *)
(* rows of a longer window wait for the verdict.                           *)
After(st, base, w) ==
  IF Len(w) = 1 THEN [text |-> IF base = None THEN None ELSE base \o w, rows |-> <<>>]
                ELSE [st EXCEPT !.rows = w]

(* enqueue_commit: the first n rows of the lane's window, replayed.        *)
Replay(st, rows, n) ==
  [text |-> IF rows.base # None /\ st.text = rows.base /\ st.rows = rows.win
            THEN st.text \o Prefix(rows.win, n) ELSE None,
   rows |-> <<>>]

(***************************************************************************)
(* A request begins: Generator::start.                                     *)
(***************************************************************************)
Init ==
  /\ history = [s \in Stages |-> <<>>]
  /\ state = [s \in Stages |-> Fresh]
  /\ cells = [s \in Stages |-> <<>>]
  /\ pendingT = [s \in Stages |-> 0]
  /\ lane = [s \in Stages |-> NoLanes]
  /\ lastLane = [s \in Stages |-> 0]
  /\ ckpts = [s \in Stages |-> {}]
  /\ shadow = Fresh /\ specT = 0 /\ specLane = None /\ inflight = FALSE
  /\ pending = None /\ drafts = <<>> /\ stage0Done = FALSE /\ laLane = 0
  /\ pc = "idle" /\ win = <<>> /\ verdict = None
  /\ text = <<>> /\ open = FALSE /\ failed = FALSE /\ turns = 0 /\ unsettled = FALSE

Prompts == {p \in Windows(MaxPrompt) : p # <<>>} \cup
           {text \o <<t>> : t \in {u \in Tokens : Len(text) + 1 < MaxCtx}}

(* The tokens h and p begin with alike.                                     *)
Common(h, p) ==
  CHOOSE n \in 0..Len(h) : /\ n <= Len(p) /\ Prefix(h, n) = Prefix(p, n)
                           /\ n = Len(h) \/ n = Len(p) \/ h[n + 1] # p[n + 1]

(* Where stage s resumes: its whole text when the prompt extends it, else   *)
(* its latest snapshot inside what they share, else nothing.               *)
Resume(s, p) ==
  LET h == history[s]
      n == Common(h, p)
      ks == {k \in ckpts[s] : /\ k.pos <= n /\ k.pos < Len(p) /\ k.pos <= Len(h)}
  IN IF h # <<>> /\ n = Len(h) /\ Len(h) < Len(p)
     THEN [pos |-> Len(h), saved |-> state[s], keep |-> ckpts[s]]
     ELSE IF ks = {} THEN [pos |-> 0, saved |-> Fresh, keep |-> {}]
     ELSE LET k == CHOOSE k \in ks : \A j \in ks : j.pos <= k.pos
          IN [pos |-> k.pos, saved |-> k.saved, keep |-> {j \in ckpts[s] : j.pos <= k.pos}]

(* rollback and prefill_chunk refuse to go on otherwise.                    *)
StartChecks(p) ==
  /\ Resume(0, p).pos = Resume(1, p).pos
  /\ Resume(0, p).pos > 0 => \A s \in Stages : pendingT[s] = 0

Start(p) ==
  /\ pc = "idle" /\ turns < MaxTurns
  /\ StartChecks(p)
  /\ LET from(s) == Resume(s, p)
         h == Prefix(p, from(0).pos)
         base(s) == Base(from(s).saved, cells[s], h)
         new == SubSeq(p, Len(h) + 1, Len(p))
         ends(s) == [text |-> IF base(s) = None THEN None ELSE p, rows |-> <<>>]
     IN /\ history' = [s \in Stages |-> p]
        /\ state' = [s \in Stages |-> ends(s)]
        /\ cells' = [s \in Stages |-> Written(cells[s], Len(h), base(s), new)]
        /\ ckpts' = [s \in Stages |-> from(s).keep \cup {[pos |-> Len(p), saved |-> ends(s)]}]
        /\ \E b \in Tokens :
             /\ base(0) # None /\ base(1) # None => b \in Support(p)
             /\ pending' = b
             /\ verdict' = [kept |-> 0, bonus |-> b]
  /\ pendingT' = [s \in Stages |-> 0]
  /\ drafts' = <<>> /\ stage0Done' = FALSE /\ laLane' = 0
  /\ pc' = "draft" /\ win' = <<>> /\ turns' = turns + 1 /\ unsettled' = FALSE
  /\ UNCHANGED <<lane, lastLane, speculation, text, open, failed>>

(* An exception ends the request with an error, and its conversation is      *)
(* reset (admit's and run_round's handlers).                               *)
Reset ==
  /\ history' = [s \in Stages |-> <<>>]
  /\ state' = [s \in Stages |-> Fresh]
  /\ cells' = [s \in Stages |-> <<>>]
  /\ pendingT' = [s \in Stages |-> 0]
  /\ ckpts' = [s \in Stages |-> {}]
  /\ specT' = 0 /\ specLane' = None
  /\ open' = FALSE /\ failed' = TRUE /\ unsettled' = FALSE
  /\ pc' = "idle"
  /\ win' = <<>> /\ verdict' = None
  /\ UNCHANGED <<lane, lastLane, shadow, inflight, generator, text>>

StartFails(p) ==
  /\ pc = "idle" /\ turns < MaxTurns
  /\ ~StartChecks(p)
  /\ Reset /\ turns' = turns + 1

(***************************************************************************)
(* A round.                                                                *)
(***************************************************************************)
(* Generator::window: the pending token and its drafts, as far as they fit. *)
Window == IF pos + 1 + Len(drafts) > MaxCtx THEN <<pending>> ELSE <<pending>> \o drafts

(* Whether the window's first half is done: not if it was cut meanwhile.    *)
Half == stage0Done /\ Len(Window) = 1 + Len(drafts)

(* What fwd_prepare and forward_lookahead refuse to go on without.          *)
PrepareChecks(w, half) ==
  /\ specT = 0 /\ pendingT[1] = 0 /\ Len(history[1]) + Len(w) <= MaxCtx
  /\ ~half => pendingT[0] = 0 /\ pos + Len(w) <= MaxCtx

(* deliver: a conversation at the end of the context is ended.              *)
Room == pos + 2 < MaxCtx

(* Both stages book the window; stage 0 runs its half.                      *)
Prepare(w, ln, half) ==
  /\ pc = "ready" /\ Room
  /\ PrepareChecks(w, half)
  /\ LET base == Base(state[0], cells[0], history[0]) IN
       IF half THEN /\ history' = [history EXCEPT ![1] = @ \o w]
                    /\ UNCHANGED <<lane, cells, state, pendingT>>
       ELSE /\ history' = [s \in Stages |-> history[s] \o w]
            /\ lane' = [lane EXCEPT ![0][ln] = [base |-> base, win |-> w]]
            /\ cells' = [cells EXCEPT ![0] = Written(@, pos, base, w)]
            /\ state' = [state EXCEPT ![0] = After(@, base, w)]
            /\ pendingT' = [pendingT EXCEPT ![0] = IF Len(w) = 1 THEN 0 ELSE Len(w)]
  /\ lastLane' = [lastLane EXCEPT ![0] = IF half THEN @ ELSE ln, ![1] = ln]
  /\ win' = w
  /\ UNCHANGED <<ckpts, speculation, pending, drafts, laLane, verdict, client>>

(* A round without lookahead, alone or in a batch, which may have fewer rows *)
(* for the window.                                                         *)
PlainRound ==
  /\ ~Half
  /\ \E n \in 1..Len(Window) : Prepare(Prefix(Window, n), 0, FALSE)
  /\ pc' = "verify" /\ stage0Done' = FALSE

LookaheadRound ==
  /\ Prepare(Window, laLane, Half)
  /\ pc' = "chain" /\ stage0Done' = Half

(* fwd_prepare throws.                                                      *)
RoundFails ==
  /\ pc = "ready" /\ Room
  /\ ~PrepareChecks(Window, Half)
  /\ Reset /\ UNCHANGED turns

(* Room for the speculative window and whatever follows it.                 *)
MayChain(n) == n <= kMaxWindow /\ pos + n + kMaxWindow <= MaxCtx

(* The lane the speculation runs in: the one the window does not use.       *)
OtherLane == 1 - lastLane[1]

SpecChecks(n) == specT = 0 /\ pendingT[0] > 0 /\ pos + n <= MaxCtx

(* spec_begin: the window is committed in full into the shadow, and the      *)
(* chained one runs over that.                                              *)
Speculate(c) ==
  /\ pc = "chain" /\ Len(win) > 1
  /\ MayChain(Len(c)) /\ SpecChecks(Len(c))
  /\ LET sh == Replay(state[0], lane[0][lastLane[0]], pendingT[0])
         base == Base(sh, cells[0], history[0])
     IN /\ shadow' = [sh EXCEPT !.rows = c]
        /\ lane' = [lane EXCEPT ![0][OtherLane] = [base |-> base, win |-> c]]
        /\ cells' = [cells EXCEPT ![0] = Written(@, pos, base, c)]
  /\ history' = [history EXCEPT ![0] = @ \o c]
  /\ specLane' = OtherLane /\ inflight' = TRUE
  /\ pc' = "verify"
  /\ UNCHANGED <<state, pendingT, lastLane, ckpts, specT, generator, win, verdict, client>>

NoSpec == pc = "chain" /\ pc' = "verify" /\ UNCHANGED <<engine, speculation, generator, win, verdict, client>>

(* The worker's end of the speculative forward.                             *)
SpecEnds ==
  /\ inflight
  /\ specT' = Len(shadow.rows) /\ inflight' = FALSE
  /\ UNCHANGED <<engine, shadow, specLane, generator, round, client>>

(* What verify_window may find: the accepted drafts and the token after them. *)
Verdicts(base) ==
  {v \in [kept : 0..Len(win) - 1, bonus : Tokens] :
     base # None =>
       LET out == Append(SubSeq(win, 2, v.kept + 1), v.bonus) IN
         /\ \A i \in 1..Len(out) : out[i] \in Support(base \o <<win[1]>> \o Prefix(out, i - 1))
         /\ v.kept < Len(win) - 1 => v.bonus # win[v.kept + 2]}

(* Stage 1 runs the window from the rows stage 0 handed over.               *)
Verify ==
  /\ pc = "verify"
  /\ LET ln == lastLane[1]
         h == Prefix(history[1], Len(history[1]) - Len(win))
         base == IF lane[0][ln] = [base |-> h, win |-> win]
                 THEN Base(state[1], cells[1], h) ELSE None
     IN /\ lane' = [lane EXCEPT ![1][ln] = [base |-> base, win |-> win]]
        /\ cells' = [cells EXCEPT ![1] = Written(@, Len(h), base, win)]
        /\ state' = [state EXCEPT ![1] = After(@, base, win)]
        /\ verdict' \in Verdicts(base)
  /\ pendingT' = [pendingT EXCEPT ![1] = IF Len(win) = 1 THEN 0 ELSE Len(win)]
  /\ pc' = "settle"
  /\ UNCHANGED <<history, lastLane, ckpts, speculation, generator, win, client>>

Out == Append(SubSeq(win, 2, verdict.kept + 1), verdict.bonus)
SpecTokens == SubSeq(history[0], Len(history[1]) + 1, pos)

(* The speculation held: it is the window the next round would have built.  *)
HitAnyBonus == specT > 0 /\ verdict.kept = Len(win) - 1
Hit == /\ specT > 0
       /\ verdict.kept = Len(win) - 1
       /\ SpecTokens[1] = verdict.bonus

(* spec_join: the verdict is acted on once the worker is done.              *)
Joined == pc = "settle" /\ ~inflight

ConfirmChecks == specT > 0 /\ pendingT[1] > 0

Confirm ==
  /\ Joined /\ Hit
  /\ ConfirmChecks
  /\ state' = [s \in Stages |->
                 IF s = 0 THEN shadow ELSE Replay(state[1], lane[1][lastLane[1]], pendingT[1])]
  /\ pendingT' = [s \in Stages |-> IF s = 0 THEN specT ELSE 0]
  /\ lastLane' = [lastLane EXCEPT ![0] = specLane]
  /\ lane' = [lane EXCEPT ![0][1 - specLane] = NoRows, ![1] = NoLanes]
  /\ specT' = 0 /\ specLane' = None /\ shadow' = Fresh
  /\ pending' = SpecTokens[1] /\ drafts' = Tail(SpecTokens)
  /\ stage0Done' = TRUE /\ laLane' = specLane
  /\ text' = text \o Out
  /\ pc' = "ready"
  /\ win' = <<>> /\ verdict' = None
  /\ UNCHANGED <<history, cells, ckpts, inflight, open, failed, turns, unsettled>>

CommitChecks(n) == \A s \in Stages : n <= pendingT[s]

(* spec_discard: the speculative tokens leave stage 0's history.            *)
KeptWithSpec(s) == history[s]
Kept(s) == IF s = 0 THEN Prefix(history[0], pos - specT) ELSE history[1]

(* It did not, or there was none: the accepted rows are committed.  A window *)
(* of one row was in its forward, except on a stage 0 that ran it as a       *)
(* speculation: there it is left to be committed.                           *)
Commit ==
  LET n == verdict.kept + 1 IN
  /\ Joined /\ ~Hit
  /\ IF Len(win) > 1
     THEN /\ CommitChecks(n)
          /\ history' = [s \in Stages |-> Prefix(Kept(s), Len(Kept(s)) - (pendingT[s] - n))]
          /\ state' = [s \in Stages |-> Replay(state[s], lane[s][lastLane[s]], n)]
          /\ pendingT' = [s \in Stages |-> 0]
     ELSE /\ history' = [s \in Stages |-> Kept(s)]
          /\ UNCHANGED <<state, pendingT>>
  /\ cells' = [s \in Stages |-> Prefix(cells[s], Len(history'[s]))]
  /\ lane' = [s \in Stages |-> NoLanes]
  /\ specT' = 0 /\ specLane' = None /\ shadow' = Fresh
  /\ pending' = verdict.bonus /\ drafts' = <<>> /\ stage0Done' = FALSE
  /\ unsettled' = (stage0Done /\ Len(win) = 1)
  /\ pc' = "draft"
  /\ UNCHANGED <<lastLane, ckpts, inflight, laLane, win, verdict, text, open, failed, turns>>

(* What a round's drafts may be: the drafter's, or as many as a window has    *)
(* rows for from a lookup.                                                  *)
Drafts == Windows(kMaxWindow - 1)

(* The next drafts; the round's tokens are sent.                            *)
Draft ==
  /\ pc = "draft"
  /\ drafts' \in Drafts
  /\ text' = (IF open THEN text ELSE history[0]) \o Out
  /\ open' = TRUE /\ failed' = FALSE
  /\ pc' = "ready"
  /\ win' = <<>> /\ verdict' = None
  /\ UNCHANGED <<engine, speculation, pending, stage0Done, laLane, turns, unsettled>>

(* The drafter steps once for every draft after its first, from the cell     *)
(* after the text; past the last cell it throws: the round's tokens are     *)
(* lost and the conversation is reset.                                      *)
DraftFails ==
  /\ pc = "draft" /\ pos + MaxDraft - 1 > MaxCtx
  /\ Reset /\ UNCHANGED turns

(* The request ends, wherever its rounds have come to: lookahead_abort drops *)
(* a window whose first half is done.                                       *)
Aborted(h) == IF stage0Done THEN Prefix(h, pos - pendingT[0]) ELSE h

Finish ==
  /\ pc = "ready"
  /\ history' = [history EXCEPT ![0] = Aborted(@)]
  /\ pendingT' = [pendingT EXCEPT ![0] = IF stage0Done THEN 0 ELSE @]
  /\ cells' = [cells EXCEPT ![0] = Aborted(@)]
  /\ lane' = [s \in Stages |-> NoLanes]
  /\ pending' = None /\ drafts' = <<>> /\ stage0Done' = FALSE
  /\ open' = FALSE
  /\ pc' = "idle"
  /\ UNCHANGED <<state, lastLane, ckpts, speculation, laLane, win, verdict, text, failed, turns, unsettled>>

Next ==
  \/ \E p \in Prompts : Start(p) \/ StartFails(p)
  \/ PlainRound \/ LookaheadRound \/ RoundFails
  \/ \E c \in Windows(kMaxWindow) \ {<<>>} : Speculate(c)
  \/ NoSpec \/ SpecEnds \/ Verify \/ Confirm \/ Commit
  \/ Draft \/ DraftFails \/ Finish

Spec == Init /\ [][Next]_vars

(***************************************************************************)
(* Properties.                                                             *)
(***************************************************************************)
Text == Seq(Tokens)
Rows == [base : Text \cup {None}, win : Windows(kMaxWindow)]
States == [text : Text \cup {None}, rows : Windows(kMaxWindow)]

(* The variables' types: the sizes of windows and drafts, lanes and phases. *)
TypeOK ==
  /\ history \in [Stages -> Text] /\ state \in [Stages -> States]
  /\ cells \in [Stages -> Seq(Text \cup {None})]
  /\ pendingT \in [Stages -> 0..kMaxWindow] /\ lastLane \in [Stages -> Lanes]
  /\ lane \in [Stages -> [Lanes -> Rows]]
  /\ ckpts \in [Stages -> SUBSET [pos : 1..MaxCtx, saved : States]]
  /\ shadow \in States /\ specT \in 0..kMaxWindow /\ inflight \in BOOLEAN
  /\ specLane \in Lanes \cup {None} /\ laLane \in Lanes
  /\ pending \in Tokens \cup {None} /\ drafts \in Windows(kMaxWindow - 1)
  /\ stage0Done \in BOOLEAN /\ open \in BOOLEAN /\ failed \in BOOLEAN
  /\ pc \in {"idle", "draft", "ready", "chain", "verify", "settle"}
  /\ win \in Windows(kMaxWindow) /\ text \in Text /\ turns \in 0..MaxTurns
  /\ unsettled \in BOOLEAN

(* No round and no request comes to a check of the engine that throws,      *)
(* whatever rounds and ends of requests came before, but after a window of   *)
(* one token that was half done before its round, which stage 0 still holds  *)
(* to commit: a half-done window is never cut, so that the plain round after *)
(* it would find it uncommitted (src/engine/engine.cpp, fwd_prepare,        *)
(* commit_here, spec_confirm).                                             *)
EngineChecksHold ==
  /\ ~unsettled =>
       /\ pc = "idle" => \A p \in Prompts : StartChecks(p)
       /\ pc = "ready" /\ Room => PrepareChecks(Window, Half)
  /\ pc = "chain" /\ Len(win) > 1 => \A n \in 1..kMaxWindow : MayChain(n) => SpecChecks(n)
  /\ Joined /\ Hit => ConfirmChecks
  /\ Joined /\ ~Hit /\ Len(win) > 1 => CommitChecks(verdict.kept + 1)

(* Between rounds and between requests both stages stand at the same text,  *)
(* what was emitted but for its last token, with the states and cells of    *)
(* exactly that text; stage 0 is ahead by the half-done window, if any      *)
(* (src/engine/engine.h, Seq; docs/LOOKAHEAD.md, "The real state and W's    *)
(* intermediates are untouched").  After the window of one token that is    *)
(* left to commit only stage 0's state is behind, by that token.            *)
StagesAgree ==
  pc \in {"idle", "ready"} /\ ~failed /\ turns > 0 =>
    LET done == Prefix(text, Len(text) - 1)
        ahead == IF stage0Done THEN <<pending>> \o drafts ELSE <<>>
        behind == [text |-> state[0].text \o state[0].rows, rows |-> <<>>]
    IN /\ pc = "ready" => /\ history[1] = done /\ history[0] = done \o ahead
       /\ pc = "idle" => history[0] = history[1]
       /\ \A s \in Stages :
            Sound(IF unsettled /\ s = 0 THEN behind ELSE state[s], cells[s], history[1])
       /\ unsettled => ~stage0Done /\ Len(state[0].rows) = 1 /\ pendingT[0] = 1

(* The two stages never disagree, neither where the engine checks them nor   *)
(* where nothing does (src/engine/engine.cpp, fwd_prepare, spec_confirm).    *)
StagesInStep == TypeOK /\ EngineChecksHold /\ StagesAgree

(* A conversation that reaches the end of its context ends with what was    *)
(* generated, never with an error (src/server/serve.cpp:12, "done" with      *)
(* reason "context", which deliver gives it after the round).               *)
ContextEndsCleanly == pc = "draft" => pos + MaxDraft - 1 <= MaxCtx

(* Every window that was run is committed before the next forward           *)
(* (src/engine/engine.h, "commit"; fwd_prepare throws otherwise).           *)
WindowsSettled == ~unsettled

(* Whatever is speculated, confirmed, discarded or dropped half way, the    *)
(* tokens sent are those the model gives after the text before them         *)
(* (docs/LOOKAHEAD.md: "The speculative window never changes what is        *)
(* emitted").                                                               *)
Plain == INSTANCE PlainDecoding
DecodesPlainly == Plain!Spec
-----------------------------------------------------------------------------
(* Verification of a sampled draft d with target p, in integer weights; q   *)
(* is the distribution d was drawn from, if it was.  The draft is accepted  *)
(* with probability min(1, p / q); else a token is drawn from what p has    *)
(* more than q.                                                             *)

\* the weights of all tokens, unit by unit
Units(weights) == {x \in Vocabulary \X (1..Mass) : x[2] <= weights[x[1]]}

Total(weights) == Cardinality(Units(weights))

Distributions == {p \in [Vocabulary -> 0..Mass] : Total(p) = Mass}

\* A draft that is not of q's candidates (a copy, a greedy drafter's) was certain to be drafted.
DraftMass(q, d) == IF q[d] > 0 THEN q[d] ELSE Mass

\* How much of the draft's mass is accepted: uniform() * q < p.
Accepted(p, q, d) == Min({p[d], DraftMass(q, d)})

\* mutant: what was refused is drawn from the target again
Redrawn(p, q, d) == p

\* What a token is drawn from once d is refused: draw_residual, or draw with d excluded.
Residual(p, q, d) ==
  LET more == [t \in Vocabulary |-> Max({0, p[t] - q[t]})] IN
  IF q[d] = 0 THEN [p EXCEPT ![d] = 0] ELSE IF Total(more) > 0 THEN more ELSE p

\* The target's probabilities come out whatever the drafter's are, of a draft drawn from q and of a certain one
\* (verify_window with draw_residual and draw): what acceptance passes on and what the residual makes up for add up
\* to p.  Every term is scaled by the residual's total.
Exact(p, q) ==
  LET drafted == {d \in Vocabulary : q[d] > 0}
      more == Residual(p, q, CHOOSE d \in drafted : TRUE)
      refused == Total([d \in Vocabulary |-> IF d \in drafted THEN q[d] - Accepted(p, q, d) ELSE 0])
  IN /\ \A t \in Vocabulary :
          (IF t \in drafted THEN Accepted(p, q, t) ELSE 0) * Total(more) + refused * more[t] = p[t] * Total(more)
     /\ \A d \in Vocabulary \ drafted, t \in Vocabulary :
          LET rest == Residual(p, q, d)
              passed == IF t = d THEN Accepted(p, q, d) ELSE 0
          IN passed * Total(rest) + (Mass - Accepted(p, q, d)) * rest[t] = p[t] * Total(rest)
=============================================================================
