---------------------------- MODULE MC_DsDecode ----------------------------
(* Two conversations on two stages, the first of which owns the compressed rows; the first conversation *)
(* is long enough for its ring to wrap and is resumed from snapshots, the second shares its batches.    *)
EXTENDS DsDecode

CONSTANTS LongCtx, ShortCtx
MCStages == {1, 2}
MCMaxCtx == [q \in Slots |-> IF q = 1 THEN LongCtx ELSE ShortCtx]
MCPrompts == [q \in Slots |-> IF q = 1 THEN {2, 5} ELSE {1}]
MCMaxTurns == [q \in Slots |-> IF q = 1 THEN 2 ELSE 1]

\* What a forward leaves for the commits (places, parameters, raw rows) is read by nobody once no window
\* waits and no commit runs on the stage; the next forward overwrites it.
Live(s) == commits[s] # <<>> \/ \E q \in Slots : seqs[s][q].pending_T > 0
MCView == <<seqs, [s \in Stages |-> IF Live(s) THEN <<wins[s], d_par[s], raw[s]>> ELSE <<>>], commits, turn, right, mid>>
=============================================================================
