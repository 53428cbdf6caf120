-------------------------- MODULE MC_PromptWaves ---------------------------
(* Two layers, three experts without a slot: three waves of one blob take the first buffer twice, a guess *)
(* may be right, wrong or in another order.  Experts of different layers have nothing in common, so one   *)
(* ranking and one guess of each length stand for all.                                                    *)
EXTENDS PromptWaves

CONSTANTS e1, e2, e3
MCRank == <<e1>>
MCGuesses == {<<>>, <<e1>>, <<e1, e2>>}

\* What the host, the device and the CPU part keep of a layer is read by nobody once its gather is done; the
\* verdict on the last sum stays in the view.
Reads(names) == \E i \in 1..Len(mainQ) : mainQ[i].op \in names
TablesDue == Reads({"tables"})
OutputsDue == pc = "cpu" \/ Reads({"gather", "gather both"})
MCView == <<pc, il, toggle, pre, copyQ, mainQ, stage, SumsRight,
            IF pc = "cpu" THEN <<onCpu, hX>> ELSE <<>>,
            IF pc = "cpu" \/ TablesDue THEN hTab ELSE NoTab,
            IF OutputsDue /\ ~TablesDue THEN <<dTab, dd>> ELSE <<>>,
            IF Reads({"gather both"}) THEN hCpu ELSE NoCpu>>
=============================================================================
