----------------------------- MODULE MC_Parking -----------------------------
(* Two slots on two stages, four prompts: a conversation and its second turn, one that shares its first *)
(* token, and one that starts the same but rewrites the last turn.                                      *)
EXTENDS Parking

TwoSlots == {0, 1}
TwoStagesVram == [g \in {1, 2} |-> IF g = 1 THEN 10 ELSE 8]
MCPrompts == {<<1, 2>>, <<1, 2, 9, 3>>, <<1, 3, 2>>, <<4, 4>>}
MCCuts == {{1, 2, 4}}
=============================================================================
