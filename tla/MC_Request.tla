----------------------------- MODULE MC_Request -----------------------------
(* Two requests of one dialogue, a turn and the next, and one of another, share an engine with one slot and a
   register of two conversations. *)
EXTENDS Request

CONSTANTS r1, r2, r3, A, B

MCRequests == {r1, r2, r3}
MCDialogue == [r \in MCRequests |-> IF r = r3 THEN B ELSE A]
MCTurn     == [r \in MCRequests |-> IF r = r2 THEN 2 ELSE 1]
MCMaxTokens == [r \in MCRequests |-> IF r = r1 THEN 3 ELSE 1]
=============================================================================
