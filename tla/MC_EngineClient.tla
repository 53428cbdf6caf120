--------------------------- MODULE MC_EngineClient ---------------------------
(* Two or three requests, an engine with one slot or two, and the processes that replace it. *)
EXTENDS EngineClient

CONSTANTS a, b, c

TwoClients == {a, b}
ThreeClients == {a, b, c}
Alike == Permutations(Clients)
=============================================================================
