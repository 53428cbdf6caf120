------------------------- MODULE MC_ExpertExchange -------------------------
(* An instance of the exchange: layer A with one slot, three experts and one spare blob , layer B with *)
(* one slot, two experts and one spare, and two stages, so that an exchange in each layer runs at once   *)
(* and a second one in A is refused for as long as A's slot is busy.                                     *)
EXTENDS ExpertExchange, TLC

CONSTANTS a1, a2, a3, b1, b2,      \* experts of layers A and B
          p1, q1,                  \* slots
          h1, h2, h3, k1, k2,  \* blobs
          t1, t2,                  \* stages
          A, B

MCLayers  == {A, B}
MCExperts == {a1, a2, a3, b1, b2}
MCSlots   == {p1, q1}
MCBlobs   == {h1, h2, h3, k1, k2}
MCStages  == {t1, t2}

MCLayerOf == [i \in MCExperts \cup MCSlots \cup MCBlobs |-> IF i \in {b1, b2, q1, k1, k2} THEN B ELSE A]

MCResident0 == [s \in MCSlots |-> IF s = p1 THEN a1 ELSE b1]
MCStore0    == [e \in MCExperts |-> CASE e = a2 -> h1 [] e = a3 -> h2 [] e = b2 -> k1 [] OTHER -> None]
=============================================================================
