---------------------------- MODULE MC_ServeLoop ----------------------------
(***************************************************************************)
(* Instances of the server loop: two or three requests, on fewer or as many *)
(* slots, some with a reset, which waits until nothing is in flight.  Ids  *)
(* are numbered in the order they come.                                    *)
(***************************************************************************)
EXTENDS ServeLoop

TwoSlots == {0, 1}
ThreeSlots == {0, 1, 2}
TwoReqs == {1, 2}
ThreeReqs == {1, 2, 4}
NoIds == {}
OneReset == {3}
LongFirst == [r \in ThreeReqs |-> IF r = 1 THEN 3 ELSE 2]
ThreeAll == [r \in ThreeReqs |-> 3]
Three == [r \in TwoReqs |-> 3]
=============================================================================
