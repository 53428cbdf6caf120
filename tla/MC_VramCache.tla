---------------------------- MODULE MC_VramCache ----------------------------
(* Two layers of three experts, whose slots share granules in the first layer and straddle them in the *)
(* second; two orders of heat.                                                                          *)
EXTENDS VramCache

MCSlotBytes == <<2, 3>>
Order(xs) == [x \in Layers \X Experts |-> CHOOSE i \in DOMAIN xs : xs[i] = x]
TwoHeats == {Order(<< <<1, 1>>, <<2, 1>>, <<1, 2>>, <<2, 2>>, <<1, 3>>, <<2, 3>> >>),
             Order(<< <<2, 3>>, <<1, 3>>, <<2, 1>>, <<1, 1>>, <<2, 2>>, <<1, 2>> >>)}
NoneOrTwo == {0, 2}
=============================================================================
