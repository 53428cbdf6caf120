---------------------------- MODULE MC_Lookahead ----------------------------
(* A small vocabulary and context, windows of four rows: a draft may be      *)
(* accepted before one that is not, and a speculation confirmed twice in a   *)
(* row.  The model is sure of the token after some texts and not of others.  *)
(*                                                                           *)
(* What verify_window makes of a sampled draft is checked one call at a      *)
(* time: a behaviour decodes, or it is one call, with any pair of            *)
(* distributions over three tokens in quarters.                              *)
EXTENDS Lookahead

VARIABLE call

TwoTokens == {0, 1}
Likely(s) == IF Len(s) % 3 = 0 THEN {0, 1} ELSE {(s[1] + s[Len(s)] + Len(s)) % 2}

NoCall == [what |-> "none"]
Calls  == [what : {"verify"}, p : Distributions, q : Distributions]

\* A behaviour with a call is that call, and over.
Decode == call = NoCall /\ Next /\ UNCHANGED call

MCInit == Init /\ call \in {NoCall} \cup Calls
MCSpec == MCInit /\ [][Decode]_<<vars, call>>

\* Exact of every draft that is verified: accepted or replaced, the tokens are distributed as the target says.
AcceptanceExact == call.what = "verify" => Exact(call.p, call.q)
=============================================================================
