--------------------------- MODULE PlainDecoding ---------------------------
(* What a generator promises about the tokens it emits, however it computes *)
(* them: after a prompt, a request only ever appends tokens the model gives *)
(* after the text before them (src/engine/generate.h: "greedy verification  *)
(* keeps exactly the tokens plain greedy decoding ... produces").           *)
EXTENDS Naturals, Sequences

CONSTANTS Tokens,      \* the vocabulary
          Support(_)   \* the tokens the model may emit after a text

VARIABLES text,   \* the conversation: the prompt and what was emitted after it
          open    \* a request is in flight

vars == <<text, open>>

(* out may be emitted after s, token by token. *)
Continues(s, out) ==
  \A i \in 1..Len(out) : out[i] \in Support(s \o SubSeq(out, 1, i - 1))

Init == text = <<>> /\ ~open

(* A request: its prompt is the conversation so far, edited as the client   *)
(* likes, and the first token comes from it.                                *)
Ask == /\ ~open
       /\ open'
       /\ LET n == Len(text') - 1 IN
            /\ n > 0
            /\ Continues(SubSeq(text', 1, n), <<text'[n + 1]>>)

Decode == /\ open
          /\ Len(text') > Len(text)
          /\ SubSeq(text', 1, Len(text)) = text
          /\ Continues(text, SubSeq(text', Len(text) + 1, Len(text')))
          /\ UNCHANGED open

Close == open /\ ~open' /\ UNCHANGED text

Next == Ask \/ Decode \/ Close

Spec == Init /\ [][Next]_vars
=============================================================================
