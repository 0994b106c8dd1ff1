---------------------------- MODULE GreedyDecode ----------------------------
(***************************************************************************)
(* What both decoders promise: a text that starts as a prompt and grows by *)
(* the token the model likes best after everything written so far.  No     *)
(* cache, no positions, no layers.                                         *)
(***************************************************************************)
EXTENDS Sequences

CONSTANTS
  Prompts,     \* the prompts a text may start from
  Greedy(_)    \* argmax of the model's logits after a text

VARIABLE text

Start == text' \in Prompts
Decode == text' = Append(text, Greedy(text))

Spec == text \in Prompts /\ [][Start \/ Decode]_text

=============================================================================
