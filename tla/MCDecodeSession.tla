--------------------------- MODULE MCDecodeSession ---------------------------
(* A three-token prompt, one dense and one MoE layer, two routed experts of *)
(* which both are chosen in an order that depends on the text, a vocabulary *)
(* of seven tokens.                                                         *)
EXTENDS DecodeSession

MCPrompt == <<3, 1, 4>>

\* Two texts that differ anywhere give different tokens, as far as possible.
MCGreedy(text) ==
  LET h[i \in 0 .. Len(text)] == IF i = 0 THEN 1 ELSE (h[i - 1] * 3 + text[i] + i) % 7 IN h[Len(text)]

MCAffinity(h, e) == (MCGreedy(h.seen) + e + 1) % 2

=============================================================================
