--------------------------- MODULE ReferenceModel ---------------------------
(***************************************************************************)
(* One forward pass of the DeepSeek-V2 model, as far as its state and its  *)
(* index arithmetic go: the rotary tables each layer grows and keeps, the  *)
(* key/value cache, which cached rows a query sees and how far away they   *)
(* look to it, the expert dispatch of a batch of positions, and the mask   *)
(* and size tests that raise.                                              *)
(*                                                                         *)
(* Numbers are abstracted to what they were computed from.  The value of a *)
(* position before layer l is [at |-> l, seen |-> the tokens it depends    *)
(* on]: its own token before the first layer, its whole prefix afterwards. *)
(* A value computed from anything else (a missing or foreign row, a wrong  *)
(* distance, another expert's output) is Garbage, and stays so.            *)
(***************************************************************************)
EXTENDS Integers, Sequences, FiniteSets, SequencesExt, FiniteSetsExt, WeightLayout

CONSTANTS
  Greedy(_),        \* the model's best next token after a text
  Affinity(_, _),   \* router score of an expert for a value
  TopK,
  RopeType,         \* config.rope_scaling: "none", "yarn", "linear" or "dynamic"
  MaxPositions,     \* config.max_position_embeddings
  Junk              \* the token argmax happens to give on garbage

ASSUME ModelAssumption ==
  /\ TopK \in 1 .. NRouted
  /\ RopeType \in {"none", "yarn", "linear", "dynamic"}
  /\ MaxPositions \in Nat \ {0}

Garbage == [at |-> -1, seen |-> << >>]

Embed(t) == [at |-> 0, seen |-> <<t>>]

NextToken(h) == IF h.at = NLayers THEN Greedy(h.seen) ELSE Junk

-----------------------------------------------------------------------------
(* Rotary embeddings.  A table is known by the length it was built for;    *)
(* only the dynamic kind lets its frequencies depend on that length.       *)

None == 0

NtkBase(n) == IF n > MaxPositions THEN n ELSE 0
YarnBase(n) == 0         \* nor do the plain and the linear kind depend on n
Base(n) == IF RopeType = "dynamic" THEN NtkBase(n) ELSE YarnBase(n)

\* rotary_emb.forward: the table afterwards, and what it gives for a position.
RotaryForward(cached, seq_len) == IF cached = None \/ seq_len > cached THEN seq_len ELSE cached
Rotation(cached, p) == [pos |-> p, base |-> Base(cached)]

\* A cached row: key and value come from one input value, the key turned by a
\* rotation.  A row nobody wrote is zero.
Row(h, rotation) == [of |-> h, rot |-> rotation]
ZeroRow == Row(Garbage, [pos |-> -1, base |-> 0])

-----------------------------------------------------------------------------
(* Attention of one query over the rows it sees: rotations make it depend  *)
(* on distances only.                                                      *)

Attend(h, rot, rows) ==
  LET n == Len(rows)
      dist(i) == rot.pos - rows[i].rot.pos
      at(k) == CHOOSE i \in 1 .. n : dist(i) = n - k
      proper ==
        /\ h # Garbage
        /\ { dist(i) : i \in 1 .. n } = 0 .. n - 1
        /\ \A i \in 1 .. n : rows[i].of.at = h.at /\ rows[i].rot.base = rot.base
      \* the k-th token of the prefix, as its row tells it
      prefix == [k \in 1 .. n |-> Last(rows[at(k)].of.seen)]
      carried(k) == IF h.at = 0 THEN <<prefix[k]>> ELSE SubSeq(prefix, 1, k)
  IN IF proper /\ h = rows[at(n)].of /\ \A k \in 1 .. n : rows[at(k)].of.seen = carried(k)
     THEN [h EXCEPT !.seen = prefix]
     ELSE Garbage

\* A layer's attention over the positions of a forward: the rows it adds to its
\* cache, and each position's view of the rows up to its own.
NewRows(hs, rots) == [i \in DOMAIN hs |-> Row(hs[i], rots[i])]
SelfAttention(hs, rots, past) ==
  LET rows == past \o NewRows(hs, rots) IN
  [i \in DOMAIN hs |-> Attend(hs[i], rots[i], SubSeq(rows, 1, Len(past) + i))]

-----------------------------------------------------------------------------
(* The expert layer, over a batch of positions.                            *)

\* MoEGate, topk_method "greedy"; the order of the chosen is not specified.
Gate(h) ==
  CHOOSE ids \in [1 .. TopK -> 0 .. NRouted - 1] :
    \A i \in 1 .. TopK, e \in 0 .. NRouted - 1 :
      /\ \A j \in 1 .. TopK : ids[i] = ids[j] => i = j
      /\ (\A j \in 1 .. TopK : ids[j] # e) => Affinity(h, e) <= Affinity(h, ids[i])

\* argsort is not stable: any order of the (position, choice) pairs that
\* sorts them by expert.
Sorts(flat) ==
  { p \in SetToSeqs(DOMAIN flat) :
      \A i \in 1 .. Len(p) - 1 : flat[p[i]] <= flat[p[i + 1]] }

ScatterSorted(idxs, outs) == outs        \* mutant: results left in sorted order
Scatter(idxs, outs) == [i \in DOMAIN outs |-> outs[CHOOSE j \in DOMAIN idxs : idxs[j] = i]]

\* moe_infer: positions copied once per choice, sorted by expert, cut into one
\* run per expert, put back in place, weighted and summed per position.
MoeInfer(x, idxs, flat) ==
  LET sorted == [j \in DOMAIN idxs |-> x[(idxs[j] - 1) \div TopK + 1]]
      count == [e \in 0 .. NRouted - 1 |-> Cardinality({ i \in DOMAIN flat : flat[i] = e })]
      start[e \in 0 .. NRouted] == IF e = 0 THEN 0 ELSE start[e - 1] + count[e - 1]
      expert(j) == CHOOSE e \in 0 .. NRouted - 1 : start[e] < j /\ j <= start[e + 1]
      outs == [j \in DOMAIN idxs |-> [expert |-> expert(j), of |-> sorted[j]]]
      new_x == Scatter(idxs, outs)
  IN [t \in DOMAIN x |-> [k \in 1 .. TopK |-> new_x[(t - 1) * TopK + k]]]

\* The residual stream after the MLP of layer l.
AfterMlp(h) == IF h = Garbage THEN Garbage ELSE [h EXCEPT !.at = @ + 1]

Mixed(h, parts) ==
  IF \A k \in 1 .. TopK : parts[k] = [expert |-> Gate(h)[k], of |-> h] THEN AfterMlp(h) ELSE Garbage

MlpLayer(l, x, idxs, flat) ==
  IF IsMoe(l)
  THEN LET y == MoeInfer(x, idxs, flat) IN [t \in DOMAIN x |-> Mixed(x[t], y[t])]
  ELSE [t \in DOMAIN x |-> AfterMlp(x[t])]

FlatTopk(x) == [i \in 1 .. Len(x) * TopK |-> Gate(x[(i - 1) \div TopK + 1])[((i - 1) % TopK) + 1]]

=============================================================================
