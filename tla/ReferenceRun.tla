---------------------------- MODULE ReferenceRun ----------------------------
(***************************************************************************)
(* reference_run.py: the stock model prefills a prompt and decodes greedily *)
(* through its key/value cache, hooks pick up hidden states and compressed *)
(* rows on the way, kv_convert turns the rows into the cache the kernel    *)
(* reads, and three files are written one after the other.  The run may    *)
(* die at any point, also in the middle of a file, and may be repeated     *)
(* with other arguments over the files the last one left.                  *)
(***************************************************************************)
EXTENDS ReferenceModel

CONSTANTS
  Prompt,       \* build_prompt's text, as long as the longest context
  Contexts,     \* values of --context
  Decodes,      \* values of --decode
  HalfToken,    \* what a token cut short reads as
  MaxRuns       \* bound: how often the tool is run

ASSUME ReferenceAssumption ==
  /\ Contexts \subseteq 1 .. Len(Prompt)
  /\ Decodes \subseteq Nat \ {0}
  /\ MaxRuns \in Nat

VARIABLES
  stage,        \* where main is
  context, decode,       \* its arguments
  layer,        \* the next layer of the current forward
  start,        \* past_key_values_length of the current forward
  masked,       \* the length of its attention mask
  hs,           \* its hidden states, one per input position
  past,         \* past_key_values, per layer
  cached,       \* rotary_emb.max_seq_len_cached, per layer
  hooks,        \* which forward hooks are registered
  hidden, compressed,    \* what the hooks stored, per layer
  gen_ids,
  cache_bin, golden_txt, hidden_bin,   \* the files, with the arguments of the run that wrote them
  runs

refVars == <<stage, context, decode, layer, start, masked, hs, past, cached, hooks, hidden,
             compressed, gen_ids, cache_bin, golden_txt, hidden_bin, runs>>

files == <<cache_bin, golden_txt, hidden_bin>>

Stages == {"idle", "prefill", "decode", "cache", "tokens", "hidden"}

\* No run wrote it, or the run that did left it half-written.
Nobody == <<0, 0>>
NoFile == [data |-> << >>, by |-> Nobody]

\* A forward with these tokens: positions continue after the rows cached so far.
Forward(ids, mask, past_key_values_length) ==
  /\ layer' = 0
  /\ start' = past_key_values_length
  /\ masked' = mask
  /\ hs' = [i \in DOMAIN ids |-> Embed(ids[i])]

MaskOfInputs(c, step) == c + step    \* mutant: the mask forgets the new token
MaskLength(c, step) == c + step + 1

StartReference(c, d) ==
  /\ stage = "idle" /\ runs < MaxRuns
  /\ runs' = runs + 1
  /\ stage' = "prefill" /\ context' = c /\ decode' = d
  /\ past' = [l \in Layers |-> << >>]
  /\ cached' = [l \in Layers |-> None]
  /\ hooks' = {"layer", "kv"}
  /\ hidden' = << >> /\ compressed' = << >> /\ gen_ids' = << >>
  /\ Forward(SubSeq(Prompt, 1, c), c, 0)
  /\ UNCHANGED files

\* The mask covers every cached and every new position, or the model raises.
MaskFits == masked = start + Len(hs) /\ start = Len(past[layer])

Hooked(dict, h, l, value) ==
  IF h \in hooks THEN [m \in DOMAIN dict \cup {l} |-> IF m = l THEN value ELSE dict[m]] ELSE dict

\* One decoder layer, with the hooks on it.
RunLayer ==
  LET l == layer
      table == RotaryForward(cached[l], Len(hs) + Len(past[l]))
      rots == [i \in DOMAIN hs |-> Rotation(table, start + i - 1)]
      att == SelfAttention(hs, rots, past[l])
      flat == FlatTopk(att)
  IN /\ stage \in {"prefill", "decode"} /\ layer < NLayers /\ MaskFits
     /\ \E idxs \in IF IsMoe(l) THEN Sorts(flat) ELSE {flat} :
          LET out == MlpLayer(l, att, idxs, flat) IN
          /\ hs' = out
          /\ hidden' = Hooked(hidden, "layer", l, Last(out))
     /\ compressed' = Hooked(compressed, "kv", l, hs)
     /\ past' = [past EXCEPT ![l] = @ \o NewRows(hs, rots)]
     /\ cached' = [cached EXCEPT ![l] = table]
     /\ layer' = layer + 1
     /\ UNCHANGED <<stage, context, decode, start, masked, hooks, gen_ids, files, runs>>

HooksOfDecode == {"layer"}

EndPrefill ==
  LET tok0 == NextToken(Last(hs)) IN
  /\ stage = "prefill" /\ layer = NLayers
  /\ stage' = "decode"
  /\ gen_ids' = <<tok0>>
  /\ hooks' = HooksOfDecode
  /\ hidden' = << >>
  /\ Forward(<<tok0>>, MaskLength(context, 0), Len(past[0]))
  /\ UNCHANGED <<context, decode, past, cached, compressed, files, runs>>

OneStepMore(steps) == steps <= decode    \* mutant: one step too many
MoreSteps(steps) == steps < decode

EndStep ==
  LET step == Len(gen_ids) - 1
      t_id == NextToken(Last(hs))
  IN /\ stage = "decode" /\ layer = NLayers
     /\ hooks' = IF step = 0 THEN {} ELSE hooks
     /\ gen_ids' = Append(gen_ids, t_id)
     /\ IF MoreSteps(step + 1)
        THEN Forward(<<t_id>>, MaskLength(context, step + 1), Len(past[0])) /\ UNCHANGED stage
        ELSE stage' = "cache" /\ UNCHANGED <<layer, start, masked, hs>>
     /\ UNCHANGED <<context, decode, past, cached, hidden, compressed, files, runs>>

-----------------------------------------------------------------------------
(* The files.  Writing one ends with its last row; a run that dies in the  *)
(* middle leaves a beginning of it.                                        *)

Written(data) == [data |-> data, by |-> <<context, decode>>]
Beginnings(data) == { [data |-> SubSeq(data, 1, n), by |-> Nobody] : n \in 0 .. Len(data) - 1 }

\* A text file may also end inside a token, which then reads as another one.
TornTokens(ids) ==
  Beginnings(ids) \cup
  { [data |-> Append(SubSeq(ids, 1, n - 1), HalfToken), by |-> Nobody] : n \in 1 .. Len(ids) }

max_pos == context + decode

PositionsFromOne(i) == i         \* mutant: positions counted from one
pos_ids(i) == i - 1

\* build_fleet_cache: the rows the prefill's hook captured, normed and turned
\* by the layer's own table.
FleetRow(l, i) ==
  LET S == Len(compressed[l]) IN
  IF i <= S THEN Row(compressed[l][i], Rotation(RotaryForward(cached[l], S), pos_ids(i)))
  ELSE ZeroRow

\* write_fleet_cache_bin: [layers][max_pos][row].
FleetCache ==
  [k \in 1 .. NLayers * max_pos |-> FleetRow((k - 1) \div max_pos, ((k - 1) % max_pos) + 1)]

process == <<context, decode, layer, start, masked, hs, past, cached, hooks, hidden, compressed, gen_ids>>

\* The tool ends, or dies; only the files stay.
Gone ==
  /\ stage' = "idle"
  /\ layer' = 0 /\ start' = 0 /\ masked' = 0 /\ hs' = << >>
  /\ past' = [l \in Layers |-> << >>] /\ cached' = [l \in Layers |-> None]
  /\ hooks' = {} /\ hidden' = << >> /\ compressed' = << >> /\ gen_ids' = << >>
  /\ UNCHANGED <<context, decode>>

WriteCache ==
  /\ stage = "cache" /\ DOMAIN hidden = Layers /\ DOMAIN compressed = Layers
  /\ \/ /\ cache_bin' = Written(FleetCache)
        /\ stage' = "tokens"
        /\ cached' = [l \in Layers |-> RotaryForward(cached[l], Len(compressed[l]))]
        /\ UNCHANGED <<context, decode, layer, start, masked, hs, past, hooks, hidden, compressed,
                       gen_ids>>
     \/ cache_bin' \in Beginnings(FleetCache) /\ Gone
  /\ UNCHANGED <<golden_txt, hidden_bin, runs>>

WriteTokens ==
  /\ stage = "tokens"
  /\ \/ golden_txt' = Written(gen_ids) /\ stage' = "hidden" /\ UNCHANGED process
     \/ golden_txt' \in TornTokens(gen_ids) /\ Gone
  /\ UNCHANGED <<cache_bin, hidden_bin, runs>>

WriteHidden ==
  LET data == [k \in 1 .. NLayers |-> hidden[k - 1]] IN
  /\ stage = "hidden"
  /\ hidden_bin' \in {Written(data)} \cup Beginnings(data) /\ Gone
  /\ UNCHANGED <<cache_bin, golden_txt, runs>>

ReferenceDies ==
  /\ stage # "idle"
  /\ Gone
  /\ UNCHANGED <<files, runs>>

RefInit ==
  /\ stage = "idle" /\ runs = 0
  /\ context \in Contexts /\ decode \in Decodes
  /\ layer = 0 /\ start = 0 /\ masked = 0 /\ hs = << >>
  /\ past = [l \in Layers |-> << >>] /\ cached = [l \in Layers |-> None]
  /\ hooks = {} /\ hidden = << >> /\ compressed = << >> /\ gen_ids = << >>
  /\ cache_bin = NoFile /\ golden_txt = NoFile /\ hidden_bin = NoFile

RefStep ==
  \/ RunLayer \/ EndPrefill \/ EndStep
  \/ WriteCache \/ WriteTokens \/ WriteHidden \/ ReferenceDies

-----------------------------------------------------------------------------
\* Decoding through the cache, a layer and a position at a time, gives the
\* tokens of a model that reads the whole text for every token (the reference
\* decode loop, Attention.forward, the rotary tables, moe_infer).
RefText == SubSeq(Prompt, 1, context) \o gen_ids
Golden == INSTANCE GreedyDecode WITH
            text <- RefText, Prompts <- { SubSeq(Prompt, 1, c) : c \in Contexts }
HfDecodesGreedily == Golden!Spec

\* The converted rows are the ones the model's own attention kept for the
\* prompt, although they are rebuilt from a projection captured before the
\* norm and the rotation, after the decode has used the tables (kv_convert).
FleetRowsAreHf ==
  stage = "tokens" =>
    \A l \in Layers, i \in 1 .. context : cache_bin.data[l * max_pos + i] = past[l][i]

\* No check the model or numpy makes ever stops a run: the mask main builds for
\* a forward covers exactly the cached and the new positions, and when np.stack
\* collects what the hooks stored, they have seen every layer
\* (Attention.forward's size tests, reference_run.py main).
NothingRaises ==
  /\ stage \in {"prefill", "decode"} /\ layer < NLayers => MaskFits
  /\ stage = "cache" => DOMAIN hidden = Layers /\ DOMAIN compressed = Layers

=============================================================================
