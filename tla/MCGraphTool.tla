---------------------------- MODULE MCGraphTool ----------------------------
(***************************************************************************)
(* GraphTool on every option combination of a small model.                 *)
(***************************************************************************)
EXTENDS GraphTool

CONSTANTS Layers, FirstKDense, Heads, KvChunks, MoeInter, KChunks, Splits, OptionSets,
          EditedOptionSets

Line(k_chunk, split, options) ==
  [ layers |-> Layers, first_k_dense |-> FirstKDense, heads |-> Heads, kv_chunks |-> KvChunks,
    top_k |-> 1, moe_inter |-> MoeInter, k_chunk |-> k_chunk, split_workers |-> split,
    prefetch_tasks |-> 1, options |-> options ]

MCCommandLines ==
  { Line(k, s, o) : k \in KChunks, s \in Splits, o \in OptionSets \cup EditedOptionSets }

\* The graphs with a chunked h and one group of workers for both expert phases.
MCEditedLines ==
  { Line(CHOOSE k \in KChunks : \A j \in KChunks : k <= j, 0, o) : o \in EditedOptionSets }

MCOptionSets == SUBSET Options

=============================================================================
