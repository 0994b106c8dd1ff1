--------------------------- MODULE DecodeDataflow ---------------------------
(***************************************************************************)
(* The activation buffers under the protocol of FleetRuntime: which cells  *)
(* of them a task body reads and writes, and which value (which token's,   *)
(* which layer's) each cell holds.  A cell is the part of a buffer one     *)
(* workgroup writes at a time; a value is named by its epoch, its layer    *)
(* and a stage, since layer L's x[1] is rewritten in place by dense_down.  *)
(* Only the protocol orders the bodies, so a missing edge of the task      *)
(* graph shows up as a race or as a stale input.                           *)
(***************************************************************************)
EXTENDS FleetRuntime

VARIABLE mem      \* the value each cell holds

dvars == <<vars, mem>>

-----------------------------------------------------------------------------
(* Buffers (struct Activations, struct KVCache).                           *)

\* A chiplet-task's output rows are dealt over the workers, so one cell per
\* workgroup that owns rows.
Owned(buf, x, ws) == { <<buf, x, w>> : w \in ws }
EveryXcd(buf)     == UNION { Owned(buf, x, Workers) : x \in Xcds }
HeadCells(buf, h, n) == { <<buf, h, c>> : c \in 0 .. n - 1 }

X0 == { <<"x0">> }
SingleBuffer == X0      \* mutant: the residual folded in place
X1 == EveryXcd("x1")

TasksOf(kind, layer) == { i \in TaskIds : Desc[i].kind = kind /\ Desc[i].layer = layer }
WorkersOf(kind, layer, x) ==
  { Desc[i].worker : i \in { j \in TasksOf(kind, layer) : Desc[j].xcd = x } }
AttentionTasks == { i \in TaskIds : Desc[i].kind = "ATTENTION" }

IsMoe(layer) == TasksOf("EXPERT_DOWN", layer) # {}
LastLayer    == Cardinality({ Desc[i].layer : i \in AttentionTasks }) - 1

\* expert_h in the MoE layout: the rows one wave of one worker owns of a K-chunk.
ExpertH(x, ws, c) == { <<"h", x, w, v, c>> : w \in ws, v \in Waves }

Cells ==
  X0 \cup X1
    \cup (UNION { EveryXcd(buf) : buf \in {"q", "kv_a", "oproj_partial", "logits", "ids",
                                            "expert_out", "h_dense", "candidate"} })
    \cup ({"x_norm", "topk", "x_local", "kv_local"} \X Xcds)
    \cup { <<"token_in", k>> : k \in 1 .. Tokens + 1 }
    \cup { <<"kv", Desc[i].layer, k>> : i \in AttentionTasks, k \in 1 .. Tokens }
    \cup (UNION { HeadCells("attn_partial", Desc[i].head, Desc[i].n_split)
                    \cup HeadCells("o", Desc[i].head, Desc[i].n_split)
                    \cup HeadCells("q_absorbed", Desc[i].head, QAbsSlices) : i \in AttentionTasks })
    \cup UNION { UNION { ExpertH(Desc[i].xcd, {Desc[i].worker}, c) : c \in 0 .. Chunks(Desc[i]) - 1 }
                 : i \in TaskIds }

-----------------------------------------------------------------------------
(* The cases of run_task: what a body of task t reads and writes while it  *)
(* is at place p with n in-body waits behind it.  The value is named by    *)
(* layer and stage; its epoch is the one the body runs at.                 *)

At(cells, layer, stage) == { <<c, layer, stage>> : c \in cells }

\* stage_residual: x[1] of layer L, after an in-place dense_down or before
\* the expert partials the reader folds.
Partials(L) ==
  { <<"expert_out", Desc[i].xcd, Desc[i].worker>> : i \in TasksOf("EXPERT_DOWN", L) }

FoldedExperts(L) == At(X1 \cup Partials(L), L, "mid")

Residual(t, L) ==
  IF "FOLD_PARTIALS" \in t.flags THEN FoldedExperts(L)
  ELSE At(X1, L, IF IsMoe(L) THEN "mid" ELSE "out")

\* The fold of the expert partials, or its local copy.
Folded(t, L) ==
  IF "LOCAL_FOLD" \in t.flags THEN At({<<"x_local", t.xcd>>}, L, "folded") ELSE Residual(t, L)

FoldOproj == 0      \* kFoldOproj

\* Where an expert task finds the routing: the published top-k, what this
\* workgroup's gate_up left in its LDS, or the chiplet's logits.
Lds(t) == {<<"ids", t.xcd, t.worker>>}

Routing(t) ==
  IF "TOPK_READ" \in t.flags THEN At({<<"topk", t.xcd>>}, t.layer, "mid")
  ELSE IF "ROUTING_CACHED" \in t.flags THEN At(Lds(t), t.layer, "mid")
  ELSE At(Owned("logits", t.xcd, Workers), t.layer, "mid")

Mid(cells, t) == At(cells, t.layer, "mid")
RowSplit(t)   == "OPROJ_ROW_SPLIT" \in t.flags
OnePerXcd(t)  == t.worker = 0                  \* mutant: every chiplet publishes it
Publisher(t)  == t.xcd = 0 /\ t.worker = 0     \* who publishes the folded residual

\* Inside the body, a wait or an arrival splits what is touched before it
\* from what is touched after it.
FirstPart(t, p) == p = BodyStart(t)

\* task_norm_router: fold, norm and logits up to the arrival on local_event,
\* the top-k of the chiplet's logits for the last arriver.
RouterReads(t, p) ==
  IF p = "topk" THEN Mid(Owned("logits", t.xcd, Workers), t)
  ELSE IF ~FirstPart(t, p) THEN {}
  ELSE IF "LOCAL_FOLD" \in t.flags THEN Mid({<<"x_local", t.xcd>>}, t)
  ELSE IF RowSplit(t) THEN Mid(X1, t)
  ELSE At(X0, t.layer, "in") \cup Mid(EveryXcd("oproj_partial"), t)

RouterWrites(t, p) ==
  IF p = "topk" THEN Mid({<<"topk", t.xcd>>}, t)
  ELSE IF ~FirstPart(t, p) THEN {}
  ELSE Mid((IF Publisher(t) /\ ~RowSplit(t) /\ "LOCAL_FOLD" \notin t.flags THEN X1 ELSE {})
             \cup (IF t.worker = 0 THEN {<<"x_norm", t.xcd>>} ELSE {})
             \cup (IF IsMoe(t.layer) THEN {<<"logits", t.xcd, t.worker>>} ELSE {}), t)

\* TASK_ATTENTION: kv_a throughout (kv_post keeps its row in LDS), q and the
\* published q_c after the wait for it.
AttentionReads(t, p) ==
  Mid(IF "LOCAL_KVA" \in t.flags THEN {<<"kv_local", t.xcd>>}
      ELSE IF "KVA_SHARED" \in t.flags THEN EveryXcd("kv_a")
      ELSE Owned("kv_a", t.xcd, Workers), t)
    \cup (IF p = "body" THEN Mid(Owned("q", t.xcd, Workers), t) ELSE {})
    \cup (IF p = "body" /\ "PUB_WAIT" \in t.flags
          THEN Mid(HeadCells("q_absorbed", t.head, QAbsSlices), t) ELSE {})

\* TASK_REDUCE: every XCD its copy, XCD 0 also the canonical residual.
FoldedLayer(t) == IF t.layer < 0 THEN LastLayer ELSE t.layer - 1

ReduceReads(t) ==
  IF "LOCAL_KVA" \in t.flags THEN Mid(EveryXcd("kv_a"), t)
  ELSE IF t.head = FoldOproj THEN At(X0, t.layer, "in") \cup Mid(EveryXcd("oproj_partial"), t)
  ELSE FoldedExperts(FoldedLayer(t))

ReduceWrites(t) ==
  IF "LOCAL_KVA" \in t.flags THEN Mid({<<"kv_local", t.xcd>>}, t)
  ELSE IF t.head = FoldOproj
       THEN Mid({<<"x_local", t.xcd>>} \cup (IF t.xcd = 0 THEN X1 ELSE {}), t)
  ELSE At({<<"x_local", t.xcd>>}, FoldedLayer(t), "folded")
         \cup (IF t.xcd = 0 /\ t.layer >= 0 THEN At(X0, t.layer, "in") ELSE {})

\* O_PROJ reads its chiplet's heads of o, or all of them when it is row-split.
OprojReads(t) ==
  Mid({ <<"o", Desc[i].head, Desc[i].kv_chunk>> :
          i \in { j \in TasksOf("MERGE_UV", t.layer) : RowSplit(t) \/ Desc[j].xcd = t.xcd } }, t)
    \cup (IF RowSplit(t) THEN At(X0, t.layer, "in") ELSE {})

ReadBy(t, p, n) ==
  CASE t.kind = "QKV_FUSED" ->
         IF t.layer = 0 THEN At(X0, 0, "in") ELSE Folded(t, t.layer - 1)
    [] t.kind = "Q_ABSORB"    -> Mid(Owned("q", t.xcd, Workers), t)
    [] t.kind = "ATTENTION"   -> AttentionReads(t, p)
    [] t.kind = "MERGE_UV"    -> Mid(HeadCells("attn_partial", t.head, t.n_split), t)
    [] t.kind = "O_PROJ"      -> OprojReads(t)
    [] t.kind = "NORM_ROUTER" -> RouterReads(t, p)
    [] t.kind = "EXPERT_GATE_UP" -> Mid({<<"x_norm", t.xcd>>}, t) \cup Routing(t)
    [] t.kind = "EXPERT_DOWN" ->
         Mid(ExpertH(t.xcd, WorkersOf("EXPERT_GATE_UP", t.layer, t.xcd), n), t) \cup Routing(t)
    [] t.kind = "DENSE_GATE_UP" -> Mid({<<"x_norm", t.xcd>>}, t)
    [] t.kind = "DENSE_DOWN"  -> Mid(EveryXcd("h_dense") \cup {<<"x1", t.xcd, t.worker>>}, t)
    [] t.kind = "REDUCE"      -> ReduceReads(t)
    [] t.kind = "LM_HEAD"     -> Folded(t, LastLayer)
    [] t.kind = "ARGMAX"      -> Mid(EveryXcd("candidate"), t)
    [] OTHER -> {}

WrittenBy(t, p) ==
  LET own(buf) == <<buf, t.xcd, t.worker>> IN
  CASE t.kind = "EMBED"       -> At(X0, 0, "in")
    [] t.kind = "QKV_FUSED"   ->
         Mid({own("q"), own("kv_a")}, t)
           \cup (IF Publisher(t) /\ t.layer # 0 /\ "LOCAL_FOLD" \notin t.flags
                 THEN At(X0, t.layer, "in") ELSE {})
    [] t.kind = "Q_ABSORB"    -> Mid({<<"q_absorbed", t.head, t.kv_chunk>>}, t)
    [] t.kind = "ATTENTION"   ->
         IF p = "body" THEN Mid({<<"attn_partial", t.head, t.kv_chunk>>}, t) ELSE {}
    [] t.kind = "MERGE_UV"    -> Mid({<<"o", t.head, t.kv_chunk>>}, t)
    [] t.kind = "O_PROJ"      -> Mid({own(IF RowSplit(t) THEN "x1" ELSE "oproj_partial")}, t)
    [] t.kind = "NORM_ROUTER" -> RouterWrites(t, p)
    [] t.kind = "EXPERT_GATE_UP" -> IF "TOPK_READ" \in t.flags THEN {} ELSE Mid(Lds(t), t)
    [] t.kind = "EXPERT_DOWN" -> IF p = "body" THEN Mid({own("expert_out")}, t) ELSE {}
    [] t.kind = "DENSE_GATE_UP" -> Mid({own("h_dense")}, t)
    [] t.kind = "DENSE_DOWN"  -> At({own("x1")}, t.layer, "out")
    [] t.kind = "REDUCE"      -> ReduceWrites(t)
    [] t.kind = "LM_HEAD"     -> Mid({own("candidate")}, t)
    [] OTHER -> {}

\* The same as tables over the descriptors: they depend on constants only.
Loads  == [i \in TaskIds |-> [p \in Running |-> [n \in 0 .. BodyWaits(Desc[i]) |->
             ReadBy(Desc[i], p, n)]]]
Stores == [i \in TaskIds |-> [p \in Running |-> WrittenBy(Desc[i], p)]]

-----------------------------------------------------------------------------
(* The same for a body of epoch k, with the rows indexed by position or    *)
(* token, and the chunks that waves with the counts done still owe.        *)

InputsAt(i, p, n, k) ==
  LET t == Desc[i] IN
  { <<c[1], <<k, c[2], c[3]>>>> : c \in Loads[i][p][n] }
    \cup (IF t.kind = "EMBED" THEN { <<<<"token_in", k>>, <<k, -1, "in">>>> } ELSE {})
    \cup (IF t.kind = "ATTENTION" /\ p = "body"
          THEN { <<<<"kv", t.layer, j>>, <<j, t.layer, "mid">>>> : j \in 1 .. k - 1 }
          ELSE {})

OutputsAt(i, p, n, k) ==
  LET t == Desc[i] IN
  { <<c[1], <<k, c[2], c[3]>>>> : c \in Stores[i][p] }
    \cup (IF t.kind = "ATTENTION" /\ t.head = 0 /\ t.kv_chunk = 0 /\ n = 0
          THEN { <<<<"kv", t.layer, k>>, <<k, t.layer, "mid">>>> } ELSE {})
    \cup (IF t.kind = "ARGMAX"
          THEN { <<<<"token_in", k + 1>>, <<k + 1, -1, "in">>>> } ELSE {})

ChunksOwed(i, done, k) ==
  LET t == Desc[i] IN
  { <<<<"h", t.xcd, t.worker, p[1], p[2]>>, <<k, t.layer, "mid">>>> : p \in
      { q \in Waves \X (0 .. Chunks(t) - 1) : q[2] >= done[q[1]] } }

\* expert_h is one allocation with two layouts, so in one layer's layout any
\* cell may alias any of the other's.
AliasesOf(i) ==
  IF Desc[i].kind \in {"EXPERT_GATE_UP", "EXPERT_DOWN"} THEN EveryXcd("h_dense")
  ELSE IF Desc[i].kind \in {"DENSE_GATE_UP", "DENSE_DOWN"}
       THEN { c \in Cells : c[1] = "h" } ELSE {}

\* The body workgroup b is in.
Inputs(b) ==
  IF pc[b] \notin Running THEN {}
  ELSE InputsAt(Queue[b][slot[b]], pc[b], inner[b], Epoch(b))

Outputs(b) ==
  IF pc[b] \notin Running THEN {}
  ELSE OutputsAt(Queue[b][slot[b]], pc[b], inner[b], Epoch(b))
         \cup ChunksOwed(Queue[b][slot[b]], wave[b], Epoch(b))

\* The host has uploaded the first input token; nothing else holds a value.
DInit ==
  /\ Init
  /\ mem = [c \in Cells |-> IF c = <<"token_in", 1>> THEN <<1, -1, "in">> ELSE <<0, -1, "none">>]

\* A value lands when its workgroup moves past the part of the body that
\* writes it.
Landed(b) == Outputs(b) \ Outputs(b)'

\* Cells with new values over the old ones.
Overlay(new, old) ==
  LET d == DOMAIN new
  IN  [c \in d \cup DOMAIN old |-> IF c \in d THEN new[c] ELSE old[c]]

Land(b) ==
  LET landed == Landed(b)
  IN  mem' = Overlay([c \in { o[1] : o \in landed } |->
                        (CHOOSE o \in landed : o[1] = c)[2]], mem)

-----------------------------------------------------------------------------
\* Every body reads exactly the values its place in the model calls for: this
\* token's, of the right layer, from the buffer's current writer, and nobody
\* replaces them before the body is done (the x[0]/x[1] double buffer, buffers
\* reused by every layer and token, the KV rows of earlier tokens).
InputsAreCurrent ==
  \A b \in Blocks : \A i \in Inputs(b) : mem[i[1]] = i[2]

Aliases(b) == IF pc[b] \notin Running THEN {} ELSE AliasesOf(Queue[b][slot[b]])

Reads(b)  == { i[1] : i \in Inputs(b) } \cup Aliases(b)
Writes(b) == { o[1] : o \in Outputs(b) }

\* No two workgroups work at the same time on a cell one of them writes ("no
\* reader and writer ever share one").
NoDataRace ==
  \A b \in Blocks : Writes(b) # {} =>
    \A c \in Blocks \ {b} : Writes(b) \cap (Reads(c) \cup Writes(c)) = {}

=============================================================================
