---------------------------- MODULE WeightLayout ----------------------------
(***************************************************************************)
(* What pack_weights.py puts into each tensor of weights.bin, and where    *)
(* the kernel looks for it: the launcher's pointer tables, resolve_unit    *)
(* and the row pointers of the GEMV tasks.  The kernel computes addresses, *)
(* it never looks a tensor up, so the two must agree on the order of       *)
(* matrices, on the interleaving of gate and up rows, on the expert stride *)
(* and on the leading dimension of a shared half.                          *)
(***************************************************************************)
EXTENDS Integers, Sequences, SequencesExt

CONSTANTS
  NLayers, FirstDense,       \* layers, and how many of them are dense
  Hidden, MoeInter, DenseInter, NRouted,
  QRows, KvRows              \* rows of q_proj and of kv_a_proj_with_mqa

ASSUME LayoutAssumption ==
  /\ {NLayers, Hidden, MoeInter, DenseInter, NRouted, QRows, KvRows} \subseteq Nat \ {0}
  /\ FirstDense \in 0 .. NLayers

SharedInter == 2 * MoeInter     \* the launcher insists on two shared experts' worth

Layers == 0 .. NLayers - 1
IsMoe(l) == l >= FirstDense

\* A checkpoint matrix: every word names the matrix, its row and its column.
Matrix(l, m, e, rows, cols) ==
  [r \in 0 .. rows - 1 |-> [c \in 0 .. cols - 1 |-> <<l, m, e, r, c>>]]

Flat(M, rows, cols) == [k \in 1 .. rows * cols |-> M[(k - 1) \div cols][(k - 1) % cols]]

interleave_gate_up(gate, up, inter) ==
  [r \in 0 .. 2 * inter - 1 |-> IF r % 2 = 0 THEN gate[r \div 2] ELSE up[r \div 2]]

\* gate_up, then down, of one MLP.
Mlp(l, m, e, inter) ==
  Flat(interleave_gate_up(Matrix(l, <<m, "gate">>, e, inter, Hidden),
                          Matrix(l, <<m, "up">>, e, inter, Hidden), inter), 2 * inter, Hidden)
  \o Flat(Matrix(l, <<m, "down">>, e, Hidden, inter), Hidden, inter)

expert_stride == 3 * MoeInter * Hidden       \* blk.numel()

Experts(l) ==
  [k \in 1 .. NRouted * expert_stride |->
     Mlp(l, "expert", (k - 1) \div expert_stride, MoeInter)[((k - 1) % expert_stride) + 1]]

\* The checkpoint tensors packed as they are stand for one row of words.
Single(l, m) == Flat(Matrix(l, <<"one", m>>, 0, 1, Hidden), 1, Hidden)

LayerNames(l) ==
  << <<l, "norm_in">>, <<l, "norm_post">>, <<l, "qkv">>, <<l, "kv_a_norm">>,
     <<l, "kv_b">>, <<l, "o_proj">> >>
  \o IF IsMoe(l) THEN << <<l, "router">>, <<l, "experts">>, <<l, "shared">> >>
     ELSE << <<l, "dense">> >>

PackedNames ==
  << <<-1, "embed">>, <<-1, "final_norm">>, <<-1, "lm_head">> >>
  \o FlattenSeq([i \in 1 .. NLayers |-> LayerNames(i - 1)])

Content(n) ==
  LET l == n[1] IN
  CASE n[2] = "qkv"     -> Flat(Matrix(l, <<"attn", "q_proj">>, 0, QRows, Hidden), QRows, Hidden)
                           \o Flat(Matrix(l, <<"attn", "kv_a">>, 0, KvRows, Hidden), KvRows, Hidden)
    [] n[2] = "experts" -> Experts(l)
    [] n[2] = "shared"  -> Mlp(l, "shared", 0, SharedInter)
    [] n[2] = "dense"   -> Mlp(l, "dense", 0, DenseInter)
    [] OTHER            -> Single(l, n[2])

PackedTensors == [n \in ToSet(PackedNames) |-> Content(n)]

-----------------------------------------------------------------------------
(* The kernel's side.  Addresses are in words; base is what layer_table    *)
(* made of the manifest's byte offset.                                     *)

\* resolve_unit: a routed expert by its id, or half h of the shared expert.
RoutedUnit(experts_base, id) ==
  LET base == experts_base + id * expert_stride IN
  [gate_up |-> base, down |-> base + 2 * MoeInter * Hidden, down_ld |-> MoeInter,
   inter |-> MoeInter]

SharedHalfAt(shared_base, half) ==    \* mutant: a half steps over whole down rows
  LET rows == SharedInter \div 2 IN
  [gate_up |-> shared_base + half * 2 * rows * Hidden,
   down |-> shared_base + 2 * SharedInter * Hidden + half * rows * Hidden,
   down_ld |-> rows, inter |-> rows]
SharedUnit(shared_base, half) ==
  LET rows == SharedInter \div 2 IN
  [gate_up |-> shared_base + half * 2 * rows * Hidden,
   down |-> shared_base + 2 * SharedInter * Hidden + half * rows,
   down_ld |-> SharedInter, inter |-> rows]

\* TASK_DENSE_GATE_UP and TASK_DENSE_DOWN.
DenseUnit(base) ==
  [gate_up |-> base, down |-> base + 2 * DenseInter * Hidden, down_ld |-> DenseInter,
   inter |-> DenseInter]

\* gemv_gate_up_rows and gemv_rows: where a unit's words are read.
GateAt(u, n, k) == u.gate_up + 2 * n * Hidden + k
UpAt(u, n, k)   == u.gate_up + (2 * n + 1) * Hidden + k
DownAt(u, n, k) == u.down + n * u.down_ld + k

\* The words of unit u are rows and columns first .. of MLP m, e.
UnitIs(file, u, l, m, e, first) ==
  \A n \in 0 .. u.inter - 1, k \in 0 .. Hidden - 1 :
    /\ {GateAt(u, n, k), UpAt(u, n, k), DownAt(u, k, n)} \subseteq DOMAIN file
    /\ file[GateAt(u, n, k)] = <<l, <<m, "gate">>, e, first + n, k>>
    /\ file[UpAt(u, n, k)]   = <<l, <<m, "up">>, e, first + n, k>>
    /\ file[DownAt(u, k, n)] = <<l, <<m, "down">>, e, k, first + n>>

\* tensor_ptr
TensorPtr(tensors, l, part) == tensors[<<l, part>>].offset \div 2

\* TASK_QKV_FUSED: the kv_a rows follow the q rows of all heads.
QkvReadable(file, base, l) ==
  \A k \in 0 .. Hidden - 1 :
    /\ \A r \in 0 .. QRows - 1 : file[base + r * Hidden + k] = <<l, <<"attn", "q_proj">>, 0, r, k>>
    /\ \A r \in 0 .. KvRows - 1 :
         file[base + QRows * Hidden + r * Hidden + k] = <<l, <<"attn", "kv_a">>, 0, r, k>>

\* The tensors the launcher insists on (main, after load_manifest).
ManifestComplete(tensors) == \A n \in ToSet(PackedNames) : n \in DOMAIN tensors

\* The matrices of a layer that are read by computed addresses.
MatrixParts(l) == {"qkv"} \cup IF IsMoe(l) THEN {"experts", "shared"} ELSE {"dense"}

PartReadable(file, tensors, l, part) ==
  LET base == TensorPtr(tensors, l, part) IN
  CASE part = "qkv"     -> QkvReadable(file, base, l)
    [] part = "experts" -> \A id \in 0 .. NRouted - 1 :
                             UnitIs(file, RoutedUnit(base, id), l, "expert", id, 0)
    [] part = "shared"  -> \A half \in 0 .. 1 :
                             UnitIs(file, SharedUnit(base, half), l, "shared", 0, half * MoeInter)
    [] part = "dense"   -> UnitIs(file, DenseUnit(base), l, "dense", 0, 0)

\* Every word a task will multiply by is the one it means, but for those of lost tensors.
WeightsReadable(file, tensors, lost) ==
  \A l \in Layers : \A part \in MatrixParts(l) :
    <<l, part>> \notin lost => PartReadable(file, tensors, l, part)

=============================================================================
