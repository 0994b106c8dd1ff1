---------------------------- MODULE WeightProofs ----------------------------
(***************************************************************************)
(* For every shape of the model: the addresses the kernel computes from a  *)
(* tensor's base are those of the rows and columns the packer put there.   *)
(***************************************************************************)
EXTENDS SessionProofs

\* The sizes, as the provers like them.
LEMMA Sizes ==
  /\ Hidden \in Nat \ {0} /\ MoeInter \in Nat \ {0} /\ DenseInter \in Nat \ {0}
  /\ NRouted \in Nat \ {0} /\ QRows \in Nat \ {0} /\ KvRows \in Nat \ {0}
  /\ SharedInter \in Nat \ {0} /\ SharedInter = 2 * MoeInter /\ SharedInter \div 2 = MoeInter
  /\ expert_stride \in Nat \ {0} /\ expert_stride = 3 * (MoeInter * Hidden)
<1>1. /\ Hidden \in Nat \ {0} /\ MoeInter \in Nat \ {0} /\ DenseInter \in Nat \ {0}
      /\ NRouted \in Nat \ {0} /\ QRows \in Nat \ {0} /\ KvRows \in Nat \ {0}
  BY LayoutAssumption
<1>2. SharedInter \in Nat \ {0} /\ SharedInter = 2 * MoeInter /\ SharedInter \div 2 = MoeInter
  BY <1>1 DEF SharedInter
<1>3. expert_stride \in Nat \ {0} /\ expert_stride = 3 * (MoeInter * Hidden)
  <2>1. MoeInter * Hidden \in Nat \ {0}
    BY <1>1
  <2>2. expert_stride = 3 * (MoeInter * Hidden)
    BY <1>1 DEF expert_stride
  <2> QED
    BY <2>1, <2>2
<1> QED
  BY <1>1, <1>2, <1>3

\* A matrix laid flat, row after row.
LEMMA FlatSized ==
  ASSUME NEW M, NEW m \in Nat \ {0}, NEW n \in Nat \ {0}
  PROVE  Sized(Flat(M, m, n), m * n) /\ m * n \in Nat \ {0}
<1> DEFINE f == Flat(M, m, n)
<1>1. m * n \in Nat \ {0}
  OBVIOUS
<1>2. f = [q \in 1 .. m * n |-> f[q]]
  BY DEF Flat
<1> HIDE DEF f
<1>3. Sized(f, m * n)
  BY <1>1, <1>2, SizedFunction
<1> QED
  BY <1>1, <1>3 DEF f

LEMMA FlatAt ==
  ASSUME NEW M, NEW m \in Nat \ {0}, NEW n \in Nat \ {0},
         NEW r \in 0 .. m - 1, NEW c \in 0 .. n - 1
  PROVE  r * n + c + 1 \in 1 .. m * n /\ Flat(M, m, n)[r * n + c + 1] = M[r][c]
<1> DEFINE q == r * n + (c + 1)
<1>1. c + 1 \in 1 .. n /\ m \in Nat
  OBVIOUS
<1>2. q \in 1 .. m * n /\ (q - 1) \div n = r /\ (q - 1) % n = c + 1 - 1
  BY <1>1, RowIndex
<1>3. q = r * n + c + 1 /\ c + 1 - 1 = c
  BY <1>1
<1> HIDE DEF q
<1>4. Flat(M, m, n)[q] = M[(q - 1) \div n][(q - 1) % n]
  BY <1>2 DEF Flat
<1> QED
  BY <1>2, <1>3, <1>4

\* Gate and up rows alternate, the down rows follow.
LEMMA MlpSized ==
  ASSUME NEW l, NEW m, NEW e, NEW inter \in Nat \ {0}
  PROVE  Sized(Mlp(l, m, e, inter), 3 * (inter * Hidden)) /\ 3 * (inter * Hidden) \in Nat \ {0}
<1> DEFINE G == Flat(interleave_gate_up(Matrix(l, <<m, "gate">>, e, inter, Hidden),
                          Matrix(l, <<m, "up">>, e, inter, Hidden), inter), 2 * inter, Hidden)
           D == Flat(Matrix(l, <<m, "down">>, e, Hidden, inter), Hidden, inter)
<1>1. Sized(G, (2 * inter) * Hidden) /\ Sized(D, Hidden * inter) /\ Hidden \in Nat \ {0}
  BY Sizes, FlatSized
<1>2. Mlp(l, m, e, inter) = G \o D
  BY DEF Mlp
<1> HIDE DEF G, D
<1>3. Sized(G \o D, (2 * inter) * Hidden + Hidden * inter)
  BY <1>1, SizedConcat
<1>4. /\ (2 * inter) * Hidden + Hidden * inter = 3 * (inter * Hidden)
      /\ 3 * (inter * Hidden) \in Nat \ {0}
  BY <1>1
<1> QED
  BY <1>2, <1>3, <1>4

\* Where in an MLP's words, counted from one, column k of a gate and an up row
\* n and column n of a down row k are.
GateWord(n, k) == 2 * n * Hidden + k + 1
UpWord(n, k) == (2 * n + 1) * Hidden + k + 1
DownWord(inter, n, k) == 2 * inter * Hidden + k * inter + n + 1
MlpLen(inter) == 3 * (inter * Hidden)

LEMMA MlpAt ==
  ASSUME NEW l, NEW m, NEW e, NEW inter \in Nat \ {0},
         NEW n \in 0 .. inter - 1, NEW k \in 0 .. Hidden - 1
  PROVE  /\ Mlp(l, m, e, inter)[GateWord(n, k)] = <<l, <<m, "gate">>, e, n, k>>
         /\ Mlp(l, m, e, inter)[UpWord(n, k)] = <<l, <<m, "up">>, e, n, k>>
         /\ Mlp(l, m, e, inter)[DownWord(inter, n, k)] = <<l, <<m, "down">>, e, k, n>>
         /\ GateWord(n, k) \in 1 .. MlpLen(inter)
         /\ UpWord(n, k) \in 1 .. MlpLen(inter)
         /\ DownWord(inter, n, k) \in 1 .. MlpLen(inter)
<1> DEFINE gate == Matrix(l, <<m, "gate">>, e, inter, Hidden)
           up   == Matrix(l, <<m, "up">>, e, inter, Hidden)
           down == Matrix(l, <<m, "down">>, e, Hidden, inter)
           I == interleave_gate_up(gate, up, inter)
           G == Flat(I, 2 * inter, Hidden)
           D == Flat(down, Hidden, inter)
           s == Mlp(l, m, e, inter)
<1>1. /\ Hidden \in Nat \ {0} /\ 2 * inter \in Nat \ {0}
      /\ 2 * n \in 0 .. 2 * inter - 1 /\ 2 * n + 1 \in 0 .. 2 * inter - 1
  BY Sizes
<1>2. /\ gate[n][k] = <<l, <<m, "gate">>, e, n, k>> /\ up[n][k] = <<l, <<m, "up">>, e, n, k>>
      /\ down[k][n] = <<l, <<m, "down">>, e, k, n>>
  BY DEF Matrix
<1>3. I[2 * n] = gate[n] /\ I[2 * n + 1] = up[n]
  <2>1. (2 * n) % 2 = 0 /\ (2 * n) \div 2 = n /\ (2 * n + 1) % 2 = 1 /\ (2 * n + 1) \div 2 = n
    OBVIOUS
  <2> HIDE DEF gate, up
  <2>2. I[2 * n] = IF (2 * n) % 2 = 0 THEN gate[(2 * n) \div 2] ELSE up[(2 * n) \div 2]
    BY <1>1 DEF interleave_gate_up
  <2>3. I[2 * n + 1] = IF (2 * n + 1) % 2 = 0 THEN gate[(2 * n + 1) \div 2] ELSE up[(2 * n + 1) \div 2]
    BY <1>1 DEF interleave_gate_up
  <2> HIDE DEF I
  <2> QED
    BY <2>1, <2>2, <2>3
<1> HIDE DEF gate, up, down, I
<1>4. /\ 2 * n * Hidden + k + 1 \in 1 .. (2 * inter) * Hidden
      /\ G[2 * n * Hidden + k + 1] = <<l, <<m, "gate">>, e, n, k>>
  <2> DEFINE r == 2 * n
             w == 2 * inter
  <2>1. r \in 0 .. w - 1 /\ w \in Nat \ {0}
    BY <1>1
  <2> HIDE DEF r, w
  <2>2. r * Hidden + k + 1 \in 1 .. w * Hidden /\ Flat(I, w, Hidden)[r * Hidden + k + 1] = I[r][k]
    BY <1>1, <2>1, FlatAt
  <2> USE DEF r, w
  <2> QED
    BY <1>2, <1>3, <2>2, Zenon
<1>5. /\ (2 * n + 1) * Hidden + k + 1 \in 1 .. (2 * inter) * Hidden
      /\ G[(2 * n + 1) * Hidden + k + 1] = <<l, <<m, "up">>, e, n, k>>
  <2> DEFINE r == 2 * n + 1
             w == 2 * inter
  <2>1. r \in 0 .. w - 1 /\ w \in Nat \ {0}
    BY <1>1
  <2> HIDE DEF r, w
  <2>2. r * Hidden + k + 1 \in 1 .. w * Hidden /\ Flat(I, w, Hidden)[r * Hidden + k + 1] = I[r][k]
    BY <1>1, <2>1, FlatAt
  <2> USE DEF r, w
  <2> QED
    BY <1>2, <1>3, <2>2, Zenon
<1>6. k * inter + n + 1 \in 1 .. Hidden * inter /\ D[k * inter + n + 1] = <<l, <<m, "down">>, e, k, n>>
  <2> DEFINE h == Hidden
             M == down
  <2>1. h \in Nat \ {0} /\ k \in 0 .. h - 1
    BY <1>1
  <2> HIDE DEF h, M
  <2>2. k * inter + n + 1 \in 1 .. h * inter /\ Flat(M, h, inter)[k * inter + n + 1] = M[k][n]
    BY <2>1, FlatAt
  <2> USE DEF h, M
  <2> QED
    BY <1>2, <2>2, Zenon
<1>7. Sized(G, (2 * inter) * Hidden) /\ Sized(D, Hidden * inter)
  BY <1>1, FlatSized
<1>8. s = G \o D
  BY DEF Mlp, gate, up, down, I
<1> HIDE DEF G, D, s
<1>9. /\ \A i \in 1 .. (2 * inter) * Hidden : s[i] = G[i]
      /\ \A i \in 1 .. Hidden * inter : s[(2 * inter) * Hidden + i] = D[i]
  <2> DEFINE a == (2 * inter) * Hidden
             b == Hidden * inter
  <2>1. Sized(G, a) /\ Sized(D, b)
    BY <1>7
  <2> HIDE DEF a, b
  <2>2. PICK S : /\ G \in Seq(S) /\ D \in Seq(S)
                 /\ Len(G) = a /\ Len(D) = b /\ a \in Nat /\ b \in Nat
    BY <2>1, SizedInSeq
  <2>3. ASSUME NEW i \in 1 .. a PROVE (G \o D)[i] = G[i]
    BY <2>2, <2>3
  <2>4. ASSUME NEW i \in 1 .. b PROVE (G \o D)[a + i] = D[i]
    BY <2>2, <2>4
  <2> QED
    BY <1>8, <2>3, <2>4, Zenon DEF a, b
<1>10. /\ (2 * inter) * Hidden + (k * inter + n + 1) = 2 * inter * Hidden + k * inter + n + 1
       /\ (2 * inter) * Hidden + Hidden * inter = 3 * (inter * Hidden)
       /\ (2 * inter) * Hidden \in Nat /\ Hidden * inter \in Nat /\ inter * Hidden \in Nat
       /\ k * inter \in Nat
  BY <1>1
<1>11. s[2 * inter * Hidden + k * inter + n + 1] = <<l, <<m, "down">>, e, k, n>>
  BY <1>6, <1>9, <1>10
<1>12. /\ 2 * n * Hidden + k + 1 \in 1 .. 3 * (inter * Hidden)
       /\ (2 * n + 1) * Hidden + k + 1 \in 1 .. 3 * (inter * Hidden)
  BY <1>1, <1>4, <1>5, <1>10
<1>13. 2 * inter * Hidden + k * inter + n + 1 \in 1 .. 3 * (inter * Hidden)
  BY <1>1, <1>6, <1>10
<1> QED
  BY <1>4, <1>5, <1>9, <1>11, <1>12, <1>13 DEF s, GateWord, UpWord, DownWord, MlpLen

\* The first n words of s lie from base on.
WordsAt(f, base, s, n) ==
  \A q \in 1 .. n : base + q - 1 \in DOMAIN f /\ f[base + q - 1] = s[q]

\* A unit whose pointers are those of rows first .. of an MLP at base.
LEMMA UnitAt ==
  ASSUME NEW f, NEW l, NEW m, NEW e, NEW inter \in Nat \ {0}, NEW base \in Nat,
         WordsAt(f, base, Mlp(l, m, e, inter), 3 * (inter * Hidden)),
         NEW u, NEW first \in Nat, u.inter \in Nat, first + u.inter <= inter,
         u.gate_up = base + 2 * first * Hidden,
         u.down = base + 2 * inter * Hidden + first, u.down_ld = inter
  PROVE  UnitIs(f, u, l, m, e, first)
<1> SUFFICES ASSUME NEW n \in 0 .. u.inter - 1, NEW k \in 0 .. Hidden - 1
             PROVE  /\ {GateAt(u, n, k), UpAt(u, n, k), DownAt(u, k, n)} \subseteq DOMAIN f
                    /\ f[GateAt(u, n, k)] = <<l, <<m, "gate">>, e, first + n, k>>
                    /\ f[UpAt(u, n, k)]   = <<l, <<m, "up">>, e, first + n, k>>
                    /\ f[DownAt(u, k, n)] = <<l, <<m, "down">>, e, k, first + n>>
  BY DEF UnitIs
<1> DEFINE r == first + n
           s == Mlp(l, m, e, inter)
           g == GateWord(r, k)
           p == UpWord(r, k)
           d == DownWord(inter, r, k)
           size == MlpLen(inter)
<1>1. r \in 0 .. inter - 1 /\ r \in Nat /\ k \in Nat /\ n \in Nat /\ Hidden \in Nat \ {0}
  BY Sizes
<1>2. /\ GateAt(u, n, k) = base + g - 1 /\ UpAt(u, n, k) = base + p - 1
      /\ DownAt(u, k, n) = base + d - 1
  <2>1. GateAt(u, n, k) = base + g - 1
    BY <1>1 DEF GateAt, GateWord
  <2>2. UpAt(u, n, k) = base + p - 1
    BY <1>1 DEF UpAt, UpWord
  <2>3. DownAt(u, k, n) = base + d - 1
    BY <1>1 DEF DownAt, DownWord
  <2> QED
    BY <2>1, <2>2, <2>3
<1> HIDE DEF r
<1>3. /\ s[g] = <<l, <<m, "gate">>, e, r, k>> /\ s[p] = <<l, <<m, "up">>, e, r, k>>
      /\ s[d] = <<l, <<m, "down">>, e, k, r>>
      /\ g \in 1 .. size /\ p \in 1 .. size /\ d \in 1 .. size
  BY <1>1, MlpAt
<1> HIDE DEF s, g, p, d, size
<1>4. WordsAt(f, base, s, size)
  BY DEF s, size, MlpLen
<1>5. /\ base + g - 1 \in DOMAIN f /\ f[base + g - 1] = s[g]
      /\ base + p - 1 \in DOMAIN f /\ f[base + p - 1] = s[p]
      /\ base + d - 1 \in DOMAIN f /\ f[base + d - 1] = s[d]
  BY <1>3, <1>4 DEF WordsAt
<1> QED
  BY <1>2, <1>3, <1>5 DEF r

\* resolve_unit's routed expert.
LEMMA RoutedAt ==
  ASSUME NEW f, NEW l, NEW base \in Nat, NEW id \in 0 .. NRouted - 1,
         WordsAt(f, base, Experts(l), NRouted * expert_stride)
  PROVE  UnitIs(f, RoutedUnit(base, id), l, "expert", id, 0)
<1> DEFINE start0 == base + id * expert_stride
           s == Mlp(l, "expert", id, MoeInter)
           u == RoutedUnit(base, id)
<1>1. /\ expert_stride \in Nat \ {0} /\ MoeInter \in Nat \ {0} /\ Hidden \in Nat \ {0}
      /\ NRouted \in Nat /\ id \in Nat /\ id * expert_stride \in Nat /\ start0 \in Nat
      /\ expert_stride = 3 * (MoeInter * Hidden)
  BY Sizes
<1>2. ASSUME NEW q \in 1 .. expert_stride
      PROVE  start0 + q - 1 \in DOMAIN f /\ f[start0 + q - 1] = s[q]
  <2> DEFINE k == id * expert_stride + q
  <2>1. /\ k \in 1 .. NRouted * expert_stride /\ (k - 1) \div expert_stride = id
        /\ (k - 1) % expert_stride = q - 1
    BY <1>1, <1>2, RowIndex
  <2>2. start0 + q - 1 = base + k - 1 /\ q - 1 + 1 = q
    BY <1>1, <1>2
  <2> HIDE DEF k
  <2>3. base + k - 1 \in DOMAIN f /\ f[base + k - 1] = Experts(l)[k]
    BY <2>1 DEF WordsAt
  <2>4. Experts(l)[k] = Mlp(l, "expert", (k - 1) \div expert_stride, MoeInter)[((k - 1) % expert_stride) + 1]
    BY <2>1 DEF Experts
  <2> QED
    BY <2>1, <2>2, <2>3, <2>4
<1>3. WordsAt(f, start0, s, 3 * (MoeInter * Hidden))
  BY <1>1, <1>2 DEF WordsAt
<1>4. /\ u.inter = MoeInter /\ u.down_ld = MoeInter
      /\ u.gate_up = start0 + 2 * 0 * Hidden /\ u.down = start0 + 2 * MoeInter * Hidden + 0
  BY <1>1 DEF RoutedUnit
<1>5. u.inter \in Nat /\ 0 + u.inter <= MoeInter /\ 0 \in Nat
  BY <1>1, <1>4
<1> HIDE DEF start0, u
<1>6. UnitIs(f, u, l, "expert", id, 0)
  BY <1>1, <1>3, <1>4, <1>5, UnitAt
<1> QED
  BY <1>6 DEF u

\* ... one half of the shared experts, whose down rows are as long as both ...
LEMMA SharedAt ==
  ASSUME NEW f, NEW l, NEW base \in Nat, NEW half \in 0 .. 1,
         WordsAt(f, base, Mlp(l, "shared", 0, SharedInter), 3 * (SharedInter * Hidden))
  PROVE  UnitIs(f, SharedUnit(base, half), l, "shared", 0, half * MoeInter)
<1> DEFINE u == SharedUnit(base, half)
           first == half * MoeInter
<1>1. /\ SharedInter \in Nat \ {0} /\ MoeInter \in Nat \ {0} /\ Hidden \in Nat \ {0}
      /\ SharedInter = 2 * MoeInter /\ SharedInter \div 2 = MoeInter
  BY Sizes
<1>2. first \in Nat /\ first + MoeInter <= SharedInter
  BY <1>1
<1>3. /\ u.inter = MoeInter /\ u.down_ld = SharedInter
      /\ u.gate_up = base + 2 * first * Hidden
      /\ u.down = base + 2 * SharedInter * Hidden + first
  <2>1. u.inter = SharedInter \div 2 /\ u.down_ld = SharedInter
        /\ u.gate_up = base + half * 2 * (SharedInter \div 2) * Hidden
        /\ u.down = base + 2 * SharedInter * Hidden + half * (SharedInter \div 2)
    BY DEF SharedUnit
  <2>2. half * 2 * MoeInter * Hidden = 2 * first * Hidden
    BY <1>1
  <2> QED
    BY <1>1, <2>1, <2>2
<1> HIDE DEF u, first
<1>4. UnitIs(f, u, l, "shared", 0, first)
  BY <1>1, <1>2, <1>3, UnitAt
<1> QED
  BY <1>4 DEF u, first

\* ... and the dense MLP.
LEMMA DenseAt ==
  ASSUME NEW f, NEW l, NEW base \in Nat,
         WordsAt(f, base, Mlp(l, "dense", 0, DenseInter), 3 * (DenseInter * Hidden))
  PROVE  UnitIs(f, DenseUnit(base), l, "dense", 0, 0)
<1> DEFINE u == DenseUnit(base)
<1>1. DenseInter \in Nat \ {0} /\ Hidden \in Nat \ {0}
  BY Sizes
<1>2. /\ u.inter = DenseInter /\ u.down_ld = DenseInter
      /\ u.gate_up = base + 2 * 0 * Hidden /\ u.down = base + 2 * DenseInter * Hidden + 0
  BY <1>1 DEF DenseUnit
<1>3. u.inter \in Nat /\ 0 + u.inter <= DenseInter /\ 0 \in Nat
  BY <1>1, <1>2
<1> HIDE DEF u
<1>4. UnitIs(f, u, l, "dense", 0, 0)
  BY <1>1, <1>2, <1>3, UnitAt
<1> QED
  BY <1>4 DEF u

-----------------------------------------------------------------------------
(* Every tensor the kernel asks for is among those packed.                 *)

\* f flattens the first n of the sequences step by step.
Flattens(f, seqs, n) == f = [i \in 1 .. n |-> IF i = 1 THEN seqs[i] ELSE f[i - 1] \o seqs[i]]

LEMMA FlattenExists ==
  ASSUME NEW n \in Nat, NEW seqs
  PROVE  \E f : Flattens(f, seqs, n)
<1> DEFINE T == { m \in 0 .. n : \E f : Flattens(f, seqs, m) }
<1>1. 0 \in T
  <2> DEFINE f == [i \in 1 .. 0 |-> seqs[i]]
  <2>1. f = [i \in 1 .. 0 |-> IF i = 1 THEN seqs[i] ELSE f[i - 1] \o seqs[i]]
    OBVIOUS
  <2> HIDE DEF f
  <2>2. Flattens(f, seqs, 0)
    BY <2>1 DEF Flattens
  <2> QED
    BY <2>2
<1>2. PICK g \in T : \A m \in T : m <= g
  <2>1. T \subseteq 0 .. n /\ T # {}
    BY <1>1
  <2> HIDE DEF T
  <2> QED
    BY <2>1, Greatest
<1>3. PICK f : Flattens(f, seqs, g)
  OBVIOUS
<1>4. g = n
  <2> SUFFICES ASSUME g # n PROVE FALSE
    OBVIOUS
  <2>1. g \in Nat /\ g + 1 \in 0 .. n
    OBVIOUS
  <2> DEFINE h == [i \in 1 .. g + 1 |->
                     IF i <= g THEN f[i] ELSE IF i = 1 THEN seqs[i] ELSE f[g] \o seqs[i]]
  <2>2. \A i \in 1 .. g : h[i] = f[i]
    BY <2>1
  <2>3. \A i \in 1 .. g : f[i] = IF i = 1 THEN seqs[i] ELSE f[i - 1] \o seqs[i]
    BY <1>3 DEF Flattens
  <2>4. ASSUME NEW i \in 1 .. g + 1
        PROVE  h[i] = IF i = 1 THEN seqs[i] ELSE h[i - 1] \o seqs[i]
    <3>1. CASE i <= g
      <4>1. i \in 1 .. g /\ (i # 1 => i - 1 \in 1 .. g)
        BY <2>1, <3>1
      <4> HIDE DEF h
      <4> QED
        BY <2>2, <2>3, <4>1
    <3>2. CASE i = g + 1
      <4>1. h[i] = IF i = 1 THEN seqs[i] ELSE f[g] \o seqs[i]
        BY <2>1, <3>2
      <4>2. i # 1 => i - 1 = g /\ g \in 1 .. g
        BY <2>1, <3>2
      <4> HIDE DEF h
      <4> QED
        BY <2>2, <4>1, <4>2
    <3> QED
      BY <2>1, <3>1, <3>2
  <2>5. h = [i \in 1 .. g + 1 |-> h[i]]
    OBVIOUS
  <2> HIDE DEF h
  <2>6. Flattens(h, seqs, g + 1)
    BY <2>4, <2>5 DEF Flattens
  <2>7. g + 1 \in T
    BY <2>1, <2>6
  <2> QED
    BY <1>2, <2>1, <2>7
<1> QED
  BY <1>3, <1>4

\* Two sequences put together keep their elements.
LEMMA ConcatLeft ==
  ASSUME NEW T, NEW s \in Seq(T), NEW t \in Seq(T), NEW k \in DOMAIN s
  PROVE  s \o t \in Seq(T) /\ k \in DOMAIN (s \o t) /\ (s \o t)[k] = s[k]
OBVIOUS

LEMMA ConcatRight ==
  ASSUME NEW T, NEW s \in Seq(T), NEW t \in Seq(T), NEW m, NEW k \in 1 .. Len(t), m = Len(s)
  PROVE  s \o t \in Seq(T) /\ m + k \in DOMAIN (s \o t) /\ (s \o t)[m + k] = t[k]
OBVIOUS

\* Every element of s is one of r.
Keeps(r, s) == \A q \in DOMAIN s : \E p \in DOMAIN r : r[p] = s[q]

LEMMA ConcatKeeps ==
  ASSUME NEW T, NEW s \in Seq(T), NEW t \in Seq(T), NEW r, r = s \o t
  PROVE  r \in Seq(T) /\ Keeps(r, s) /\ Keeps(r, t)
<1>1. r \in Seq(T)
  OBVIOUS
<1>2. ASSUME NEW k \in DOMAIN s PROVE k \in DOMAIN r /\ r[k] = s[k]
  OBVIOUS
<1>3. ASSUME NEW k \in DOMAIN t PROVE Len(s) + k \in DOMAIN r /\ r[Len(s) + k] = t[k]
  OBVIOUS
<1> QED
  BY <1>1, <1>2, <1>3 DEF Keeps

\* A list of lists laid one after the other has the elements of each.
LEMMA FlattenKeeps ==
  ASSUME NEW n \in Nat \ {0}, NEW S, NEW seqs, DOMAIN seqs = 1 .. n, Len(seqs) = n,
         \A i \in 1 .. n : seqs[i] \in Seq(S),
         NEW m \in 1 .. n, NEW w \in DOMAIN seqs[m]
  PROVE  /\ FlattenSeq(seqs) \in Seq(S)
         /\ \E p \in DOMAIN FlattenSeq(seqs) : FlattenSeq(seqs)[p] = seqs[m][w]
<1> DEFINE f == CHOOSE h : Flattens(h, seqs, n)
           Has(i) == /\ f[i] \in Seq(S)
                     /\ \A j \in 1 .. i : \A q \in DOMAIN seqs[j] :
                          \E p \in DOMAIN f[i] : f[i][p] = seqs[j][q]
           D == { i \in 1 .. n : ~Has(i) }
<1>1. FlattenSeq(seqs) = f[n]
  BY DEF FlattenSeq, Flattens
<1>2. Flattens(f, seqs, n)
  BY FlattenExists
<1> HIDE DEF f
<1>3. \A i \in 1 .. n : f[i] = IF i = 1 THEN seqs[i] ELSE f[i - 1] \o seqs[i]
  BY <1>2 DEF Flattens
<1>4. D = {}
  <2> SUFFICES ASSUME D # {} PROVE FALSE
    OBVIOUS
  <2>1. PICK i \in D : \A j \in D : i <= j
    <3>1. D \subseteq Nat
      OBVIOUS
    <3> HIDE DEF D
    <3> QED
      BY <3>1, Least
  <2>2. CASE i = 1
    <3>1. f[1] = seqs[1] /\ 1 \in 1 .. n
      BY <1>3
    <3>2. Has(1)
      BY <3>1
    <3> QED
      BY <2>2, <3>2
  <2>3. CASE i # 1
    <3>1. i - 1 \in 1 .. n /\ i - 1 \notin D /\ i \in 1 .. n
      <4>1. i \in 1 .. n
        OBVIOUS
      <4>2. \A j \in D : i <= j
        BY <2>1
      <4> HIDE DEF D
      <4>3. i - 1 \in 1 .. n /\ ~(i <= i - 1)
        BY <2>3, <4>1
      <4> QED
        BY <4>1, <4>2, <4>3
    <3>2. f[i] = f[i - 1] \o seqs[i]
      BY <1>3, <2>3, <3>1
    <3>3. f[i - 1] \in Seq(S) /\ seqs[i] \in Seq(S) /\ Has(i - 1)
      BY <3>1
    <3> DEFINE a == f[i - 1]
               b == seqs[i]
               c == f[i]
    <3>4. a \in Seq(S) /\ b \in Seq(S) /\ c = a \o b
      BY <3>2, <3>3
    <3> HIDE DEF a, b, c, Has
    <3>5. c \in Seq(S) /\ Keeps(c, a) /\ Keeps(c, b)
      BY <3>4, ConcatKeeps
    <3>6. ASSUME NEW j \in 1 .. i, NEW q \in DOMAIN seqs[j]
          PROVE  \E p \in DOMAIN c : c[p] = seqs[j][q]
      <4>1. CASE j = i
        BY <3>5, <3>6, <4>1 DEF b, Keeps
      <4>2. CASE j # i
        <5>1. j \in 1 .. i - 1
          BY <3>1, <4>2
        <5>2. PICK p \in DOMAIN a : a[p] = seqs[j][q]
          BY <3>3, <5>1 DEF Has, a
        <5> QED
          BY <3>5, <5>2 DEF Keeps
      <4> QED
        BY <4>1, <4>2
    <3>7. Has(i)
      BY <3>5, <3>6 DEF Has, c
    <3> QED
      BY <3>7
  <2> QED
    BY <2>2, <2>3
<1>5. Has(n)
  <2>1. n \in 1 .. n
    OBVIOUS
  <2> HIDE DEF Has
  <2> QED
    BY <1>4, <2>1
<1> QED
  BY <1>1, <1>5

Parts == {"embed", "final_norm", "lm_head", "norm_in", "norm_post", "qkv", "kv_a_norm", "kv_b",
          "o_proj", "router", "experts", "shared", "dense"}

LEMMA LayerNamesHas ==
  ASSUME NEW l \in Int
  PROVE  /\ LayerNames(l) \in Seq(Int \X Parts)
         /\ \E q \in DOMAIN LayerNames(l) : LayerNames(l)[q] = <<l, "qkv">>
         /\ IsMoe(l) => /\ \E q \in DOMAIN LayerNames(l) : LayerNames(l)[q] = <<l, "experts">>
                        /\ \E q \in DOMAIN LayerNames(l) : LayerNames(l)[q] = <<l, "shared">>
         /\ ~IsMoe(l) => \E q \in DOMAIN LayerNames(l) : LayerNames(l)[q] = <<l, "dense">>
<1> DEFINE T == Int \X Parts
           a == << <<l, "norm_in">>, <<l, "norm_post">>, <<l, "qkv">>, <<l, "kv_a_norm">>,
                   <<l, "kv_b">>, <<l, "o_proj">> >>
           moe == << <<l, "router">>, <<l, "experts">>, <<l, "shared">> >>
           dense == << <<l, "dense">> >>
<1>1. /\ <<l, "norm_in">> \in T /\ <<l, "norm_post">> \in T /\ <<l, "qkv">> \in T
      /\ <<l, "kv_a_norm">> \in T /\ <<l, "kv_b">> \in T /\ <<l, "o_proj">> \in T
      /\ <<l, "router">> \in T /\ <<l, "experts">> \in T /\ <<l, "shared">> \in T
      /\ <<l, "dense">> \in T
  BY DEF Parts
<1> HIDE DEF T
<1>2. a \in Seq(T) /\ Len(a) = 6 /\ a[3] = <<l, "qkv">>
  BY <1>1
<1>3. moe \in Seq(T) /\ Len(moe) = 3 /\ moe[2] = <<l, "experts">> /\ moe[3] = <<l, "shared">>
  BY <1>1
<1>4. dense \in Seq(T) /\ Len(dense) = 1 /\ dense[1] = <<l, "dense">>
  BY <1>1
<1>5. LayerNames(l) = a \o IF IsMoe(l) THEN moe ELSE dense
  BY DEF LayerNames
<1> HIDE DEF a, moe, dense
<1>6. CASE IsMoe(l)
  <2> DEFINE s == a \o moe
  <2>0. 3 \in DOMAIN a /\ 2 \in DOMAIN moe /\ 3 \in DOMAIN moe /\ 8 = Len(a) + 2 /\ 9 = Len(a) + 3
    BY <1>2, <1>3
  <2>1. /\ s \in Seq(T) /\ 3 \in DOMAIN s /\ s[3] = a[3]
        /\ 8 \in DOMAIN s /\ s[8] = moe[2] /\ 9 \in DOMAIN s /\ s[9] = moe[3]
    <3>1. s \in Seq(T) /\ 3 \in DOMAIN s /\ s[3] = a[3]
      BY <1>2, <1>3, <2>0, ConcatLeft
    <3>4. ASSUME NEW k \in 1 .. 3 PROVE 6 + k \in DOMAIN s /\ s[6 + k] = moe[k]
      <4> DEFINE n == 6
      <4>1. /\ a \in Seq(T) /\ moe \in Seq(T) /\ Len(a) = n /\ n \in Nat
            /\ k \in 1 .. Len(moe)
        BY <1>2, <1>3, <3>4
      <4> HIDE DEF n
      <4>2. n + k \in DOMAIN (a \o moe) /\ (a \o moe)[n + k] = moe[k]
        BY <4>1, ConcatRight
      <4> QED
        BY <4>2 DEF n
    <3> HIDE DEF s
    <3>2. 8 \in DOMAIN s /\ s[8] = moe[2]
      BY <3>4
    <3>3. 9 \in DOMAIN s /\ s[9] = moe[3]
      BY <3>4
    <3> QED
      BY <3>1, <3>2, <3>3
  <2>2. LayerNames(l) = s
    BY <1>5, <1>6
  <2> HIDE DEF s
  <2> QED
    BY <1>2, <1>3, <1>6, <2>1, <2>2 DEF T
<1>7. CASE ~IsMoe(l)
  <2> DEFINE s == a \o dense
  <2>0. 3 \in DOMAIN a /\ 1 \in DOMAIN dense /\ 7 = Len(a) + 1
    BY <1>2, <1>4
  <2>1. s \in Seq(T) /\ 3 \in DOMAIN s /\ s[3] = a[3] /\ 7 \in DOMAIN s /\ s[7] = dense[1]
    <3>1. s \in Seq(T) /\ 3 \in DOMAIN s /\ s[3] = a[3]
      BY <1>2, <1>4, <2>0, ConcatLeft
    <3>4. ASSUME NEW k \in 1 .. 1 PROVE 6 + k \in DOMAIN s /\ s[6 + k] = dense[k]
      <4> DEFINE n == 6
      <4>1. /\ a \in Seq(T) /\ dense \in Seq(T) /\ Len(a) = n /\ n \in Nat
            /\ k \in 1 .. Len(dense)
        BY <1>2, <1>4, <3>4
      <4> HIDE DEF n
      <4>2. n + k \in DOMAIN (a \o dense) /\ (a \o dense)[n + k] = dense[k]
        BY <4>1, ConcatRight
      <4> QED
        BY <4>2 DEF n
    <3> HIDE DEF s
    <3>2. 7 \in DOMAIN s /\ s[7] = dense[1]
      BY <3>4
    <3> QED
      BY <3>1, <3>2
  <2>2. LayerNames(l) = s
    BY <1>5, <1>7
  <2> HIDE DEF s
  <2> QED
    BY <1>2, <1>4, <1>7, <2>1, <2>2 DEF T
<1> QED
  BY <1>6, <1>7

LEMMA PackedHas ==
  ASSUME NEW l \in Layers, NEW q \in DOMAIN LayerNames(l)
  PROVE  LayerNames(l)[q] \in ToSet(PackedNames)
<1> DEFINE seqs == [i \in 1 .. NLayers |-> LayerNames(i - 1)]
           head == << <<-1, "embed">>, <<-1, "final_norm">>, <<-1, "lm_head">> >>
           T == Int \X Parts
           flat == FlattenSeq(seqs)
<1>1. NLayers \in Nat \ {0} /\ l + 1 \in 1 .. NLayers /\ l \in Int /\ (l + 1) - 1 = l
  BY Shape
<1>2. DOMAIN seqs = 1 .. NLayers /\ Len(seqs) = NLayers
  BY <1>1
<1>3. \A i \in 1 .. NLayers : seqs[i] \in Seq(T)
  <2>1. \A i \in 1 .. NLayers : i - 1 \in Int
    BY <1>1
  <2> QED
    BY <2>1, LayerNamesHas
<1>4. seqs[l + 1] = LayerNames(l)
  BY <1>1
<1>5. head \in Seq(T) /\ Len(head) = 3
  <2>1. <<-1, "embed">> \in T /\ <<-1, "final_norm">> \in T /\ <<-1, "lm_head">> \in T
    BY DEF Parts
  <2> HIDE DEF T
  <2> QED
    BY <2>1
<1>6. PackedNames = head \o flat
  BY DEF PackedNames
<1> HIDE DEF seqs, T, head
<1>7. flat \in Seq(T) /\ \E p \in DOMAIN flat : flat[p] = seqs[l + 1][q]
  <2> DEFINE m == l + 1
  <2>1. m \in 1 .. NLayers /\ q \in DOMAIN seqs[m]
    BY <1>1, <1>4
  <2> HIDE DEF m
  <2>2. flat \in Seq(T) /\ \E p \in DOMAIN flat : flat[p] = seqs[m][q]
    BY <1>1, <1>2, <1>3, <2>1, FlattenKeeps
  <2> QED
    BY <2>2 DEF m
<1>8. PICK p \in DOMAIN flat : flat[p] = LayerNames(l)[q]
  BY <1>4, <1>7
<1> HIDE DEF flat
<1>9. 3 + p \in DOMAIN (head \o flat) /\ (head \o flat)[3 + p] = flat[p]
  <2>1. p \in 1 .. Len(flat)
    BY <1>7, <1>8
  <2> QED
    <3> DEFINE n == 3
    <3>1. Len(head) = n /\ n \in Nat
      BY <1>5
    <3> HIDE DEF n
    <3>2. n + p \in DOMAIN (head \o flat) /\ (head \o flat)[n + p] = flat[p]
      BY <1>5, <1>7, <2>1, <3>1, ConcatRight
    <3> QED
      BY <3>2 DEF n
<1> QED
  BY <1>6, <1>8, <1>9 DEF ToSet

-----------------------------------------------------------------------------
(* From the bytes of an accepted blob to the words a task multiplies by.   *)

LEMMA ContentSized ==
  ASSUME NEW x
  PROVE  \E k \in Nat \ {0} : Sized(Content(x), k)
<1> DEFINE l == x[1]
<1>1. CASE x[2] = "qkv"
  <2> DEFINE a == Flat(Matrix(l, <<"attn", "q_proj">>, 0, QRows, Hidden), QRows, Hidden)
             b == Flat(Matrix(l, <<"attn", "kv_a">>, 0, KvRows, Hidden), KvRows, Hidden)
             m == QRows * Hidden
             n == KvRows * Hidden
  <2>1. Sized(a, m) /\ Sized(b, n) /\ m \in Nat \ {0} /\ n \in Nat \ {0}
    BY Sizes, FlatSized
  <2>2. Content(x) = a \o b
    BY <1>1 DEF Content
  <2> HIDE DEF a, b, m, n
  <2>3. Sized(a \o b, m + n)
    BY <2>1, SizedConcat
  <2>4. m + n \in Nat \ {0}
    BY <2>1
  <2> QED
    BY <2>2, <2>3, <2>4
<1>2. CASE x[2] = "experts"
  <2> DEFINE n == NRouted * expert_stride
             e == Experts(l)
  <2>1. n \in Nat \ {0}
    BY Sizes
  <2>2. e = [k \in 1 .. n |-> e[k]]
    BY DEF Experts
  <2>3. Content(x) = e
    BY <1>2 DEF Content
  <2> HIDE DEF n, e
  <2>4. Sized(e, n)
    BY <2>1, <2>2, SizedFunction
  <2> QED
    BY <2>1, <2>3, <2>4
<1>3. CASE x[2] = "shared"
  <2>1. Content(x) = Mlp(l, "shared", 0, SharedInter)
    BY <1>3 DEF Content
  <2> QED
    BY <2>1, Sizes, MlpSized
<1>4. CASE x[2] = "dense"
  <2>1. Content(x) = Mlp(l, "dense", 0, DenseInter)
    BY <1>4 DEF Content
  <2> QED
    BY <2>1, Sizes, MlpSized
<1>5. CASE x[2] \notin {"qkv", "experts", "shared", "dense"}
  <2>1. Content(x) = Flat(Matrix(l, <<"one", x[2]>>, 0, 1, Hidden), 1, Hidden)
    BY <1>5 DEF Content, Single
  <2>2. 1 \in Nat \ {0}
    OBVIOUS
  <2> QED
    BY <2>1, <2>2, Sizes, FlatSized
<1> QED
  BY <1>1, <1>2, <1>3, <1>4, <1>5

LEMMA NothingEmpty == NoEmptyTensor
<1> SUFFICES ASSUME NEW i \in DOMAIN Names PROVE Len(Tensor[Names[i]]) # 0
  BY DEF NoEmptyTensor
<1>1. Names[i] \in ToSet(PackedNames)
  BY PackAssumption DEF ToSet
<1>2. Tensor[Names[i]] = Content(Names[i])
  BY <1>1, PackAssumption DEF PackedTensors
<1>3. PICK k \in Nat \ {0} : Sized(Content(Names[i]), k)
  BY ContentSized
<1> QED
  BY <1>2, <1>3, SizedDomain

\* In a blob the launcher takes, a tensor's words lie from half its offset on,
\* unless it is the lost one.
LEMMA TensorAt ==
  ASSUME BlobReadsBack, BlobTaken, NEW word,
         NEW l, NEW part, <<l, part>> \in ToSet(PackedNames), <<l, part>> \notin manifest.lost,
         NEW k, Sized(Content(<<l, part>>), k)
  PROVE  /\ TensorPtr(load_manifest(manifest, word), l, part) \in Nat
         /\ WordsAt(file, TensorPtr(load_manifest(manifest, word), l, part), Content(<<l, part>>), k)
<1> DEFINE x == <<l, part>>
           base == TensorPtr(load_manifest(manifest, word), l, part)
<1>1. /\ manifest # NoManifest /\ Accepted
      /\ \A n \in ToSet(PackedNames) : n \in DOMAIN manifest.tensors
  BY DEF BlobTaken, ManifestComplete
<1>2. \A j \in DOMAIN Names : Names[j] \in DOMAIN manifest.tensors
  BY <1>1, PackAssumption DEF ToSet
<1>3. PICK i \in DOMAIN Names : Names[i] = x
  BY PackAssumption DEF ToSet
<1>4. /\ manifest.tensors[Names[i]].offset \in Nat
      /\ \A q \in 1 .. Len(Tensor[Names[i]]) :
           LET a == manifest.tensors[Names[i]].offset \div 2 + q - 1 IN
           a \in DOMAIN file /\ file[a] = Tensor[Names[i]][q]
  BY <1>1, <1>2, <1>3 DEF BlobReadsBack
<1>5. base = manifest.tensors[x].offset \div 2
  <2>1. x \in DOMAIN manifest.tensors /\ manifest.tensors[x].offset # NoNumber
    BY <1>2, <1>3, <1>4 DEF NoNumber
  <2>2. base = load_manifest(manifest, word)[x].offset \div 2
    BY DEF TensorPtr
  <2> HIDE DEF x, base
  <2>3. load_manifest(manifest, word)[x] = manifest.tensors[x]
    BY <2>1 DEF load_manifest
  <2> QED
    BY <2>2, <2>3
<1>6. base \in Nat
  <2>1. \A o \in Nat : o \div 2 \in Nat
    OBVIOUS
  <2> QED
    BY <1>3, <1>4, <1>5, <2>1
<1>7. Tensor[x] = Content(x)
  BY PackAssumption DEF PackedTensors
<1>8. Len(Tensor[x]) = k
  BY <1>7, SizedDomain
<1>9. ASSUME NEW q \in 1 .. k
      PROVE  base + q - 1 \in DOMAIN file /\ file[base + q - 1] = Tensor[x][q]
  BY <1>3, <1>4, <1>5, <1>8, <1>9
<1> QED
  BY <1>6, <1>7, <1>9 DEF WordsAt

\* The kv_a rows follow the q rows.
LEMMA QkvAt ==
  ASSUME NEW f, NEW l, NEW base \in Nat,
         WordsAt(f, base, Content(<<l, "qkv">>), QRows * Hidden + KvRows * Hidden),
         NEW k \in 0 .. Hidden - 1
  PROVE  /\ \A r \in 0 .. QRows - 1 : f[base + r * Hidden + k] = <<l, <<"attn", "q_proj">>, 0, r, k>>
         /\ \A r \in 0 .. KvRows - 1 :
              f[base + QRows * Hidden + r * Hidden + k] = <<l, <<"attn", "kv_a">>, 0, r, k>>
<1> DEFINE P == Matrix(l, <<"attn", "q_proj">>, 0, QRows, Hidden)
           V == Matrix(l, <<"attn", "kv_a">>, 0, KvRows, Hidden)
           a == Flat(P, QRows, Hidden)
           b == Flat(V, KvRows, Hidden)
           m == QRows * Hidden
           n == KvRows * Hidden
           s == Content(<<l, "qkv">>)
<1>1. Sized(a, m) /\ Sized(b, n) /\ m \in Nat \ {0} /\ n \in Nat \ {0}
  BY Sizes, FlatSized
<1>2. s = a \o b
  BY DEF Content
<1>3. Hidden \in Nat \ {0} /\ QRows \in Nat \ {0} /\ KvRows \in Nat \ {0} /\ k \in Nat
  BY Sizes
<1>4. ASSUME NEW r \in 0 .. QRows - 1
      PROVE  r * Hidden + k + 1 \in 1 .. m /\ a[r * Hidden + k + 1] = P[r][k] /\ r * Hidden \in Nat
  <2>1. r * Hidden \in Nat
    BY <1>3
  <2> HIDE DEF P
  <2>2. /\ r * Hidden + k + 1 \in 1 .. QRows * Hidden
        /\ Flat(P, QRows, Hidden)[r * Hidden + k + 1] = P[r][k]
    BY <1>3, FlatAt
  <2> QED
    BY <2>1, <2>2
<1>5. ASSUME NEW r \in 0 .. KvRows - 1
      PROVE  r * Hidden + k + 1 \in 1 .. n /\ b[r * Hidden + k + 1] = V[r][k] /\ r * Hidden \in Nat
  <2>1. r * Hidden \in Nat
    BY <1>3
  <2> HIDE DEF V
  <2>2. /\ r * Hidden + k + 1 \in 1 .. KvRows * Hidden
        /\ Flat(V, KvRows, Hidden)[r * Hidden + k + 1] = V[r][k]
    BY <1>3, FlatAt
  <2> QED
    BY <2>1, <2>2
<1>6. /\ \A r \in 0 .. QRows - 1 : P[r][k] = <<l, <<"attn", "q_proj">>, 0, r, k>>
      /\ \A r \in 0 .. KvRows - 1 : V[r][k] = <<l, <<"attn", "kv_a">>, 0, r, k>>
  BY DEF Matrix
<1>7. WordsAt(f, base, s, m + n)
  OBVIOUS
<1> HIDE DEF P, V, a, b, m, n, s
<1>8. PICK S : /\ a \in Seq(S) /\ b \in Seq(S)
               /\ Len(a) = m /\ Len(b) = n /\ m \in Nat /\ n \in Nat
  BY <1>1, SizedInSeq
<1>9. ASSUME NEW i \in 1 .. m PROVE f[base + i - 1] = a[i]
  <2>1. i \in 1 .. m + n /\ (a \o b)[i] = a[i]
    BY <1>8, <1>9
  <2> QED
    BY <1>2, <1>7, <2>1 DEF WordsAt
<1>10. ASSUME NEW i \in 1 .. n PROVE f[base + m + i - 1] = b[i]
  <2>1. m + i \in 1 .. m + n /\ (a \o b)[m + i] = b[i] /\ base + (m + i) - 1 = base + m + i - 1
    BY <1>8, <1>10
  <2> QED
    BY <1>2, <1>7, <2>1 DEF WordsAt
<1>11. ASSUME NEW r \in 0 .. QRows - 1
       PROVE  f[base + r * Hidden + k] = <<l, <<"attn", "q_proj">>, 0, r, k>>
  <2> DEFINE i == r * Hidden + k + 1
  <2>1. i \in 1 .. m /\ a[i] = P[r][k] /\ base + i - 1 = base + r * Hidden + k
    BY <1>3, <1>4
  <2> HIDE DEF i
  <2> QED
    BY <1>6, <1>9, <2>1
<1>12. ASSUME NEW r \in 0 .. KvRows - 1
       PROVE  f[base + m + r * Hidden + k] = <<l, <<"attn", "kv_a">>, 0, r, k>>
  <2> DEFINE i == r * Hidden + k + 1
  <2>1. i \in 1 .. n /\ b[i] = V[r][k] /\ base + m + i - 1 = base + m + r * Hidden + k
    BY <1>1, <1>3, <1>5
  <2> HIDE DEF i
  <2> QED
    BY <1>6, <1>10, <2>1
<1> QED
  BY <1>11, <1>12 DEF m

\* Each of a layer's matrices lies where the kernel reads it.
LEMMA LayerReadable ==
  ASSUME BlobReadsBack, BlobTaken, NEW word, NEW l \in Layers, NEW part \in MatrixParts(l),
         <<l, part>> \notin manifest.lost
  PROVE  PartReadable(file, load_manifest(manifest, word), l, part)
<1> DEFINE base == TensorPtr(load_manifest(manifest, word), l, part)
<1>1. <<l, part>> \in ToSet(PackedNames)
  <2>1. l \in Int
    BY Shape
  <2> QED
    BY <2>1, LayerNamesHas, PackedHas DEF MatrixParts
<1>2. CASE part = "qkv"
  <2> DEFINE n == QRows * Hidden + KvRows * Hidden
  <2>1. Sized(Content(<<l, "qkv">>), n)
    <3>1. Sized(Flat(Matrix(l, <<"attn", "q_proj">>, 0, QRows, Hidden), QRows, Hidden), QRows * Hidden)
      BY Sizes, FlatSized
    <3>2. Sized(Flat(Matrix(l, <<"attn", "kv_a">>, 0, KvRows, Hidden), KvRows, Hidden), KvRows * Hidden)
      BY Sizes, FlatSized
    <3> QED
      BY <3>1, <3>2, SizedConcat DEF Content
  <2>2. base \in Nat /\ WordsAt(file, base, Content(<<l, "qkv">>), n)
    BY <1>1, <1>2, <2>1, TensorAt
  <2> HIDE DEF base
  <2>3. QkvReadable(file, base, l)
    BY <2>2, QkvAt DEF QkvReadable
  <2> QED
    BY <1>2, <2>3 DEF PartReadable, base
<1>3. CASE part = "experts"
  <2>1. Sized(Content(<<l, "experts">>), NRouted * expert_stride)
    <3> DEFINE n == NRouted * expert_stride
               e == Experts(l)
    <3>1. n \in Nat /\ e = [k \in 1 .. n |-> e[k]] /\ Content(<<l, "experts">>) = e
      BY Sizes DEF Experts, Content
    <3> HIDE DEF n, e
    <3>2. Sized(e, n)
      BY <3>1, SizedFunction
    <3> QED
      BY <3>1, <3>2 DEF n
  <2>2. base \in Nat /\ WordsAt(file, base, Experts(l), NRouted * expert_stride)
    <3>1. Content(<<l, "experts">>) = Experts(l)
      BY DEF Content
    <3> QED
      BY <1>1, <1>3, <2>1, <3>1, TensorAt
  <2> HIDE DEF base
  <2>3. \A id \in 0 .. NRouted - 1 : UnitIs(file, RoutedUnit(base, id), l, "expert", id, 0)
    BY <2>2, RoutedAt
  <2> QED
    BY <1>3, <2>3 DEF PartReadable, base
<1>4. CASE part = "shared"
  <2>1. Content(<<l, "shared">>) = Mlp(l, "shared", 0, SharedInter)
    BY DEF Content
  <2>2. Sized(Content(<<l, "shared">>), 3 * (SharedInter * Hidden))
    BY <2>1, Sizes, MlpSized
  <2>3. /\ base \in Nat
        /\ WordsAt(file, base, Mlp(l, "shared", 0, SharedInter), 3 * (SharedInter * Hidden))
    BY <1>1, <1>4, <2>1, <2>2, TensorAt
  <2> HIDE DEF base
  <2>4. \A half \in 0 .. 1 : UnitIs(file, SharedUnit(base, half), l, "shared", 0, half * MoeInter)
    BY <2>3, SharedAt
  <2> QED
    BY <1>4, <2>4 DEF PartReadable, base
<1>5. CASE part = "dense"
  <2>1. Content(<<l, "dense">>) = Mlp(l, "dense", 0, DenseInter)
    BY DEF Content
  <2>2. Sized(Content(<<l, "dense">>), 3 * (DenseInter * Hidden))
    BY <2>1, Sizes, MlpSized
  <2>3. /\ base \in Nat
        /\ WordsAt(file, base, Mlp(l, "dense", 0, DenseInter), 3 * (DenseInter * Hidden))
    BY <1>1, <1>5, <2>1, <2>2, TensorAt
  <2> HIDE DEF base
  <2>4. UnitIs(file, DenseUnit(base), l, "dense", 0, 0)
    BY <2>3, DenseAt
  <2> QED
    BY <1>5, <2>4 DEF PartReadable, base
<1> QED
  BY <1>2, <1>3, <1>4, <1>5 DEF MatrixParts

\* What the packer leaves, as long as a session lasts.
LEMMA SessionPacks == Spec => [](IInv /\ PlacedInv)
<1>1. SessionInit => IInv /\ PlacedInv
  BY InitLayout, InitPlaced DEF SessionInit
<1>2. (IInv /\ PlacedInv) /\ [Next]_vars => (IInv /\ PlacedInv)'
  <2>1. [Next]_vars => [PackerNext]_packerVars
    BY DEF Next, vars, StartPack, PackStep, PackerNext
  <2> QED
    BY <2>1, PackerStep
<1> QED
  BY <1>1, <1>2, PTL DEF Spec

\* For every shape of the model: whenever a packing has ended, a blob the
\* launcher would take holds each routed expert, each shared half, the dense MLP
\* and the query and kv_a rows of every layer at the addresses resolve_unit and
\* the GEMV tasks compute, whichever runs of the packer, whole or cut short,
\* blob and manifest are from; all but the tensor of the manifest's last line,
\* when the cut fell into its offset (pack, load_manifest, layer_table, resolve_unit).
THEOREM WeightsLieWhereRead == Spec => PackedAsRead
<1> DEFINE Right == BlobTaken =>
             /\ manifest.lost \subseteq {LastName}
             /\ \A word \in StackWords :
                  WeightsReadable(file, load_manifest(manifest, word), manifest.lost)
<1>1. IInv /\ PlacedInv => Right
  <2> SUFFICES ASSUME IInv, PlacedInv, BlobTaken
               PROVE  /\ manifest.lost \subseteq {LastName}
                      /\ \A word \in StackWords :
                           WeightsReadable(file, load_manifest(manifest, word), manifest.lost)
    OBVIOUS
  <2>1. BlobReadsBack
    BY AcceptedReadsBack, NothingEmpty
  <2>2. manifest.lost \subseteq {LastName}
    BY DEF BlobTaken, PlacedInv, ManifestPlaced
  <2>3. ASSUME NEW word \in StackWords
        PROVE  WeightsReadable(file, load_manifest(manifest, word), manifest.lost)
    BY <2>1, LayerReadable DEF WeightsReadable
  <2> QED
    BY <2>2, <2>3
<1>2. Right' => [packing' = "idle" /\ BlobTaken' =>
                   /\ manifest'.lost \subseteq {LastName}
                   /\ \A word \in StackWords :
                        WeightsReadable(file', load_manifest(manifest', word), manifest'.lost)]_packing
  OBVIOUS
<1> HIDE DEF Right
<1> QED
  BY <1>1, <1>2, SessionPacks, PTL DEF PackedAsRead

=============================================================================
