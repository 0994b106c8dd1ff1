--------------------------- MODULE LaunchProofs ----------------------------
(***************************************************************************)
(* For every model, prompt and shape of the weights, and every choice of   *)
(* arguments, launches and repeats: what the launcher's exit code means.   *)
(* First a token through the kernel's layers: over rows that are the       *)
(* text's or nobody's the last layer gives the text's value or garbage,    *)
(* over the text's own rows on readable weights it gives every value.      *)
(* Then the files: a beginning of a cache says nothing false of its first  *)
(* layer, and a whole run's files hold the text's rows, tokens and hidden  *)
(* states.  Then the launcher: whatever files it reads, its rows below the *)
(* first layer and its tokens are the fed text's or come of garbage, and   *)
(* exit code 0 tells that none was garbage.  Over one run's whole files    *)
(* they are the run's.                                                     *)
(***************************************************************************)
EXTENDS WeightProofs, DecodeProofs

-----------------------------------------------------------------------------
(* A token through the layers of the kernel.                               *)

\* f has the values before the first n + 1 layers, each computed from the one before.
Layering(f, t, p, n) ==
  f = [l \in 0 .. n |-> IF l = 0 THEN Embed(t) ELSE decoder_layer(l - 1, f[l - 1], p)]

LEMMA LayeringExists ==
  ASSUME NEW n \in Nat, NEW t, NEW p
  PROVE  \E f : Layering(f, t, p, n)
<1> DEFINE T == { m \in 0 .. n : \E f : Layering(f, t, p, m) }
<1>1. 0 \in T
  <2> DEFINE f == [l \in 0 .. 0 |-> Embed(t)]
  <2>1. f = [l \in 0 .. 0 |-> IF l = 0 THEN Embed(t) ELSE decoder_layer(l - 1, f[l - 1], p)]
    OBVIOUS
  <2> HIDE DEF f
  <2>2. Layering(f, t, p, 0)
    BY <2>1 DEF Layering
  <2> QED
    BY <2>2
<1>2. PICK g \in T : \A m \in T : m <= g
  <2>1. T \subseteq 0 .. n /\ T # {}
    BY <1>1
  <2> HIDE DEF T
  <2> QED
    BY <2>1, Greatest
<1>3. PICK f : Layering(f, t, p, g)
  OBVIOUS
<1>4. g = n
  <2> SUFFICES ASSUME g # n PROVE FALSE
    OBVIOUS
  <2>1. g \in Nat /\ g + 1 \in 0 .. n
    OBVIOUS
  <2> DEFINE h == [l \in 0 .. g + 1 |-> IF l <= g THEN f[l] ELSE decoder_layer(g, f[g], p)]
  <2>2. \A l \in 0 .. g : h[l] = f[l]
    BY <2>1
  <2>3. \A l \in 0 .. g : f[l] = IF l = 0 THEN Embed(t) ELSE decoder_layer(l - 1, f[l - 1], p)
    BY <1>3 DEF Layering
  <2>4. ASSUME NEW l \in 0 .. g + 1
        PROVE  h[l] = IF l = 0 THEN Embed(t) ELSE decoder_layer(l - 1, h[l - 1], p)
    <3>1. CASE l <= g
      <4>1. l \in 0 .. g /\ (l # 0 => l - 1 \in 0 .. g)
        BY <2>1, <3>1
      <4> HIDE DEF h
      <4> QED
        BY <2>2, <2>3, <4>1
    <3>2. CASE l = g + 1
      <4>1. h[l] = decoder_layer(g, f[g], p)
        BY <2>1, <3>2
      <4>2. l # 0 /\ l - 1 = g /\ g \in 0 .. g
        BY <2>1, <3>2
      <4> HIDE DEF h
      <4> QED
        BY <2>2, <4>1, <4>2
    <3> QED
      BY <2>1, <3>1, <3>2
  <2>5. h = [l \in 0 .. g + 1 |-> h[l]]
    OBVIOUS
  <2> HIDE DEF h
  <2>6. Layering(h, t, p, g + 1)
    BY <2>4, <2>5 DEF Layering
  <2>7. g + 1 \in T
    BY <2>1, <2>6
  <2> QED
    BY <1>2, <2>1, <2>7
<1> QED
  BY <1>3, <1>4

\* HiddenAt is computed layer by layer.
LEMMA HiddenSteps ==
  ASSUME NEW t, NEW p
  PROVE  /\ HiddenAt(t, p)[0] = Embed(t)
         /\ \A l \in Layers : HiddenAt(t, p)[l + 1] = decoder_layer(l, HiddenAt(t, p)[l], p)
         /\ DOMAIN HiddenAt(t, p) = 0 .. NLayers
<1> DEFINE h == HiddenAt(t, p)
<1>0. NLayers \in Nat \ {0} /\ Layers = 0 .. NLayers - 1
  BY Shape
<1>1. h = CHOOSE f : f = [l \in 0 .. NLayers |-> IF l = 0 THEN Embed(t) ELSE decoder_layer(l - 1, f[l - 1], p)]
  BY DEF HiddenAt
<1> HIDE DEF h
<1>2. \E f : f = [l \in 0 .. NLayers |-> IF l = 0 THEN Embed(t) ELSE decoder_layer(l - 1, f[l - 1], p)]
  <2>1. PICK f : Layering(f, t, p, NLayers)
    BY <1>0, LayeringExists
  <2> QED
    BY <2>1, Zenon DEF Layering
<1>3. h = [l \in 0 .. NLayers |-> IF l = 0 THEN Embed(t) ELSE decoder_layer(l - 1, h[l - 1], p)]
  BY <1>1, <1>2, Zenon
<1>4. DOMAIN h = 0 .. NLayers
      /\ \A l \in 0 .. NLayers : h[l] = IF l = 0 THEN Embed(t) ELSE decoder_layer(l - 1, h[l - 1], p)
  <2>1. DOMAIN h = 0 .. NLayers
    BY <1>3, Zenon
  <2>2. \A l \in 0 .. NLayers : h[l] = IF l = 0 THEN Embed(t) ELSE decoder_layer(l - 1, h[l - 1], p)
    BY <1>3, Zenon
  <2> QED
    BY <2>1, <2>2
<1>5. h[0] = Embed(t)
  BY <1>0, <1>4
<1>6. ASSUME NEW l \in Layers PROVE h[l + 1] = decoder_layer(l, h[l], p)
  <2>1. l + 1 \in 0 .. NLayers /\ l + 1 # 0 /\ (l + 1) - 1 = l
    BY <1>0
  <2> QED
    BY <1>4, <2>1
<1> QED
  BY <1>4, <1>5, <1>6 DEF h

\* A query that asks with the value before a later layer than the first gets
\* that value or garbage, whatever rows it sees.
LEMMA AttendKeeps ==
  ASSUME NEW V, NEW T \in Seq(V), NEW n \in 1 .. Len(T), NEW l \in Layers, l # 0, NEW seen, Sized(seen, n)
  PROVE  Attend(Value(l, T, n), [pos |-> n - 1, base |-> 0], seen)
           \in {Garbage, [at |-> l, seen |-> SubSeq(T, 1, n)]}
<1> DEFINE h == Value(l, T, n)
           rot == [pos |-> n - 1, base |-> 0]
           dist(i) == rot.pos - seen[i].rot.pos
           at(k) == CHOOSE i \in 1 .. n : dist(i) = n - k
           proper ==
             /\ h # Garbage
             /\ { dist(i) : i \in 1 .. n } = 0 .. n - 1
             /\ \A i \in 1 .. n : seen[i].of.at = h.at /\ seen[i].rot.base = rot.base
           prefix == [k \in 1 .. n |-> Last(seen[at(k)].of.seen)]
           carried(k) == IF h.at = 0 THEN <<prefix[k]>> ELSE SubSeq(prefix, 1, k)
<1>0. n \in Nat /\ Len(seen) = n /\ n \in 1 .. n /\ l \in Nat
  BY SizedDomain, Shape
<1>1. Attend(h, rot, seen) =
        IF proper /\ h = seen[at(n)].of /\ \A k \in 1 .. n : seen[at(k)].of.seen = carried(k)
        THEN [h EXCEPT !.seen = prefix]
        ELSE Garbage
  BY <1>0 DEF Attend
<1>2. h.at = l /\ h.seen = SubSeq(T, 1, n)
  <2>1. h.seen = IF l = 0 THEN <<T[n]>> ELSE SubSeq(T, 1, n)
    BY DEF Value
  <2>2. h.at = l
    BY Fields
  <2> HIDE DEF h
  <2> QED
    BY <2>1, <2>2
<1>3. SubSeq(prefix, 1, n) = prefix
  <2>1. prefix = [k \in 1 .. n |-> prefix[k]]
    OBVIOUS
  <2> HIDE DEF prefix
  <2>2. Sized(prefix, n)
    BY <1>0, <2>1, SizedFunction
  <2> QED
    BY <1>0, <2>2 DEF Sized
<1> HIDE DEF proper, prefix, at, dist
<1>4. CASE h = seen[at(n)].of /\ \A k \in 1 .. n : seen[at(k)].of.seen = carried(k)
  <2>1. carried(n) = prefix
    BY <1>2, <1>3
  <2>2. h.seen = prefix
    BY <1>0, <1>4, <2>1
  <2>3. [h EXCEPT !.seen = prefix] = [at |-> l, seen |-> prefix]
    BY Reseen
  <2> QED
    BY <1>1, <1>2, <2>2, <2>3
<1>5. CASE ~ (h = seen[at(n)].of /\ \A k \in 1 .. n : seen[at(k)].of.seen = carried(k))
  BY <1>1, <1>5
<1> QED
  BY <1>4, <1>5

\* Nothing but a row of the same layer from each position lets a query answer.
LEMMA AttendProper ==
  ASSUME NEW h, NEW rot, NEW seen, Attend(h, rot, seen) # Garbage
  PROVE  h # Garbage /\ \A i \in 1 .. Len(seen) : seen[i].of.at = h.at
BY DEF Attend

\* At the first layer, of rows that are the text's or nobody's.
LEMMA AttendFirst ==
  ASSUME NEW V, NEW T \in Seq(V), NEW n \in 1 .. Len(T), NEW seen, Sized(seen, n),
         \A i \in 1 .. n : seen[i] \in {ZeroRow, FreshRow(Value(0, T, i), i)}
  PROVE  Attend(Value(0, T, n), [pos |-> n - 1, base |-> 0], seen)
           \in {Garbage, [at |-> 0, seen |-> SubSeq(T, 1, n)]}
<1> DEFINE A == Attend(Value(0, T, n), [pos |-> n - 1, base |-> 0], seen)
<1>1. CASE \A i \in 1 .. n : seen[i] = FreshRow(Value(0, T, i), i)
  <2>1. 0 \in Layers
    BY Shape
  <2> QED
    BY <1>1, <2>1, AttendReads
<1>2. CASE \E i \in 1 .. n : seen[i] = ZeroRow
  <2>1. PICK i \in 1 .. n : seen[i] = ZeroRow
    BY <1>2
  <2>2. ZeroRow.of.at = -1
    BY DEF ZeroRow, Row, Garbage
  <2>3. Value(0, T, n).at = 0
    BY DEF Value
  <2>4. Len(seen) = n
    BY SizedDomain
  <2>5. seen[i].of.at # Value(0, T, n).at
    BY <2>1, <2>2, <2>3
  <2>6. A = Garbage
    <3> SUFFICES ASSUME A # Garbage PROVE FALSE
      OBVIOUS
    <3>1. \A k \in 1 .. Len(seen) : seen[k].of.at = Value(0, T, n).at
      BY AttendProper
    <3> QED
      BY <2>4, <2>5, <3>1
  <2> QED
    BY <2>6
<1> QED
  BY <1>1, <1>2

\* The MLP takes what attention gave to the next layer.
LEMMA MovesOn ==
  ASSUME NEW T, NEW n, NEW l \in Layers
  PROVE  /\ AfterMlp([at |-> l, seen |-> SubSeq(T, 1, n)]) = Value(l + 1, T, n)
         /\ AfterMlp(Garbage) = Garbage
<1> DEFINE s == SubSeq(T, 1, n)
           a == [at |-> l, seen |-> s]
<1>1. l \in Nat
  BY Shape
<1> HIDE DEF s
<1>3. a # Garbage
  <2>1. a.at = l /\ Garbage.at = -1
    BY DEF Garbage
  <2> HIDE DEF a
  <2> QED
    BY <1>1, <2>1
<1>4. AfterMlp(a) = [a EXCEPT !.at = @ + 1] /\ AfterMlp(Garbage) = Garbage
  BY <1>3 DEF AfterMlp
<1>5. Value(l + 1, T, n) = [at |-> l + 1, seen |-> s]
  <2>1. l + 1 # 0
    BY <1>1
  <2> QED
    BY <2>1 DEF Value, s
<1>6. [a EXCEPT !.at = @ + 1] = [at |-> l + 1, seen |-> s]
  OBVIOUS
<1>7. AfterMlp(a) = Value(l + 1, T, n)
  BY <1>4, <1>5, <1>6, Zenon
<1> QED
  BY <1>4, <1>7 DEF s

\* What the kernel's attention sees at position p.
Seen(l, h, p) == Append([i \in 1 .. p |-> rows[RowAt(l, i - 1)]], OwnRow(h, p))

LEMMA SeenRows ==
  ASSUME NEW l, NEW h, NEW p \in Nat
  PROVE  /\ Sized(Seen(l, h, p), p + 1)
         /\ \A i \in 1 .. p : Seen(l, h, p)[i] = rows[RowAt(l, i - 1)]
         /\ Seen(l, h, p)[p + 1] = FreshRow(h, p + 1)
         /\ attention_absorbed(l, h, p) = Attend(h, [pos |-> (p + 1) - 1, base |-> 0], Seen(l, h, p))
<1> DEFINE f == [i \in 1 .. p |-> rows[RowAt(l, i - 1)]]
           own == OwnRow(h, p)
<1>1. Sized(f, p)
  <2>1. f = [i \in 1 .. p |-> f[i]]
    OBVIOUS
  <2> HIDE DEF f
  <2> QED
    BY <2>1, SizedFunction
<1>2. (p + 1) - 1 = p
  OBVIOUS
<1>3. own = FreshRow(h, p + 1)
  BY <1>2 DEF OwnRow, FreshRow
<1>4. attention_absorbed(l, h, p) = Attend(h, [pos |-> (p + 1) - 1, base |-> 0], Seen(l, h, p))
  BY <1>2, Zenon DEF attention_absorbed, Seen
<1>5. \A i \in 1 .. p : f[i] = rows[RowAt(l, i - 1)]
  OBVIOUS
<1> HIDE DEF f, own
<1>6. Sized(Append(f, own), p + 1)
  BY <1>1, SizedAppend
<1>7. (\A i \in 1 .. p : Append(f, own)[i] = f[i]) /\ Append(f, own)[p + 1] = own
  BY <1>1 DEF Sized
<1>8. Seen(l, h, p) = Append(f, own)
  BY DEF Seen, f, own
<1> QED
  BY <1>3, <1>4, <1>5, <1>6, <1>7, <1>8

\* A decode step of one layer gives the value of the text fed so far or garbage.
LEMMA LayerSound ==
  ASSUME NEW V, NEW T \in Seq(V), NEW p \in Nat, p + 1 <= Len(T), NEW l \in Layers,
         NEW h \in {Garbage, Value(l, T, p + 1)},
         l = 0 => \A i \in 1 .. p : rows[RowAt(l, i - 1)] \in {ZeroRow, FreshRow(Value(0, T, i), i)}
  PROVE  decoder_layer(l, h, p) \in {Garbage, Value(l + 1, T, p + 1)}
<1> DEFINE n == p + 1
           s == Seen(l, h, p)
           A == attention_absorbed(l, h, p)
<1>0. n \in 1 .. Len(T) /\ l \in Nat
  BY Shape
<1>1. A \in {Garbage, [at |-> l, seen |-> SubSeq(T, 1, n)]}
  <2>1. /\ Sized(s, n) /\ s[n] = FreshRow(h, n)
        /\ \A i \in 1 .. p : s[i] = rows[RowAt(l, i - 1)]
        /\ A = Attend(h, [pos |-> n - 1, base |-> 0], s)
    <3>1. Sized(s, n) /\ s[n] = FreshRow(h, n)
      BY SeenRows
    <3>2. \A i \in 1 .. p : s[i] = rows[RowAt(l, i - 1)]
      BY SeenRows
    <3>3. A = Attend(h, [pos |-> n - 1, base |-> 0], s)
      BY SeenRows
    <3> QED
      BY <3>1, <3>2, <3>3
  <2> HIDE DEF s, A
  <2>2. CASE h = Garbage
    <3>1. A = Garbage
      <4> SUFFICES ASSUME A # Garbage PROVE FALSE
        OBVIOUS
      <4> QED
        BY <2>1, <2>2, AttendProper
    <3> QED
      BY <3>1
  <2>3. CASE h = Value(l, T, n) /\ l # 0
    BY <1>0, <2>1, <2>3, AttendKeeps
  <2>4. CASE h = Value(l, T, n) /\ l = 0
    <3>1. \A i \in 1 .. n : s[i] \in {ZeroRow, FreshRow(Value(0, T, i), i)}
      <4> SUFFICES ASSUME NEW i \in 1 .. n PROVE s[i] \in {ZeroRow, FreshRow(Value(0, T, i), i)}
        OBVIOUS
      <4>1. CASE i \in 1 .. p
        BY <2>1, <2>4, <4>1
      <4>2. CASE i = n
        BY <2>1, <2>4, <4>2
      <4> QED
        BY <4>1, <4>2
    <3> QED
      BY <1>0, <2>1, <2>4, <3>1, AttendFirst
  <2> QED
    BY <2>2, <2>3, <2>4
<1> HIDE DEF A
<1>2. AfterMlp(A) \in {Garbage, Value(l + 1, T, n)}
  BY <1>1, MovesOn
<1> QED
  BY <1>2 DEF decoder_layer, A

\* Over rows of the text, on readable weights, it gives the value itself.
LEMMA LayerExact ==
  ASSUME NEW V, NEW T \in Seq(V), NEW p \in Nat, p + 1 <= Len(T), NEW l \in Layers, l \in readable,
         \A i \in 1 .. p : rows[RowAt(l, i - 1)] = FreshRow(Value(l, T, i), i)
  PROVE  decoder_layer(l, Value(l, T, p + 1), p) = Value(l + 1, T, p + 1)
<1> DEFINE n == p + 1
           h == Value(l, T, n)
           s == Seen(l, h, p)
           A == attention_absorbed(l, h, p)
<1>0. n \in 1 .. Len(T) /\ l \in Nat
  BY Shape
<1>1. /\ Sized(s, n) /\ s[n] = FreshRow(h, n)
      /\ \A i \in 1 .. p : s[i] = rows[RowAt(l, i - 1)]
      /\ A = Attend(h, [pos |-> n - 1, base |-> 0], s)
  BY SeenRows
<1> HIDE DEF s, A
<1>2. \A i \in 1 .. n : s[i] = FreshRow(Value(l, T, i), i)
  <2> SUFFICES ASSUME NEW i \in 1 .. n PROVE s[i] = FreshRow(Value(l, T, i), i)
    OBVIOUS
  <2>1. CASE i \in 1 .. p
    BY <1>1, <2>1
  <2>2. CASE i = n
    BY <1>1, <2>2
  <2> QED
    BY <2>1, <2>2
<1>3. A = [at |-> l, seen |-> SubSeq(T, 1, n)]
  BY <1>0, <1>1, <1>2, AttendReads
<1>4. AfterMlp(A) = Value(l + 1, T, n)
  BY <1>3, MovesOn
<1> QED
  BY <1>4 DEF decoder_layer, A

\* The token the head gives for the value after the last layer.
LEMMA HeadReads ==
  ASSUME NEW T, NEW n
  PROVE  NextToken(Value(NLayers, T, n)) = Greedy(SubSeq(T, 1, n)) /\ NextToken(Garbage) = Junk
<1> DEFINE h == Value(NLayers, T, n)
<1>1. NLayers \in Nat \ {0}
  BY Shape
<1>2. h.at = NLayers /\ h.seen = IF NLayers = 0 THEN <<T[n]>> ELSE SubSeq(T, 1, n)
  BY DEF Value
<1>3. h.seen = SubSeq(T, 1, n)
  <2> HIDE DEF h
  <2> QED
    BY <1>1, <1>2
<1>4. Garbage.at # NLayers
  BY <1>1 DEF Garbage
<1> HIDE DEF h
<1>5. NextToken(h) = Greedy(SubSeq(T, 1, n))
  BY <1>2, <1>3 DEF NextToken
<1> QED
  BY <1>4, <1>5 DEF NextToken, h

LEMMA EmbedIsValue == ASSUME NEW T, NEW n PROVE Embed(T[n]) = Value(0, T, n)
BY DEF Embed, Value

\* A token through all layers, whatever the cache holds of the later ones.
LEMMA HiddenSound ==
  ASSUME NEW V, NEW T \in Seq(V), NEW p \in Nat, p + 1 <= Len(T),
         \A i \in 1 .. p : rows[RowAt(0, i - 1)] \in {ZeroRow, FreshRow(Value(0, T, i), i)}
  PROVE  NextToken(HiddenAt(T[p + 1], p)[NLayers]) \in {Junk, Greedy(SubSeq(T, 1, p + 1))}
<1> DEFINE h == HiddenAt(T[p + 1], p)
           D == { l \in 0 .. NLayers : h[l] \notin {Garbage, Value(l, T, p + 1)} }
<1>0. NLayers \in Nat \ {0} /\ Layers = 0 .. NLayers - 1
  BY Shape
<1>1. h[0] = Value(0, T, p + 1) /\ \A l \in Layers : h[l + 1] = decoder_layer(l, h[l], p)
  BY HiddenSteps, EmbedIsValue
<1> HIDE DEF h
<1>2. D = {}
  <2> SUFFICES ASSUME D # {} PROVE FALSE
    OBVIOUS
  <2>1. PICK m \in D : \A l \in D : m <= l
    <3>1. D \subseteq Nat
      OBVIOUS
    <3> HIDE DEF D
    <3> QED
      BY <3>1, Least
  <2>2. m \in 0 .. NLayers /\ h[m] \notin {Garbage, Value(m, T, p + 1)}
    OBVIOUS
  <2>3. m # 0
    BY <1>1, <2>2
  <2>4. m - 1 \in Layers /\ (m - 1) + 1 = m /\ m - 1 \in 0 .. NLayers /\ ~ (m <= m - 1)
    BY <1>0, <2>2, <2>3
  <2>5. h[m - 1] \in {Garbage, Value(m - 1, T, p + 1)}
    BY <2>1, <2>4
  <2>6. decoder_layer(m - 1, h[m - 1], p) \in {Garbage, Value((m - 1) + 1, T, p + 1)}
    <3> DEFINE k == m - 1
               x == h[k]
    <3>1. k \in Layers /\ x \in {Garbage, Value(k, T, p + 1)}
      BY <2>4, <2>5
    <3> HIDE DEF k, x
    <3>2. decoder_layer(k, x, p) \in {Garbage, Value(k + 1, T, p + 1)}
      BY <3>1, LayerSound
    <3> QED
      BY <3>2 DEF k, x
  <2> QED
    BY <1>1, <2>2, <2>4, <2>6
<1>3. h[NLayers] \in {Garbage, Value(NLayers, T, p + 1)}
  BY <1>0, <1>2
<1>4. NextToken(h[NLayers]) \in {Junk, Greedy(SubSeq(T, 1, p + 1))}
  BY <1>3, HeadReads
<1> QED
  BY <1>4 DEF h

\* Over a cache of the text's rows, on readable weights.
LEMMA HiddenExact ==
  ASSUME NEW V, NEW T \in Seq(V), NEW p \in Nat, p + 1 <= Len(T), Layers \subseteq readable,
         \A l \in Layers, i \in 1 .. p : rows[RowAt(l, i - 1)] = FreshRow(Value(l, T, i), i)
  PROVE  /\ \A l \in 0 .. NLayers : HiddenAt(T[p + 1], p)[l] = Value(l, T, p + 1)
         /\ NextToken(HiddenAt(T[p + 1], p)[NLayers]) = Greedy(SubSeq(T, 1, p + 1))
<1> DEFINE h == HiddenAt(T[p + 1], p)
           D == { l \in 0 .. NLayers : h[l] # Value(l, T, p + 1) }
<1>0. NLayers \in Nat \ {0} /\ Layers = 0 .. NLayers - 1
  BY Shape
<1>1. h[0] = Value(0, T, p + 1) /\ \A l \in Layers : h[l + 1] = decoder_layer(l, h[l], p)
  BY HiddenSteps, EmbedIsValue
<1> HIDE DEF h
<1>2. D = {}
  <2> SUFFICES ASSUME D # {} PROVE FALSE
    OBVIOUS
  <2>1. PICK m \in D : \A l \in D : m <= l
    <3>1. D \subseteq Nat
      OBVIOUS
    <3> HIDE DEF D
    <3> QED
      BY <3>1, Least
  <2>2. m \in 0 .. NLayers /\ h[m] # Value(m, T, p + 1)
    OBVIOUS
  <2>3. m # 0
    BY <1>1, <2>2
  <2>4. m - 1 \in Layers /\ (m - 1) + 1 = m /\ m - 1 \in 0 .. NLayers /\ ~ (m <= m - 1)
    BY <1>0, <2>2, <2>3
  <2>5. h[m - 1] = Value(m - 1, T, p + 1)
    BY <2>1, <2>4
  <2>6. decoder_layer(m - 1, Value(m - 1, T, p + 1), p) = Value((m - 1) + 1, T, p + 1)
    <3> DEFINE k == m - 1
    <3>1. k \in Layers /\ k \in readable
      BY <2>4
    <3> HIDE DEF k
    <3>2. decoder_layer(k, Value(k, T, p + 1), p) = Value(k + 1, T, p + 1)
      BY <3>1, LayerExact
    <3> QED
      BY <3>2 DEF k
  <2>7. h[m] = Value((m - 1) + 1, T, p + 1)
    BY <1>1, <2>4, <2>5, <2>6
  <2> QED
    BY <2>2, <2>4, <2>7
<1>3. \A l \in 0 .. NLayers : h[l] = Value(l, T, p + 1)
  BY <1>2
<1>4. NextToken(h[NLayers]) = Greedy(SubSeq(T, 1, p + 1))
  BY <1>0, <1>3, HeadReads
<1> QED
  BY <1>3, <1>4 DEF h

\* The launcher's rows have NLayers times as many entries as positions.
RowsFit == /\ kv_max_pos \in Nat \ {0}
           /\ Len(cache_bin.data) = NLayers * kv_max_pos
           /\ DOMAIN rows = 1 .. NLayers * kv_max_pos

LEMMA RowPlace ==
  ASSUME RowsFit, NEW l \in Layers, NEW q \in 0 .. kv_max_pos - 1
  PROVE  /\ RowAt(l, q) \in 1 .. NLayers * kv_max_pos
         /\ (RowAt(l, q) - 1) \div kv_max_pos = l
         /\ (RowAt(l, q) - 1) % kv_max_pos = q
<1> DEFINE M == kv_max_pos
           i == q + 1
<1>1. M \in Nat \ {0} /\ NLayers \in Nat /\ l \in 0 .. NLayers - 1
  BY Shape DEF RowsFit
<1>2. q \in Nat /\ i \in 1 .. M /\ i - 1 = q
  BY <1>1
<1>3. RowAt(l, q) = l * M + i
  <2>1. l * M \in Nat
    BY <1>1
  <2> HIDE DEF M
  <2> QED
    BY <1>2, <2>1 DEF RowAt, M
<1> HIDE DEF M, i
<1>4. /\ l * M + i \in 1 .. NLayers * M
      /\ (l * M + i - 1) \div M = l
      /\ (l * M + i - 1) % M = i - 1
  BY <1>1, <1>2, RowIndex
<1>5. RowAt(l, q) - 1 = l * M + i - 1
  <2>1. l * M \in Nat /\ i \in Nat
    BY <1>1, <1>2
  <2> DEFINE x == l * M
  <2> HIDE DEF x
  <2>2. (x + i) - 1 = x + i - 1
    BY <2>1 DEF x
  <2> QED
    BY <1>3, <2>2 DEF x
<1> QED
  BY <1>2, <1>3, <1>4, <1>5, Zenon DEF M

\* A token writes the row of its position in every layer, and no other.
LEMMA RowsWritten ==
  ASSUME RowsFit, NEW p \in 0 .. kv_max_pos - 1, NEW h, NEW after,
         after = [k \in DOMAIN rows |->
                    IF \E l \in Layers : k = RowAt(l, p)
                    THEN OwnRow(h[(k - 1) \div kv_max_pos], p) ELSE rows[k]]
  PROVE  /\ DOMAIN after = 1 .. NLayers * kv_max_pos
         /\ \A l \in Layers : after[RowAt(l, p)] = FreshRow(h[l], p + 1)
         /\ \A l \in Layers, q \in 0 .. kv_max_pos - 1 :
              q # p => after[RowAt(l, q)] = rows[RowAt(l, q)]
<1>1. \A l \in Layers, q \in 0 .. kv_max_pos - 1 :
        /\ RowAt(l, q) \in DOMAIN rows
        /\ (RowAt(l, q) - 1) \div kv_max_pos = l
        /\ (RowAt(l, q) - 1) % kv_max_pos = q
  BY RowPlace DEF RowsFit
<1>2. ASSUME NEW l \in Layers PROVE after[RowAt(l, p)] = FreshRow(h[l], p + 1)
  <2> DEFINE k == RowAt(l, p)
  <2>1. k \in DOMAIN rows /\ (k - 1) \div kv_max_pos = l /\ \E m \in Layers : k = RowAt(m, p)
    BY <1>1
  <2> HIDE DEF k
  <2>2. after[k] = OwnRow(h[l], p)
    BY <2>1
  <2>3. (p + 1) - 1 = p
    BY DEF RowsFit
  <2> QED
    BY <2>2, <2>3 DEF OwnRow, FreshRow, k
<1>3. ASSUME NEW l \in Layers, NEW q \in 0 .. kv_max_pos - 1, q # p
      PROVE  after[RowAt(l, q)] = rows[RowAt(l, q)]
  <2>1. \A m \in Layers : RowAt(l, q) # RowAt(m, p)
    BY <1>1, <1>3
  <2> QED
    BY <1>1, <2>1
<1>4. DOMAIN after = 1 .. NLayers * kv_max_pos
  BY DEF RowsFit
<1> QED
  BY <1>2, <1>3, <1>4

-----------------------------------------------------------------------------
(* What the files hold.                                                    *)

\* However much of a cache is there, its first layer's rows are the prompt's or
\* nobody's.
CacheSound(data) ==
  /\ Sized(data, Len(data))
  /\ \A i \in 1 .. Len(data) \div NLayers : data[i] \in {ZeroRow, FreshRow(Value(0, Prompt, i), i)}

\* What a whole run with c positions of context and d decodes writes.
CacheOf(data, c, d) ==
  /\ Sized(data, NLayers * (c + d))
  /\ \A l \in Layers, i \in 1 .. c : data[l * (c + d) + i] = FreshRow(Value(l, Prompt, i), i)
TokensOf(V, data, c, d) == data \in Seq(V) /\ Len(data) = d + 1 /\ IsGreedy(c, data)
HiddenOf(data, c) ==
  Sized(data, NLayers) /\ \A l \in Layers : data[l + 1] = Value(l + 1, FirstText(c), c + 1)

CacheInv ==
  /\ CacheSound(cache_bin.data)
  /\ cache_bin.by # Nobody =>
       \E c \in Contexts, d \in Decodes : cache_bin.by = <<c, d>> /\ CacheOf(cache_bin.data, c, d)
TokensInv(V) ==
  /\ golden_txt.data \in Seq(V \cup {HalfToken})
  /\ golden_txt.by # Nobody =>
       \E c \in Contexts, d \in Decodes : golden_txt.by = <<c, d>> /\ TokensOf(V, golden_txt.data, c, d)
HiddenInv ==
  hidden_bin.by # Nobody =>
    \E c \in Contexts, d \in Decodes : hidden_bin.by = <<c, d>> /\ HiddenOf(hidden_bin.data, c)

\* The converted row of a prompt's position is the position's.
LEMMA FleetRowOf ==
  ASSUME NEW V, SpeaksIn(V), RefInv, ValueInv(V), stage = "cache", NEW l \in Layers, NEW i \in Nat \ {0}
  PROVE  FleetRow(l, i) = IF i <= context THEN FreshRow(Value(l, Prompt, i), i) ELSE ZeroRow
<1>1. context \in Contexts /\ context \in Nat \ {0} /\ decode \in Nat \ {0}
  BY Shape DEF RefInv, RefTypeOK
<1>2. Captured(l) /\ Len(compressed[l]) = context
  BY SizedDomain DEF RefInv, RowsOK, Captured
<1>3. FleetRow(l, i) = IF i <= context THEN Row(compressed[l][i], [pos |-> i - 1, base |-> 0]) ELSE ZeroRow
  BY <1>1, <1>2, Shape DEF FleetRow, Rotation, pos_ids
<1>4. ASSUME i <= context PROVE FleetRow(l, i) = FreshRow(Value(l, Prompt, i), i)
  <2>1. i \in 1 .. context
    BY <1>1, <1>4
  <2>2. FleetRow(l, i) = past[l][i]
    BY <1>2, <1>3, <2>1 DEF Captured
  <2>3. /\ RefText \in Seq(V) /\ Len(RefText) = context + Len(gen_ids) /\ Len(RefText) = start + 2
        /\ RefText = PromptText(context) \o gen_ids
    BY TextOf
  <2>4. gen_ids \in Seq(V) /\ Len(gen_ids) = decode + 1 /\ start \in Nat /\ RowsOf(l) = start + 1
    <3>1. Sized(gen_ids, decode + 1) /\ start \in Nat /\ layer = NLayers
      BY DEF RefInv, PhaseOK
    <3>2. RowsOf(l) = start + 1
      BY <3>1, Shape DEF RowsOf, Width
    <3> QED
      BY <3>1, <3>2, SizedDomain DEF ValueInv
  <2>5. i \in 1 .. RowsOf(l)
    BY <1>1, <2>1, <2>3, <2>4
  <2>6. past[l][i] = FreshRow(Value(l, RefText, i), i)
    BY <2>5 DEF ValueInv, FreshRows
  <2>7. Value(l, RefText, i) = Value(l, Prompt, i)
    <3> DEFINE s == PromptText(context)
               t == RefText
    <3>1. s \in Seq(V) /\ Len(s) = context /\ Prompt \in Seq(V) /\ context <= Len(Prompt)
      BY <1>1, PromptIn, Shape DEF SpeaksIn
    <3>2. \A k \in 1 .. context : s[k] = Prompt[k]
      BY <3>1, <1>1 DEF PromptText
    <3>3. t \in Seq(V) /\ context <= Len(t) /\ \A k \in 1 .. context : t[k] = s[k]
      <4>1. t = s \o gen_ids /\ gen_ids \in Seq(V)
        BY <2>3, <2>4
      <4> HIDE DEF s, t
      <4> QED
        BY <1>1, <3>1, <4>1
    <3> HIDE DEF s, t
    <3>4. Value(l, t, i) = Value(l, s, i)
      BY <1>1, <2>1, <3>1, <3>3, ValueOfPrefix
    <3>5. Value(l, Prompt, i) = Value(l, s, i)
      BY <1>1, <2>1, <3>1, <3>2, ValueOfPrefix
    <3> QED
      BY <3>4, <3>5 DEF t
  <2> QED
    BY <2>2, <2>6, <2>7
<1> QED
  BY <1>3, <1>4

LEMMA FleetCacheAt ==
  ASSUME RefInv
  PROVE  /\ max_pos \in Nat \ {0} /\ context <= max_pos /\ max_pos = context + decode
         /\ Sized(FleetCache, NLayers * max_pos)
         /\ \A l \in Layers, i \in 1 .. max_pos : FleetCache[l * max_pos + i] = FleetRow(l, i)
<1>1. max_pos \in Nat \ {0} /\ context <= max_pos /\ max_pos = context + decode
  BY Shape DEF RefInv, RefTypeOK, max_pos
<1>2. NLayers * max_pos \in Nat
  BY <1>1, Shape
<1>3. Sized(FleetCache, NLayers * max_pos)
  <2> DEFINE f == FleetCache
             n == NLayers * max_pos
  <2>1. f = [i \in 1 .. n |-> f[i]] /\ n \in Nat
    BY <1>2 DEF FleetCache
  <2> HIDE DEF f, n
  <2>2. Sized(f, n)
    BY <2>1, SizedFunction
  <2> QED
    BY <2>2 DEF f, n
<1>4. ASSUME NEW l \in Layers, NEW i \in 1 .. max_pos PROVE FleetCache[l * max_pos + i] = FleetRow(l, i)
  <2> DEFINE k == l * max_pos + i
  <2>1. l \in 0 .. NLayers - 1 /\ NLayers \in Nat
    BY Shape
  <2>2. k \in 1 .. NLayers * max_pos /\ (k - 1) \div max_pos = l /\ (k - 1) % max_pos = i - 1
    <3>1. /\ l * max_pos + i \in 1 .. NLayers * max_pos
          /\ (l * max_pos + i - 1) \div max_pos = l
          /\ (l * max_pos + i - 1) % max_pos = i - 1
      <4> DEFINE M == max_pos
      <4>1. M \in Nat \ {0} /\ i \in 1 .. M
        BY <1>1
      <4> HIDE DEF M
      <4>2. /\ l * M + i \in 1 .. NLayers * M
            /\ (l * M + i - 1) \div M = l
            /\ (l * M + i - 1) % M = i - 1
        BY <2>1, <4>1, RowIndex
      <4> QED
        BY <4>2, Zenon DEF M
    <3>2. k - 1 = l * max_pos + i - 1
      <4>1. l * max_pos \in Nat /\ i \in Nat
        BY <1>1, <2>1
      <4> QED
        BY <4>1
    <3> QED
      BY <3>1, <3>2
  <2> HIDE DEF k
  <2>3. FleetCache[k] = FleetRow((k - 1) \div max_pos, ((k - 1) % max_pos) + 1)
    BY <2>2 DEF FleetCache
  <2>4. (i - 1) + 1 = i
    BY <1>1
  <2>5. FleetCache[k] = FleetRow(l, i)
    BY <2>2, <2>3, <2>4
  <2> QED
    BY <2>5 DEF k
<1> QED
  BY <1>1, <1>3, <1>4

LEMMA Quotient ==
  ASSUME NEW n \in Nat, NEW K \in Nat \ {0}, NEW m \in Nat, n <= K * m
  PROVE  n \div K \in Nat /\ n \div K <= m /\ n \div K <= n
<1> DEFINE q == n \div K
<1>1. q \in Nat /\ q * K <= n
  OBVIOUS
<1> HIDE DEF q
<1>2. q <= n
  <2>1. q * K >= q
    BY <1>1
  <2> QED
    BY <1>1, <2>1
<1>3. q <= m
  <2> SUFFICES ASSUME q >= m + 1 PROVE FALSE
    BY <1>1
  <2>1. PICK e \in Nat : q = m + 1 + e
    <3>1. q - (m + 1) \in Nat
      BY <1>1
    <3>2. q = m + 1 + (q - (m + 1))
      BY <1>1
    <3> QED
      BY <3>1, <3>2
  <2>2. q * K = K * m + K + e * K /\ e * K >= 0 /\ K * m \in Nat
    BY <2>1
  <2> QED
    BY <1>1, <2>2
<1> QED
  BY <1>1, <1>2, <1>3 DEF q

\* Any beginning of the cache tells nothing false of the first layer.
LEMMA BeginningsSound ==
  ASSUME NEW V, SpeaksIn(V), RefInv, ValueInv(V), stage = "cache", NEW n \in 0 .. Len(FleetCache)
  PROVE  CacheSound(SubSeq(FleetCache, 1, n))
<1> DEFINE s == SubSeq(FleetCache, 1, n)
<1>1. /\ max_pos \in Nat \ {0} /\ Sized(FleetCache, NLayers * max_pos) /\ Len(FleetCache) = NLayers * max_pos
      /\ \A l \in Layers, i \in 1 .. max_pos : FleetCache[l * max_pos + i] = FleetRow(l, i)
  BY FleetCacheAt, SizedDomain
<1>2. n \in Nat /\ n \in 0 .. NLayers * max_pos /\ n <= NLayers * max_pos /\ NLayers \in Nat \ {0} /\ 0 \in Layers
  <2>1. NLayers * max_pos \in Nat
    BY <1>1, Shape
  <2> QED
    BY <1>1, <2>1, Shape
<1>3. Sized(s, n) /\ Len(s) = n
  BY <1>1, <1>2, SizedSub, SizedDomain
<1>4. \A i \in 1 .. n : s[i] = FleetCache[i]
  <2>1. s = [i \in 1 .. n |-> FleetCache[i]]
    BY <1>1, <1>2 DEF Sized
  <2> HIDE DEF s
  <2> QED
    BY <2>1
<1> HIDE DEF s
<1>5. ASSUME NEW i \in 1 .. n \div NLayers
      PROVE  s[i] \in {ZeroRow, FreshRow(Value(0, Prompt, i), i)}
  <2>1. n \div NLayers \in Nat /\ n \div NLayers <= max_pos /\ n \div NLayers <= n
    BY <1>1, <1>2, Quotient
  <2>2. i \in 1 .. max_pos /\ i \in 1 .. n /\ i \in Nat \ {0}
    BY <1>1, <1>2, <2>1
  <2>3. FleetCache[0 * max_pos + i] = FleetRow(0, i)
    BY <1>1, <1>2, <2>2
  <2>4. 0 * max_pos + i = i
    BY <1>1, <2>2
  <2>5. FleetRow(0, i) = IF i <= context THEN FreshRow(Value(0, Prompt, i), i) ELSE ZeroRow
    BY <1>2, <2>2, FleetRowOf
  <2>6. s[i] = FleetRow(0, i)
    BY <1>4, <2>2, <2>3, <2>4
  <2> QED
    BY <2>5, <2>6
<1>6. CacheSound(s)
  BY <1>3, <1>5 DEF CacheSound
<1> QED
  BY <1>6 DEF s

LEMMA WholeCacheOf ==
  ASSUME NEW V, SpeaksIn(V), RefInv, ValueInv(V), stage = "cache"
  PROVE  CacheSound(FleetCache) /\ CacheOf(FleetCache, context, decode)
<1>1. /\ max_pos \in Nat \ {0} /\ Sized(FleetCache, NLayers * max_pos) /\ Len(FleetCache) = NLayers * max_pos
      /\ max_pos = context + decode /\ context <= max_pos /\ context \in Nat \ {0}
      /\ \A l \in Layers, i \in 1 .. max_pos : FleetCache[l * max_pos + i] = FleetRow(l, i)
  BY FleetCacheAt, SizedDomain, Shape DEF RefInv, RefTypeOK
<1>2. CacheSound(FleetCache)
  <2> DEFINE n == NLayers * max_pos
             f == FleetCache
  <2>1. Sized(f, n) /\ Len(f) = n /\ n \in Nat
    BY <1>1, SizedDomain
  <2> HIDE DEF n, f
  <2>2. SubSeq(f, 1, n) = f
    BY <2>1 DEF Sized
  <2>3. CacheSound(SubSeq(f, 1, n))
    <3>1. n \in 0 .. Len(f)
      BY <2>1
    <3> QED
      BY <3>1, BeginningsSound DEF f
  <2> QED
    BY <2>2, <2>3 DEF f
<1>3. ASSUME NEW l \in Layers, NEW i \in 1 .. context
      PROVE  FleetCache[l * (context + decode) + i] = FreshRow(Value(l, Prompt, i), i)
  <2>1. i \in 1 .. max_pos /\ i \in Nat \ {0} /\ i <= context
    BY <1>1
  <2>2. FleetRow(l, i) = FreshRow(Value(l, Prompt, i), i)
    BY <2>1, FleetRowOf
  <2>3. FleetCache[l * max_pos + i] = FleetRow(l, i)
    BY <1>1, <2>1
  <2> QED
    BY <1>1, <2>2, <2>3
<1> QED
  BY <1>1, <1>2, <1>3 DEF CacheOf

LEMMA CacheWritten ==
  ASSUME NEW V, SpeaksIn(V), RefInv, ValueInv(V), CacheInv, WriteCache
  PROVE  CacheInv'
<1>1. stage = "cache" /\ context \in Contexts /\ decode \in Decodes
  BY DEF WriteCache, RefInv, RefTypeOK
<1>2. CASE cache_bin' = Written(FleetCache)
  <2>1. cache_bin'.data = FleetCache /\ cache_bin'.by = <<context, decode>>
    BY <1>2 DEF Written
  <2>2. CacheSound(FleetCache) /\ CacheOf(FleetCache, context, decode)
    BY <1>1, WholeCacheOf
  <2>3. CacheSound(cache_bin'.data) /\ CacheOf(cache_bin'.data, context, decode)
    BY <2>1, <2>2, Zenon
  <2>4. \E c \in Contexts, d \in Decodes : cache_bin'.by = <<c, d>> /\ CacheOf(cache_bin'.data, c, d)
    BY <1>1, <2>1, <2>3
  <2> QED
    BY <2>3, <2>4 DEF CacheInv
<1>3. CASE cache_bin' \in Beginnings(FleetCache)
  <2>1. PICK n \in 0 .. Len(FleetCache) - 1 : cache_bin' = [data |-> SubSeq(FleetCache, 1, n), by |-> Nobody]
    BY <1>3 DEF Beginnings
  <2>2. n \in 0 .. Len(FleetCache)
    <3>1. Len(FleetCache) \in Nat
      BY FleetCacheAt DEF Sized
    <3> QED
      BY <3>1
  <2>3. CacheSound(SubSeq(FleetCache, 1, n))
    BY <1>1, <2>2, BeginningsSound
  <2>4. CacheSound(cache_bin'.data) /\ cache_bin'.by = Nobody
    BY <2>1, <2>3
  <2> QED
    BY <2>4 DEF CacheInv
<1> QED
  BY <1>2, <1>3 DEF WriteCache

LEMMA TokensWritten ==
  ASSUME NEW V, RefInv, ValueInv(V), TokensInv(V), WriteTokens
  PROVE  TokensInv(V)'
<1>1. /\ stage = "tokens" /\ context \in Contexts /\ decode \in Decodes
      /\ gen_ids \in Seq(V) /\ Len(gen_ids) = decode + 1 /\ IsGreedy(context, gen_ids)
  BY SizedDomain DEF WriteTokens, RefInv, RefTypeOK, PhaseOK, ValueInv
<1> DEFINE W == V \cup {HalfToken}
<1>2. CASE golden_txt' = Written(gen_ids)
  <2>1. golden_txt'.data = gen_ids /\ golden_txt'.by = <<context, decode>>
    BY <1>2 DEF Written
  <2>2. gen_ids \in Seq(W) /\ TokensOf(V, gen_ids, context, decode)
    BY <1>1 DEF TokensOf
  <2>3. golden_txt'.data \in Seq(W) /\ TokensOf(V, golden_txt'.data, context, decode)
    BY <2>1, <2>2, Zenon
  <2>4. \E c \in Contexts, d \in Decodes :
          golden_txt'.by = <<c, d>> /\ TokensOf(V, golden_txt'.data, c, d)
    BY <1>1, <2>1, <2>3
  <2> QED
    BY <2>3, <2>4 DEF TokensInv
<1>3. CASE golden_txt' \in TornTokens(gen_ids)
  <2>1. golden_txt'.by = Nobody /\ golden_txt'.data \in Seq(W)
    <3>1. CASE golden_txt' \in Beginnings(gen_ids)
      <4>1. PICK n \in 0 .. Len(gen_ids) - 1 : golden_txt' = [data |-> SubSeq(gen_ids, 1, n), by |-> Nobody]
        BY <3>1 DEF Beginnings
      <4>2. SubSeq(gen_ids, 1, n) \in Seq(W)
        BY <1>1
      <4> QED
        BY <4>1, <4>2
    <3>2. CASE golden_txt' \in { [data |-> Append(SubSeq(gen_ids, 1, n - 1), HalfToken), by |-> Nobody]
                                   : n \in 1 .. Len(gen_ids) }
      <4>1. PICK n \in 1 .. Len(gen_ids) :
              golden_txt' = [data |-> Append(SubSeq(gen_ids, 1, n - 1), HalfToken), by |-> Nobody]
        BY <3>2
      <4>2. SubSeq(gen_ids, 1, n - 1) \in Seq(W)
        BY <1>1
      <4>3. Append(SubSeq(gen_ids, 1, n - 1), HalfToken) \in Seq(W)
        BY <4>2
      <4> QED
        BY <4>1, <4>3
    <3> QED
      BY <1>3, <3>1, <3>2 DEF TornTokens
  <2> QED
    BY <2>1 DEF TokensInv
<1> QED
  BY <1>2, <1>3 DEF WriteTokens

LEMMA HiddenWritten ==
  ASSUME NEW V, RefInv, ValueInv(V), HiddenInv, WriteHidden
  PROVE  HiddenInv'
<1> DEFINE data == [k \in 1 .. NLayers |-> hidden[k - 1]]
<1>1. stage = "hidden" /\ context \in Contexts /\ decode \in Decodes /\ DOMAIN hidden = Layers
  BY DEF WriteHidden, RefInv, RefTypeOK, PhaseOK, Gathered
<1>2. HiddenOf(data, context)
  <2>1. NLayers \in Nat /\ Layers = 0 .. NLayers - 1
    BY Shape
  <2>2. \A l \in Layers : data[l + 1] = hidden[l]
    BY <2>1
  <2>3. data = [k \in 1 .. NLayers |-> data[k]]
    OBVIOUS
  <2> HIDE DEF data
  <2>4. Sized(data, NLayers)
    BY <2>1, <2>3, SizedFunction
  <2>5. \A l \in Layers : hidden[l] = Value(l + 1, FirstText(context), context + 1)
    BY <1>1 DEF ValueInv
  <2> QED
    BY <2>2, <2>4, <2>5 DEF HiddenOf
<1>3. hidden_bin' \in {Written(data)} \cup Beginnings(data)
  BY DEF WriteHidden
<1> HIDE DEF data
<1>4. CASE hidden_bin' = Written(data)
  <2>1. hidden_bin'.data = data /\ hidden_bin'.by = <<context, decode>>
    BY <1>4 DEF Written
  <2>2. HiddenOf(hidden_bin'.data, context)
    BY <1>2, <2>1, Zenon
  <2>3. \E c \in Contexts, d \in Decodes : hidden_bin'.by = <<c, d>> /\ HiddenOf(hidden_bin'.data, c)
    BY <1>1, <2>1, <2>2
  <2> QED
    BY <2>3 DEF HiddenInv
<1>5. CASE hidden_bin' \in Beginnings(data)
  BY <1>5 DEF Beginnings, HiddenInv
<1> QED
  BY <1>3, <1>4, <1>5

FilesInv(V) == CacheInv /\ TokensInv(V) /\ HiddenInv

LEMMA FilesStay ==
  ASSUME NEW V, FilesInv(V), UNCHANGED files
  PROVE  FilesInv(V)'
BY DEF FilesInv, CacheInv, TokensInv, HiddenInv, files

LEMMA FilesKept ==
  ASSUME NEW V, SpeaksIn(V), RefInv, ValueInv(V), FilesInv(V), StartRef \/ RefStep \/ UNCHANGED refVars
  PROVE  FilesInv(V)'
<1>1. CASE UNCHANGED files
  BY <1>1, FilesStay
<1>2. CASE WriteCache
  <2>1. CacheInv'
    BY <1>2, CacheWritten DEF FilesInv
  <2>2. UNCHANGED <<golden_txt, hidden_bin>>
    BY <1>2 DEF WriteCache
  <2>3. TokensInv(V)' /\ HiddenInv'
    BY <2>2 DEF FilesInv, TokensInv, HiddenInv
  <2> QED
    BY <2>1, <2>3 DEF FilesInv
<1>3. CASE WriteTokens
  <2>1. TokensInv(V)'
    BY <1>3, TokensWritten DEF FilesInv
  <2>2. UNCHANGED <<cache_bin, hidden_bin>>
    BY <1>3 DEF WriteTokens
  <2>3. CacheInv' /\ HiddenInv'
    BY <2>2 DEF FilesInv, CacheInv, HiddenInv
  <2> QED
    BY <2>1, <2>3 DEF FilesInv
<1>4. CASE WriteHidden
  <2>1. HiddenInv'
    BY <1>4, HiddenWritten DEF FilesInv
  <2>2. UNCHANGED <<cache_bin, golden_txt>>
    BY <1>4 DEF WriteHidden
  <2>3. CacheInv' /\ TokensInv(V)'
    BY <2>2 DEF FilesInv, CacheInv, TokensInv
  <2> QED
    BY <2>1, <2>3 DEF FilesInv
<1>5. CASE UNCHANGED refVars
  BY <1>1, <1>5 DEF refVars, files
<1>6. CASE StartRef
  BY <1>1, <1>6 DEF StartRef, StartReference
<1>7. CASE RunLayer \/ EndPrefill \/ EndStep \/ ReferenceDies
  BY <1>1, <1>7 DEF RunLayer, EndPrefill, EndStep, ReferenceDies
<1> QED
  BY <1>2, <1>3, <1>4, <1>5, <1>6, <1>7 DEF RefStep

LEMMA FilesInit == ASSUME NEW V, RefInit PROVE FilesInv(V)
<1>1. cache_bin.data = << >> /\ cache_bin.by = Nobody /\ golden_txt.data = << >> /\ golden_txt.by = Nobody
      /\ hidden_bin.by = Nobody
  BY DEF RefInit, NoFile
<1>2. Sized(<< >>, Len(<< >>)) /\ Len(<< >>) = 0 /\ << >> \in Seq(V \cup {HalfToken})
  BY DEF Sized
<1>3. CacheSound(<< >>)
  <2>1. 0 \div NLayers = 0
    BY Shape
  <2> QED
    BY <1>2, <2>1 DEF CacheSound
<1> QED
  BY <1>1, <1>2, <1>3 DEF FilesInv, CacheInv, TokensInv, HiddenInv

-----------------------------------------------------------------------------
(* The launcher.                                                           *)

\* While the launcher is there, nothing writes its files.
LauncherAlone == lstage # "idle" => stage = "idle" /\ packing = "idle"

LEMMA OneToolAtATime ==
  ASSUME LauncherAlone, [Next]_vars
  PROVE  LauncherAlone' /\ (lstage # "idle" => UNCHANGED <<packerVars, refVars>>)
<1>1. CASE (StartPack \/ PackStep) /\ UNCHANGED <<refVars, launcherVars>>
  <2>1. lstage = "idle"
    <3>1. CASE StartPack
      BY <3>1 DEF StartPack, AllIdle
    <3>2. CASE PackStep
      <4>1. packing # "idle"
        BY <3>2 DEF PackStep, CloseBlob, WriteManifest, TearManifest, PackDies, Write
      <4> QED
        BY <4>1 DEF LauncherAlone
    <3> QED
      BY <1>1, <3>1, <3>2
  <2> QED
    BY <1>1, <2>1 DEF LauncherAlone, launcherVars
<1>2. CASE (StartRef \/ RefStep) /\ UNCHANGED <<packerVars, launcherVars>>
  <2>1. lstage = "idle"
    <3>1. CASE StartRef
      BY <3>1 DEF StartRef, AllIdle
    <3>2. CASE RefStep
      <4>1. stage # "idle"
        BY <3>2 DEF RefStep, RunLayer, EndPrefill, EndStep, WriteCache, WriteTokens, WriteHidden, ReferenceDies
      <4> QED
        BY <4>1 DEF LauncherAlone
    <3> QED
      BY <1>2, <3>1, <3>2
  <2> QED
    BY <1>2, <2>1 DEF LauncherAlone, launcherVars
<1>3. CASE ((\E o \in Options : StartLaunch(o)) \/ LauncherStep) /\ UNCHANGED <<packerVars, refVars>>
  <2>1. stage = "idle" /\ packing = "idle"
    <3>1. CASE \E o \in Options : StartLaunch(o)
      BY <3>1 DEF StartLaunch, AllIdle
    <3>2. CASE LauncherStep
      <4>1. lstage # "idle"
        BY <3>2 DEF LauncherStep, DecodeToken, NextLaunch, NextRepeat, RunDone, Report, LaunchAborts, LauncherGone
      <4> QED
        BY <4>1 DEF LauncherAlone
    <3> QED
      BY <1>3, <3>1, <3>2
  <2> QED
    BY <1>3, <2>1 DEF LauncherAlone, packerVars, refVars
<1>4. CASE UNCHANGED vars
  BY <1>4 DEF vars, packerVars, refVars, launcherVars, LauncherAlone
<1> QED
  BY <1>1, <1>2, <1>3, <1>4 DEF Next

\* The tokens decoded in this repeat.
Done == i0 + tok

\* The launcher decodes, or has compared what it decoded.
Under == lstage = "decode" \/ (lstage = "exit" /\ code \in {0, 3})

\* Its buffers, once it has started.
Fits ==
  Under => /\ opts \in Options /\ RowsFit /\ opts.context + opts.tokens <= kv_max_pos
           /\ DOMAIN token_in = 1 .. opts.tokens + 1
           /\ Done \in 0 .. opts.tokens /\ 1 .. Done \subseteq DOMAIN token_out
           /\ token_in[1] = golden[1]
           /\ opts.teacher => \A j \in 1 .. opts.tokens : token_in[j] = golden[j]

LEMMA DecodeNumbers ==
  ASSUME LaunchOK, lstage = "decode"
  PROVE  /\ opts \in Options /\ opts.context \in Contexts /\ opts.context \in Nat \ {0}
         /\ opts.tokens \in Nat \ {0} /\ opts.per_launch \in Nat \ {0} /\ opts.repeat \in Nat \ {0}
         /\ i0 \in Nat /\ tok \in Nat /\ run \in Nat /\ run < opts.repeat
         /\ Done \in 0 .. opts.tokens
         /\ tok < LaunchSize => Done < opts.tokens
         /\ RunDone => Done = opts.tokens
         /\ NextLaunch => Done' = Done
<1>1. /\ opts \in Options /\ i0 \in Nat /\ i0 < opts.tokens /\ tok \in Nat /\ tok <= LaunchSize
      /\ run \in 0 .. opts.repeat - 1
  BY OptionsNumbers DEF LaunchOK
<1>2. /\ opts.tokens \in Nat \ {0} /\ opts.per_launch \in Nat \ {0} /\ opts.repeat \in Nat \ {0}
      /\ opts.context \in Contexts
  BY <1>1, OptionsNumbers DEF Options
<1>3. opts.context \in Nat \ {0}
  BY <1>2, Shape
<1>4. LaunchSize = IF opts.per_launch < opts.tokens - i0 THEN opts.per_launch ELSE opts.tokens - i0
  BY DEF LaunchSize
<1>5. Done \in 0 .. opts.tokens /\ (tok < LaunchSize => Done < opts.tokens)
  BY <1>1, <1>2, <1>4 DEF Done
<1>6. RunDone => Done = opts.tokens
  BY <1>1, <1>2, <1>4 DEF Done, RunDone
<1>7. NextLaunch => Done' = Done
  BY <1>1, <1>2, <1>4 DEF Done, NextLaunch
<1> QED
  BY <1>1, <1>2, <1>3, <1>5, <1>6, <1>7

\* What is tested before the first launch is enough for the buffers.
LEMMA StartFits ==
  ASSUME LaunchOK, CacheInv, NEW o \in Options, StartLaunch(o), ~Refused(o), UNCHANGED refVars
  PROVE  /\ Fits' /\ opts' = o /\ Done' = 0
         /\ rows' = cache_bin.data /\ kv_max_pos' = kv_max_pos /\ o.context \in 1 .. kv_max_pos
         /\ \A l \in Layers, q \in 0 .. kv_max_pos - 1 : RowAt(l, q)' = RowAt(l, q)
<1>1. /\ lstage = "idle" /\ lstage' = "decode" /\ opts' = o /\ rows' = cache_bin.data
      /\ token_in' = Inputs(o) /\ i0' = i0 /\ tok' = tok
  BY DEF StartLaunch, AllIdle
<1>3. i0 = 0 /\ tok = 0
  BY <1>1 DEF LaunchOK
<1>4. o.context \in Nat \ {0} /\ o.tokens \in Nat \ {0}
  BY OptionsNumbers, Shape DEF Options
<1>5. Sized(cache_bin.data, Len(cache_bin.data)) /\ NLayers \in Nat \ {0}
  BY Shape DEF CacheInv, CacheSound
<1> DEFINE n == Len(cache_bin.data)
<1>6. /\ n \in Nat /\ DOMAIN cache_bin.data = 1 .. n
      /\ kv_max_pos = n \div NLayers /\ kv_max_pos \in Nat /\ n = NLayers * kv_max_pos
  <2>1. n \in Nat /\ DOMAIN cache_bin.data = 1 .. n
    BY <1>5, SizedDomain
  <2>2. kv_max_pos = n \div NLayers
    BY DEF kv_max_pos
  <2>3. ~ (n % NLayers # 0)
    BY Zenon DEF Refused
  <2> HIDE DEF n
  <2>4. n \div NLayers \in Nat
    BY <1>5, <2>1
  <2>5. n = NLayers * (n \div NLayers)
    <3> DEFINE K == NLayers
    <3>1. K \in Nat \ {0}
      BY <1>5
    <3> HIDE DEF K
    <3>2. n = K * (n \div K) + (n % K)
      BY <2>1, <3>1
    <3> QED
      BY <1>5, <2>1, <2>3, <2>4, <3>2 DEF K
  <2> QED
    BY <2>1, <2>2, <2>4, <2>5
<1>2. o.context + o.tokens <= kv_max_pos /\ kv_max_pos \in Nat \ {0}
  <2>1. ~ (o.context + o.tokens > kv_max_pos)
    BY Zenon DEF Refused
  <2> QED
    BY <1>4, <1>6, <2>1
<1> HIDE DEF n
<1>7. cache_bin' = cache_bin /\ golden_txt' = golden_txt
  BY DEF refVars
<1>8. kv_max_pos' = kv_max_pos /\ golden' = golden
  BY <1>7 DEF kv_max_pos, golden
<1>9. RowsFit'
  BY <1>1, <1>2, <1>6, <1>7, <1>8 DEF RowsFit, n
<1>10. /\ DOMAIN token_in' = 1 .. o.tokens + 1 /\ token_in'[1] = golden[1]
       /\ o.teacher => \A j \in 1 .. o.tokens : token_in'[j] = golden[j]
  BY <1>1, <1>4 DEF Inputs
<1>11. Done' = 0
  BY <1>1, <1>3 DEF Done
<1>12. Fits'
  <2>1. opts' = o /\ o \in Options
    BY <1>1
  <2>2. opts'.context + opts'.tokens <= kv_max_pos' /\ DOMAIN token_in' = 1 .. opts'.tokens + 1
    BY <1>2, <1>8, <1>10, <2>1
  <2>3. Done' \in 0 .. opts'.tokens
    BY <1>4, <1>11, <2>1
  <2>4. token_in'[1] = golden'[1] /\ (opts'.teacher => \A j \in 1 .. opts'.tokens : token_in'[j] = golden'[j])
    BY <1>8, <1>10, <2>1
  <2> QED
    BY <1>9, <1>11, <2>1, <2>2, <2>3, <2>4 DEF Fits
<1>13. \A l, q : RowAt(l, q)' = RowAt(l, q)
  BY <1>8 DEF RowAt
<1>14. o.context \in 1 .. kv_max_pos
  BY <1>2, <1>4
<1> QED
  BY <1>1, <1>8, <1>11, <1>12, <1>13, <1>14

\* Steps of the launcher keep its buffers in shape.
LEMMA StepFits ==
  ASSUME LaunchOK, Fits, LauncherStep, UNCHANGED refVars
  PROVE  Fits'
<1>1. kv_max_pos' = kv_max_pos /\ golden' = golden /\ cache_bin' = cache_bin
  BY DEF refVars, kv_max_pos, golden
<1>2. (DOMAIN rows' = DOMAIN rows /\ RowsFit) => RowsFit'
  BY <1>1 DEF RowsFit
<1>3. CASE DecodeToken
  <2>1. /\ lstage = "decode" /\ lstage' = "decode" /\ tok < LaunchSize /\ DOMAIN rows' = DOMAIN rows
        /\ opts' = opts /\ i0' = i0 /\ tok' = tok + 1
        /\ token_in' = IF opts.teacher THEN token_in
                       ELSE [token_in EXCEPT ![(i0 + tok + 1) + 1] = NextToken(HiddenAt(token_in[i0 + tok + 1], Position(i0, tok))[NLayers])]
    BY <1>3 DEF DecodeToken
  <2>2. Done' \in 0 .. opts.tokens /\ i0 + tok + 1 # 0 /\ i0 \in Nat /\ tok \in Nat
    BY <2>1, DecodeNumbers DEF Done
  <2>3. DOMAIN token_in' = DOMAIN token_in /\ token_in'[1] = token_in[1]
        /\ (opts.teacher => token_in' = token_in)
    <3> HIDE DEF NextToken
    <3> QED
      BY <2>1, <2>2
  <2>4. Under /\ Under'
    BY <2>1 DEF Under
  <2>5. 1 .. Done' \subseteq DOMAIN token_out'
    <3>1. DOMAIN token_out' = DOMAIN token_out \cup {i0 + tok + 1}
      BY <1>3 DEF DecodeToken
    <3>2. Done' = Done + 1 /\ Done \in Nat /\ 1 .. Done \subseteq DOMAIN token_out /\ i0 + tok + 1 = Done + 1
      BY <2>1, <2>2, <2>4 DEF Done, Fits
    <3> QED
      BY <3>1, <3>2
  <2> QED
    BY <1>1, <1>2, <2>1, <2>2, <2>3, <2>4, <2>5 DEF Fits
<1>4. CASE NextLaunch
  <2>1. /\ lstage = "decode" /\ Done' = Done /\ UNCHANGED <<lstage, opts, rows, token_in, token_out>>
    BY <1>4, DecodeNumbers DEF NextLaunch
  <2> QED
    BY <1>1, <1>2, <2>1 DEF Fits, Under
<1>5. CASE NextRepeat
  <2>1. /\ lstage = "decode" /\ i0' = 0 /\ tok' = 0 /\ UNCHANGED <<lstage, opts, rows>>
        /\ token_in' = Inputs(opts)
    BY <1>5 DEF NextRepeat, RunDone
  <2>2. opts.tokens \in Nat \ {0} /\ Done' = 0
    BY <2>1, DecodeNumbers DEF Done
  <2>3. /\ DOMAIN token_in' = 1 .. opts.tokens + 1 /\ token_in'[1] = golden[1]
        /\ opts.teacher => \A j \in 1 .. opts.tokens : token_in'[j] = golden[j]
    BY <2>1, <2>2 DEF Inputs
  <2>4. Under /\ Under'
    BY <2>1 DEF Under
  <2> QED
    BY <1>1, <1>2, <2>1, <2>2, <2>3, <2>4 DEF Fits
<1>6. CASE Report
  <2>1. lstage = "decode" /\ UNCHANGED <<opts, rows, token_in, token_out, i0, tok>>
    BY <1>6 DEF Report, RunDone
  <2> QED
    BY <1>1, <1>2, <2>1 DEF Fits, Under, Done
<1>7. CASE LaunchAborts \/ LauncherGone
  BY <1>7 DEF LaunchAborts, LauncherGone, Fits, Under
<1> QED
  BY <1>3, <1>4, <1>5, <1>6, <1>7 DEF LauncherStep

\* Where the next token goes, and what it is computed from.
Here == opts.context + Done
States == HiddenAt(token_in[Done + 1], Here)
Best == NextToken(States[NLayers])

LEMMA TokenStep ==
  ASSUME LaunchOK, Fits, DecodeToken, UNCHANGED refVars
  PROVE  /\ lstage = "decode" /\ lstage' = lstage /\ opts' = opts /\ readable' = readable /\ run' = run
         /\ Done \in Nat /\ Done + 1 <= opts.tokens /\ Done' = Done + 1
         /\ RowsFit /\ Here \in 0 .. kv_max_pos - 1 /\ Here \in Nat /\ opts.context \in Nat \ {0}
         /\ \A l \in Layers : rows'[RowAt(l, Here)] = FreshRow(States[l], Here + 1)
         /\ \A l \in Layers, q \in 0 .. kv_max_pos - 1 :
              q # Here => rows'[RowAt(l, q)] = rows[RowAt(l, q)]
         /\ \A l, q : RowAt(l, q)' = RowAt(l, q)
         /\ token_out'[Done + 1] = Best /\ \A j \in 1 .. Done : token_out'[j] = token_out[j]
         /\ \A j \in 1 .. Done + 1 : token_in'[j] = token_in[j]
         /\ IF opts.teacher THEN token_in' = token_in ELSE token_in'[Done + 2] = Best
         /\ dump' = IF Done = 0 /\ run = opts.repeat - 1 THEN [l \in Layers |-> States[l + 1]] ELSE dump
<1>1. /\ lstage = "decode" /\ tok < LaunchSize /\ tok' = tok + 1
      /\ UNCHANGED <<lstage, opts, readable, i0, run>>
  BY DEF DecodeToken
<1>2. /\ opts.context \in Nat \ {0} /\ opts.tokens \in Nat \ {0} /\ i0 \in Nat /\ tok \in Nat
      /\ Done \in 0 .. opts.tokens /\ Done < opts.tokens
  BY <1>1, DecodeNumbers
<1>3. /\ RowsFit /\ opts.context + opts.tokens <= kv_max_pos /\ kv_max_pos \in Nat \ {0}
      /\ DOMAIN token_in = 1 .. opts.tokens + 1 /\ 1 .. Done \subseteq DOMAIN token_out
  BY <1>1 DEF Fits, Under, RowsFit
<1>4. Done \in Nat /\ Done + 1 <= opts.tokens /\ Here \in Nat /\ Here \in 0 .. kv_max_pos - 1
  BY <1>2, <1>3 DEF Here
<1>5. i0 + tok + 1 = Done + 1 /\ Position(i0, tok) = Here /\ Done' = Done + 1 /\ (Done = 0 <=> tok = 0 /\ i0 = 0)
  BY <1>1, <1>2 DEF Done, Position, Here
<1>6. States = HiddenAt(token_in[i0 + tok + 1], Position(i0, tok))
  BY <1>5 DEF States
<1>7. /\ rows' = [k \in DOMAIN rows |->
                    IF \E l \in Layers : k = RowAt(l, Here)
                    THEN OwnRow(States[(k - 1) \div kv_max_pos], Here) ELSE rows[k]]
      /\ token_out' = [j \in DOMAIN token_out \cup {Done + 1} |-> IF j = Done + 1 THEN Best ELSE token_out[j]]
      /\ token_in' = IF opts.teacher THEN token_in ELSE [token_in EXCEPT ![(Done + 1) + 1] = Best]
      /\ dump' = IF tok = 0 /\ i0 = 0 /\ run = opts.repeat - 1 THEN [l \in Layers |-> States[l + 1]] ELSE dump
  BY <1>5, <1>6 DEF DecodeToken, Best
<1>8. /\ \A l \in Layers : rows'[RowAt(l, Here)] = FreshRow(States[l], Here + 1)
      /\ \A l \in Layers, q \in 0 .. kv_max_pos - 1 :
           q # Here => rows'[RowAt(l, q)] = rows[RowAt(l, q)]
  <2> DEFINE p == Here
             h == States
             after == rows'
  <2>1. p \in 0 .. kv_max_pos - 1 /\ RowsFit
        /\ after = [k \in DOMAIN rows |->
                    IF \E l \in Layers : k = RowAt(l, p)
                    THEN OwnRow(h[(k - 1) \div kv_max_pos], p) ELSE rows[k]]
    BY <1>3, <1>4, <1>7, Zenon
  <2> HIDE DEF p, h, after
  <2>2. /\ \A l \in Layers : after[RowAt(l, p)] = FreshRow(h[l], p + 1)
        /\ \A l \in Layers, q \in 0 .. kv_max_pos - 1 :
             q # p => after[RowAt(l, q)] = rows[RowAt(l, q)]
    BY <2>1, RowsWritten
  <2> QED
    BY <2>2 DEF p, h, after
<1>9. token_out'[Done + 1] = Best /\ \A j \in 1 .. Done : token_out'[j] = token_out[j]
  <2> DEFINE b == Best
             new == token_out'
  <2>1. new = [j \in DOMAIN token_out \cup {Done + 1} |-> IF j = Done + 1 THEN b ELSE token_out[j]]
    BY <1>7
  <2> HIDE DEF b, new
  <2>2. new[Done + 1] = b /\ \A j \in 1 .. Done : new[j] = token_out[j]
    BY <1>3, <1>4, <2>1
  <2> QED
    BY <2>2 DEF b, new
<1>10. /\ \A j \in 1 .. Done + 1 : token_in'[j] = token_in[j]
       /\ IF opts.teacher THEN token_in' = token_in ELSE token_in'[Done + 2] = Best
  <2> DEFINE b == Best
             new == token_in'
  <2>1. new = IF opts.teacher THEN token_in ELSE [token_in EXCEPT ![(Done + 1) + 1] = b]
    BY <1>7
  <2> HIDE DEF b, new
  <2>2. /\ \A j \in 1 .. Done + 1 : new[j] = token_in[j]
        /\ IF opts.teacher THEN new = token_in ELSE new[Done + 2] = b
    <3>1. CASE opts.teacher
      BY <2>1, <3>1, Zenon
    <3>2. CASE ~opts.teacher
      <4>1. new = [token_in EXCEPT ![(Done + 1) + 1] = b]
        BY <2>1, <3>2, Zenon
      <4> DEFINE i == (Done + 1) + 1
      <4>2. i = Done + 2 /\ i \in DOMAIN token_in /\ \A j \in 1 .. Done + 1 : j \in DOMAIN token_in /\ j # i
        BY <1>2, <1>3, <1>4
      <4> HIDE DEF i
      <4>3. \A j \in 1 .. Done + 1 : new[j] = token_in[j]
        BY <4>1, <4>2 DEF i
      <4>4. new[i] = b
        BY <4>1, <4>2 DEF i
      <4> QED
        BY <3>2, <4>2, <4>3, <4>4, Zenon
    <3> QED
      BY <3>1, <3>2
  <2> QED
    BY <2>2 DEF b, new
<1>11. dump' = IF Done = 0 /\ run = opts.repeat - 1 THEN [l \in Layers |-> States[l + 1]] ELSE dump
  BY <1>5, <1>7, Zenon
<1>12. \A l, q : RowAt(l, q)' = RowAt(l, q)
  <2>1. kv_max_pos' = kv_max_pos
    BY DEF kv_max_pos, refVars
  <2> QED
    BY <2>1 DEF RowAt
<1> QED
  BY <1>1, <1>2, <1>3, <1>4, <1>5, <1>8, <1>9, <1>10, <1>11, <1>12

\* The prompt and the first n tokens fed.
Fed(n) ==
  [k \in 1 .. opts.context + n |-> IF k <= opts.context THEN Prompt[k] ELSE token_in[k - opts.context]]

\* The rows below the first layer are the text's or nobody's; each token is the
\* model's choice after the text or what comes of garbage; without a teacher it
\* is fed next; and success means that the reference has the same tokens.
SoundRows ==
  \A q \in 1 .. opts.context + Done :
    rows[RowAt(0, q - 1)] \in {ZeroRow, FreshRow(Value(0, Fed(Done), q), q)}
SoundTokens == \A j \in 1 .. Done : token_out[j] \in {Junk, Greedy(Fed(j))}
OwnInputs == ~opts.teacher => \A j \in 1 .. Done : token_in[j + 1] = token_out[j]
Agreed ==
  lstage = "exit" /\ code = 0 =>
    Done = opts.tokens /\ \A j \in 1 .. opts.tokens : j + 1 <= Len(golden) /\ token_out[j] = golden[j + 1]
SoundInv == (Under => SoundRows /\ SoundTokens /\ OwnInputs) /\ Agreed

LEMMA FedText ==
  ASSUME opts.context \in Nat, NEW n \in Nat
  PROVE  /\ Sized(Fed(n), opts.context + n)
         /\ \A k \in 1 .. opts.context : Fed(n)[k] = Prompt[k]
         /\ \A j \in 1 .. n : Fed(n)[opts.context + j] = token_in[j]
<1> DEFINE f == Fed(n)
           m == opts.context + n
<1>1. m \in Nat /\ f = [k \in 1 .. m |-> IF k <= opts.context THEN Prompt[k] ELSE token_in[k - opts.context]]
  BY DEF Fed
<1>2. f = [k \in 1 .. m |-> f[k]]
  BY DEF Fed
<1> HIDE DEF f
<1>3. Sized(f, m)
  <2> HIDE DEF m
  <2> QED
    BY <1>1, <1>2, SizedFunction
<1>4. \A k \in 1 .. opts.context : f[k] = Prompt[k]
  BY <1>1
<1>5. \A j \in 1 .. n : f[opts.context + j] = token_in[j]
  <2> SUFFICES ASSUME NEW j \in 1 .. n PROVE f[opts.context + j] = token_in[j]
    OBVIOUS
  <2>1. opts.context + j \in 1 .. m /\ ~ (opts.context + j <= opts.context) /\ (opts.context + j) - opts.context = j
    OBVIOUS
  <2> QED
    BY <1>1, <2>1
<1> QED
  BY <1>3, <1>4, <1>5 DEF f, m

LEMMA FedSame ==
  ASSUME opts.context \in Nat, NEW n \in Nat, opts' = opts, \A j \in 1 .. n : token_in'[j] = token_in[j]
  PROVE  Fed(n)' = Fed(n)
<1> DEFINE c == opts.context
           g == token_in
           h == token_in'
<1>1. \A k \in 1 .. c + n : ~ (k <= c) => g[k - c] = h[k - c]
  <2> SUFFICES ASSUME NEW k \in 1 .. c + n, ~ (k <= c) PROVE g[k - c] = h[k - c]
    OBVIOUS
  <2>1. k - c \in 1 .. n
    OBVIOUS
  <2> QED
    BY <2>1
<1>2. Fed(n) = [k \in 1 .. c + n |-> IF k <= c THEN Prompt[k] ELSE g[k - c]]
  BY DEF Fed
<1>3. Fed(n)' = [k \in 1 .. c + n |-> IF k <= c THEN Prompt[k] ELSE h[k - c]]
  BY DEF Fed
<1> HIDE DEF c, g, h
<1> QED
  BY <1>1, <1>2, <1>3

LEMMA FedNow ==
  ASSUME opts.context \in Nat, NEW n \in Nat, opts' = opts, Done' = n,
         \A j \in 1 .. n : token_in'[j] = token_in[j]
  PROVE  Fed(Done)' = Fed(n)
<1> DEFINE c == opts.context
           h == token_in'
           m == Done'
<1>1. Fed(n)' = [k \in 1 .. c + n |-> IF k <= c THEN Prompt[k] ELSE h[k - c]]
  BY DEF Fed
<1>2. Fed(Done)' = [k \in 1 .. c + m |-> IF k <= c THEN Prompt[k] ELSE h[k - c]]
  BY DEF Fed
<1>3. m = n
  OBVIOUS
<1>4. Fed(n)' = Fed(n)
  BY FedSame
<1> HIDE DEF c, h, m
<1> QED
  BY <1>1, <1>2, <1>3, <1>4

LEMMA FirstValue == ASSUME NEW s, NEW t, NEW q, s[q] = t[q] PROVE Value(0, s, q) = Value(0, t, q)
BY DEF Value

\* A token is what the text fed so far calls for, or junk.
LEMMA TokenSound ==
  ASSUME LaunchOK, Fits, SoundInv, DecodeToken, UNCHANGED refVars
  PROVE  SoundInv'
<1> DEFINE T == Fed(Done + 1)
           c == opts.context
<1>1. /\ lstage = "decode" /\ lstage' = lstage /\ opts' = opts
      /\ Done \in Nat /\ Done + 1 <= opts.tokens /\ Done' = Done + 1
      /\ RowsFit /\ Here \in 0 .. kv_max_pos - 1 /\ Here \in Nat /\ c \in Nat \ {0}
      /\ \A l \in Layers : rows'[RowAt(l, Here)] = FreshRow(States[l], Here + 1)
      /\ \A l \in Layers, q \in 0 .. kv_max_pos - 1 :
           q # Here => rows'[RowAt(l, q)] = rows[RowAt(l, q)]
      /\ \A l, q : RowAt(l, q)' = RowAt(l, q)
      /\ token_out'[Done + 1] = Best /\ \A j \in 1 .. Done : token_out'[j] = token_out[j]
      /\ \A j \in 1 .. Done + 1 : token_in'[j] = token_in[j]
      /\ IF opts.teacher THEN token_in' = token_in ELSE token_in'[Done + 2] = Best
  BY TokenStep
<1>2. Under /\ Here = c + Done /\ Here + 1 = c + (Done + 1)
  BY <1>1 DEF Under, Here
<1>3. SoundRows /\ SoundTokens /\ OwnInputs
  BY <1>2 DEF SoundInv
<1>4. /\ Sized(T, Here + 1) /\ T[Here + 1] = token_in[Done + 1]
      /\ \A q \in 1 .. Here : T[q] = Fed(Done)[q]
  <2>1. Sized(T, c + (Done + 1)) /\ (\A k \in 1 .. c : T[k] = Prompt[k])
        /\ \A j \in 1 .. Done + 1 : T[c + j] = token_in[j]
    BY <1>1, FedText
  <2>2. (\A k \in 1 .. c : Fed(Done)[k] = Prompt[k]) /\ \A j \in 1 .. Done : Fed(Done)[c + j] = token_in[j]
    BY <1>1, FedText
  <2> HIDE DEF T, c
  <2>3. ASSUME NEW q \in 1 .. Here PROVE T[q] = Fed(Done)[q]
    <3>1. CASE q <= c
      BY <1>1, <2>1, <2>2, <3>1
    <3>2. CASE q > c
      <4>1. q - c \in 1 .. Done /\ q - c \in 1 .. Done + 1 /\ c + (q - c) = q
        BY <1>1, <1>2, <3>2
      <4> QED
        BY <2>1, <2>2, <4>1
    <3> QED
      BY <1>1, <3>1, <3>2
  <2>4. Done + 1 \in 1 .. Done + 1
    BY <1>1
  <2> QED
    BY <1>2, <2>1, <2>3, <2>4
<1> HIDE DEF T
<1>5. \A q \in 1 .. Here : rows[RowAt(0, q - 1)] \in {ZeroRow, FreshRow(Value(0, T, q), q)}
  <2> SUFFICES ASSUME NEW q \in 1 .. Here
               PROVE  rows[RowAt(0, q - 1)] \in {ZeroRow, FreshRow(Value(0, T, q), q)}
    OBVIOUS
  <2>1. rows[RowAt(0, q - 1)] \in {ZeroRow, FreshRow(Value(0, Fed(Done), q), q)}
    BY <1>2, <1>3 DEF SoundRows
  <2>2. Value(0, Fed(Done), q) = Value(0, T, q)
    BY <1>4, FirstValue
  <2> QED
    BY <2>1, <2>2
<1>6. PICK S : T \in Seq(S) /\ Len(T) = Here + 1
  BY <1>4 DEF Sized
<1>7. Best \in {Junk, Greedy(T)}
  <2> DEFINE p == Here
  <2>1. NextToken(HiddenAt(T[p + 1], p)[NLayers]) \in {Junk, Greedy(SubSeq(T, 1, p + 1))}
    <3>1. p \in Nat /\ p + 1 <= Len(T)
          /\ \A i \in 1 .. p : rows[RowAt(0, i - 1)] \in {ZeroRow, FreshRow(Value(0, T, i), i)}
      BY <1>1, <1>5, <1>6
    <3> HIDE DEF p
    <3> QED
      BY <1>6, <3>1, HiddenSound
  <2>2. SubSeq(T, 1, p + 1) = T
    BY <1>1, <1>6
  <2>3. HiddenAt(T[p + 1], p) = States
    BY <1>4, Zenon DEF States
  <2> QED
    BY <2>1, <2>2, <2>3 DEF Best
<1>8. \A j \in 0 .. Done + 1 : Fed(j)' = Fed(j)
  <2> SUFFICES ASSUME NEW j \in 0 .. Done + 1 PROVE Fed(j)' = Fed(j)
    OBVIOUS
  <2>1. j \in Nat /\ \A k \in 1 .. j : token_in'[k] = token_in[k]
    BY <1>1
  <2> QED
    BY <1>1, <2>1, FedSame
<1>9. SoundTokens'
  <2> SUFFICES ASSUME NEW j \in 1 .. Done + 1 PROVE token_out'[j] \in {Junk, Greedy(Fed(j))}
    BY <1>1, <1>8 DEF SoundTokens
  <2>1. CASE j \in 1 .. Done
    BY <1>1, <1>3, <2>1 DEF SoundTokens
  <2>2. CASE j = Done + 1
    BY <1>1, <1>7, <2>2 DEF T
  <2> QED
    BY <1>1, <2>1, <2>2
<1>10. SoundRows'
  <2>1. \A q \in 1 .. Here + 1 : rows'[RowAt(0, q - 1)] \in {ZeroRow, FreshRow(Value(0, T, q), q)}
    <3> SUFFICES ASSUME NEW q \in 1 .. Here + 1
                 PROVE  rows'[RowAt(0, q - 1)] \in {ZeroRow, FreshRow(Value(0, T, q), q)}
      OBVIOUS
    <3>0. 0 \in Layers
      BY Shape
    <3>1. CASE q \in 1 .. Here
      <4>1. q - 1 \in 0 .. kv_max_pos - 1 /\ q - 1 # Here
        BY <1>1, <3>1 DEF RowsFit
      <4>2. rows'[RowAt(0, q - 1)] = rows[RowAt(0, q - 1)]
        BY <1>1, <3>0, <4>1
      <4> QED
        BY <1>5, <3>1, <4>2
    <3>2. CASE q = Here + 1
      <4>1. States[0] = Value(0, T, Here + 1)
        BY <1>4, HiddenSteps, EmbedIsValue DEF States
      <4>2. q - 1 = Here
        BY <1>1, <3>2
      <4>3. rows'[RowAt(0, q - 1)] = FreshRow(Value(0, T, q), q)
        BY <1>1, <3>0, <3>2, <4>1, <4>2
      <4> QED
        BY <4>3
    <3> QED
      BY <1>1, <3>1, <3>2
  <2>2. Fed(Done)' = T
    <3> DEFINE n == Done + 1
    <3>1. n \in Nat /\ Done' = n /\ \A j \in 1 .. n : token_in'[j] = token_in[j]
      BY <1>1
    <3> HIDE DEF n
    <3>2. Fed(Done)' = Fed(n)
      BY <1>1, <3>1, FedNow
    <3> QED
      BY <3>2 DEF n, T
  <2>3. opts'.context + Done' = Here + 1
    BY <1>1, <1>2
  <2> QED
    BY <1>1, <2>1, <2>2, <2>3 DEF SoundRows
<1>11. OwnInputs'
  <2> SUFFICES ASSUME ~opts.teacher, NEW j \in 1 .. Done + 1 PROVE token_in'[j + 1] = token_out'[j]
    BY <1>1 DEF OwnInputs
  <2>1. token_in'[Done + 2] = Best
    BY <1>1, Zenon
  <2>2. CASE j \in 1 .. Done
    <3>1. j + 1 \in 1 .. Done + 1
      BY <1>1, <2>2
    <3>2. token_in[j + 1] = token_out[j]
      BY <1>3, <2>2 DEF OwnInputs
    <3> QED
      BY <1>1, <2>2, <3>1, <3>2
  <2>3. CASE j = Done + 1
    <3>1. j + 1 = Done + 2
      BY <1>1, <2>3
    <3> QED
      BY <1>1, <2>1, <2>3, <3>1
  <2> QED
    BY <1>1, <2>2, <2>3
<1>12. Agreed'
  BY <1>1 DEF Agreed
<1> QED
  BY <1>9, <1>10, <1>11, <1>12 DEF SoundInv

\* A launch begins with the rows of the file, and a repeat with those of the last one.
LEMMA StartSound ==
  ASSUME LaunchOK, CacheInv, NEW o \in Options, StartLaunch(o), UNCHANGED refVars
  PROVE  SoundInv'
<1>1. CASE Refused(o)
  <2>1. lstage' = "exit" /\ code' = 1
    BY <1>1 DEF StartLaunch
  <2> QED
    BY <2>1 DEF SoundInv, Under, Agreed
<1>2. CASE ~Refused(o)
  <2>1. /\ opts' = o /\ Done' = 0 /\ rows' = cache_bin.data /\ kv_max_pos' = kv_max_pos
        /\ o.context \in 1 .. kv_max_pos /\ lstage' = "decode" /\ Fits'
        /\ \A l \in Layers, q \in 0 .. kv_max_pos - 1 : RowAt(l, q)' = RowAt(l, q)
    BY <1>2, StartFits DEF StartLaunch
  <2>2. kv_max_pos \in Nat /\ o.context \in Nat /\ 0 \in Layers
    <3>1. RowsFit'
      BY <2>1 DEF Fits, Under
    <3> QED
      BY <2>1, <3>1, OptionsNumbers, Shape DEF RowsFit, Options
  <2>3. ASSUME NEW q \in 1 .. o.context
        PROVE  rows'[RowAt(0, q - 1)'] \in {ZeroRow, FreshRow(Value(0, Fed(Done)', q), q)}
    <3>1. q \in 1 .. kv_max_pos /\ q - 1 \in 0 .. kv_max_pos - 1
      BY <2>1, <2>2
    <3>2. RowAt(0, q - 1) = q
      BY <2>2, <3>1 DEF RowAt
    <3>3. cache_bin.data[q] \in {ZeroRow, FreshRow(Value(0, Prompt, q), q)}
      <4>1. q \in 1 .. Len(cache_bin.data) \div NLayers
        BY <3>1 DEF kv_max_pos
      <4> QED
        BY <4>1 DEF CacheInv, CacheSound
    <3>4. Value(0, Fed(Done)', q) = Value(0, Prompt, q)
      <4> DEFINE f == Fed(Done)'
                 g == token_in'
      <4>1. f = [k \in 1 .. o.context + 0 |-> IF k <= o.context THEN Prompt[k] ELSE g[k - o.context]]
        BY <2>1 DEF Fed
      <4> HIDE DEF f, g
      <4>2. f[q] = Prompt[q]
        BY <2>2, <4>1
      <4>3. Value(0, f, q) = Value(0, Prompt, q)
        BY <4>2, FirstValue
      <4> QED
        BY <4>3 DEF f
    <3> QED
      BY <2>1, <2>2, <3>1, <3>2, <3>3, <3>4
  <2>4. SoundRows'
    <3>1. opts'.context + Done' = o.context
      BY <2>1, <2>2
    <3> QED
      BY <2>3, <3>1 DEF SoundRows
  <2>5. SoundTokens' /\ OwnInputs'
    BY <2>1 DEF SoundTokens, OwnInputs
  <2> QED
    BY <2>1, <2>4, <2>5 DEF SoundInv, Agreed
<1> QED
  BY <1>1, <1>2

LEMMA RepeatSound ==
  ASSUME LaunchOK, Fits, SoundInv, NextRepeat, UNCHANGED refVars
  PROVE  SoundInv'
<1>1. /\ lstage = "decode" /\ i0' = 0 /\ tok' = 0 /\ lstage' = "decode" /\ opts' = opts /\ rows' = rows
      /\ kv_max_pos' = kv_max_pos
  BY DEF NextRepeat, RunDone, kv_max_pos, refVars
<1>2. opts.context \in Nat \ {0} /\ Done \in Nat /\ Done' = 0 /\ Under
  BY <1>1, DecodeNumbers DEF Done, Under
<1>3. ASSUME NEW q \in 1 .. opts.context
      PROVE  rows'[RowAt(0, q - 1)'] \in {ZeroRow, FreshRow(Value(0, Fed(Done)', q), q)}
  <2>1. rows[RowAt(0, q - 1)] \in {ZeroRow, FreshRow(Value(0, Fed(Done), q), q)}
    <3>1. q \in 1 .. opts.context + Done
      BY <1>2
    <3> QED
      BY <1>2, <3>1 DEF SoundInv, SoundRows
  <2>2. Fed(Done)[q] = Prompt[q]
    BY <1>2, FedText
  <2>3. (Fed(Done)')[q] = Prompt[q]
    <3> DEFINE f == Fed(Done)'
               g == token_in'
               c == opts.context
    <3>1. f = [k \in 1 .. c + 0 |-> IF k <= c THEN Prompt[k] ELSE g[k - c]]
      BY <1>1, <1>2 DEF Fed
    <3> HIDE DEF f, g
    <3>2. f[q] = Prompt[q]
      BY <1>2, <3>1
    <3> QED
      BY <3>2 DEF f
  <2>4. Value(0, Fed(Done)', q) = Value(0, Fed(Done), q)
    <3> DEFINE f == Fed(Done)'
               g == Fed(Done)
    <3>1. f[q] = g[q]
      BY <2>2, <2>3
    <3> HIDE DEF f, g
    <3>2. Value(0, f, q) = Value(0, g, q)
      BY <3>1, FirstValue
    <3> QED
      BY <3>2 DEF f, g
  <2>5. RowAt(0, q - 1)' = RowAt(0, q - 1)
    BY <1>1 DEF RowAt
  <2> QED
    BY <1>1, <2>1, <2>4, <2>5
<1>4. SoundRows'
  <2>1. opts'.context + Done' = opts.context
    BY <1>1, <1>2
  <2> QED
    BY <1>3, <2>1 DEF SoundRows
<1>5. SoundTokens' /\ OwnInputs'
  BY <1>2 DEF SoundTokens, OwnInputs
<1> QED
  BY <1>1, <1>4, <1>5 DEF SoundInv, Agreed

\* What the counts of the report say.
LEMMA ReportCounts ==
  ASSUME NEW n \in Nat, NEW C, C \subseteq 1 .. n, NEW M, M \subseteq C
  PROVE  (Cardinality(C) = n /\ Cardinality(M) = Cardinality(C)) <=> (C = 1 .. n /\ M = 1 .. n)
<1>1. IsFiniteSet(1 .. n) /\ Cardinality(1 .. n) = n
  BY FS_Interval
<1>2. IsFiniteSet(C) /\ (Cardinality(C) = n => C = 1 .. n)
  BY <1>1, FS_Subset
<1>3. Cardinality(M) = Cardinality(C) => M = C
  BY <1>2, FS_Subset
<1> QED
  BY <1>1, <1>2, <1>3

LEMMA StaySound ==
  ASSUME SoundInv, UNCHANGED <<lstage, code, opts, rows, token_in, token_out>>, Done' = Done, UNCHANGED refVars
  PROVE  SoundInv'
<1>1. kv_max_pos' = kv_max_pos /\ golden' = golden
  BY DEF kv_max_pos, golden, refVars
<1>2. \A l, q : RowAt(l, q)' = RowAt(l, q)
  BY <1>1 DEF RowAt
<1>3. \A n : Fed(n)' = Fed(n)
  BY DEF Fed
<1>4. Fed(Done)' = Fed(Done)
  BY DEF Fed
<1> QED
  BY <1>1, <1>2, <1>3, <1>4 DEF SoundInv, Under, SoundRows, SoundTokens, OwnInputs, Agreed

LEMMA ReportSound ==
  ASSUME LaunchOK, Fits, SoundInv, Report, UNCHANGED refVars
  PROVE  SoundInv'
<1>1. /\ lstage = "decode" /\ lstage' = "exit" /\ RunDone
      /\ code' = IF Passed(Cardinality(Compared), Cardinality(Matched)) THEN 0 ELSE 3
      /\ UNCHANGED <<opts, rows, token_in, token_out, i0, tok>>
  BY DEF Report, RunDone
<1>2. Done = opts.tokens /\ opts.tokens \in Nat /\ Done' = Done /\ Under
  BY <1>1, DecodeNumbers DEF Done, Under
<1>3. SoundRows' /\ SoundTokens' /\ OwnInputs'
  <2>1. kv_max_pos' = kv_max_pos
    BY DEF kv_max_pos, refVars
  <2>2. \A l, q : RowAt(l, q)' = RowAt(l, q)
    BY <2>1 DEF RowAt
  <2>3. (\A n : Fed(n)' = Fed(n)) /\ Fed(Done)' = Fed(Done)
    BY <1>1, <1>2 DEF Fed
  <2> QED
    BY <1>1, <1>2, <2>2, <2>3 DEF SoundInv, SoundRows, SoundTokens, OwnInputs
<1>4. Agreed'
  <2> SUFFICES ASSUME code' = 0, NEW j \in 1 .. opts.tokens
               PROVE  j + 1 <= Len(golden) /\ token_out[j] = golden[j + 1]
    <3>1. golden' = golden
      BY DEF golden, refVars
    <3> QED
      BY <1>1, <1>2, <3>1 DEF Agreed
  <2>1. Passed(Cardinality(Compared), Cardinality(Matched))
    BY <1>1
  <2>2. Cardinality(Compared) = opts.tokens /\ Cardinality(Matched) = Cardinality(Compared)
    BY <2>1 DEF Passed
  <2>3. Compared \subseteq 1 .. opts.tokens /\ Matched \subseteq Compared
    BY DEF Compared, Matched
  <2>4. Matched = 1 .. opts.tokens /\ Compared = 1 .. opts.tokens
    BY <1>2, <2>2, <2>3, ReportCounts
  <2>5. j \in Compared /\ j \in Matched
    BY <2>4
  <2> QED
    BY <2>5 DEF Compared, Matched, HasReference
<1> QED
  BY <1>3, <1>4 DEF SoundInv

LEMMA LauncherSound ==
  ASSUME LaunchOK, CacheInv, Fits, SoundInv, (\E o \in Options : StartLaunch(o)) \/ LauncherStep, UNCHANGED refVars
  PROVE  SoundInv'
<1>1. CASE \E o \in Options : StartLaunch(o)
  BY <1>1, StartSound
<1>2. CASE DecodeToken
  BY <1>2, TokenSound
<1>3. CASE NextLaunch
  <2>1. lstage = "decode" /\ UNCHANGED <<lstage, code, opts, rows, token_in, token_out>> /\ Done' = Done
    BY <1>3, DecodeNumbers DEF NextLaunch
  <2> QED
    BY <2>1, StaySound
<1>4. CASE NextRepeat
  BY <1>4, RepeatSound
<1>5. CASE Report
  BY <1>5, ReportSound
<1>6. CASE LaunchAborts
  BY <1>6 DEF LaunchAborts, SoundInv, Under, Agreed
<1>7. CASE LauncherGone
  BY <1>7 DEF LauncherGone, SoundInv, Under, Agreed
<1> QED
  BY <1>1, <1>2, <1>3, <1>4, <1>5, <1>6, <1>7 DEF LauncherStep

-----------------------------------------------------------------------------
(* The session, as far as the launcher's verdict depends on it.            *)

LaunchInv(V) ==
  SessionInv /\ ValueInv(V) /\ FilesInv(V) /\ LauncherAlone /\ Fits /\ SoundInv

LEMMA LaunchInit ==
  ASSUME NEW V, SpeaksIn(V), SessionInit
  PROVE  LaunchInv(V)
<1>1. SessionInv
  BY SessionInitInvariant
<1>2. RefInit /\ lstage = "idle"
  BY DEF SessionInit
<1>3. ValueInv(V) /\ FilesInv(V)
  BY <1>2, ValueInit, FilesInit
<1>4. LauncherAlone /\ Fits /\ SoundInv
  BY <1>2 DEF LauncherAlone, Fits, SoundInv, Under, Agreed
<1> QED
  BY <1>1, <1>3, <1>4 DEF LaunchInv

\* The other tools run only while there is no launcher.
LEMMA OthersKeepLaunch ==
  ASSUME LauncherAlone, [Next]_vars, UNCHANGED launcherVars, lstage = "idle"
  PROVE  Fits' /\ SoundInv'
BY DEF launcherVars, Fits, SoundInv, Under, Agreed

LEMMA StandingStill ==
  ASSUME Fits, SoundInv, UNCHANGED launcherVars, UNCHANGED refVars
  PROVE  Fits' /\ SoundInv'
<1>1. UNCHANGED <<lstage, code, opts, rows, token_in, token_out>> /\ Done' = Done
  BY DEF launcherVars, Done
<1>2. SoundInv'
  BY <1>1, StaySound
<1>3. kv_max_pos' = kv_max_pos /\ golden' = golden /\ cache_bin' = cache_bin
  BY DEF refVars, kv_max_pos, golden
<1>4. Fits'
  BY <1>1, <1>3 DEF Fits, Under, RowsFit
<1> QED
  BY <1>2, <1>4

\* One tool at a time, seen from the launcher.
LEMMA WhoSteps ==
  ASSUME LauncherAlone, [Next]_vars
  PROVE  \/ lstage = "idle" /\ UNCHANGED launcherVars
         \/ UNCHANGED <<packerVars, refVars>> /\ UNCHANGED launcherVars
         \/ /\ UNCHANGED <<packerVars, refVars>>
            /\ (\E o \in Options : StartLaunch(o)) \/ LauncherStep
<1>1. lstage # "idle" => UNCHANGED <<packerVars, refVars>>
  BY OneToolAtATime
<1>2. CASE (StartPack \/ PackStep) /\ UNCHANGED <<refVars, launcherVars>>
  BY <1>1, <1>2
<1>3. CASE (StartRef \/ RefStep) /\ UNCHANGED <<packerVars, launcherVars>>
  BY <1>1, <1>3
<1>4. CASE ((\E o \in Options : StartLaunch(o)) \/ LauncherStep) /\ UNCHANGED <<packerVars, refVars>>
  BY <1>4
<1>5. CASE UNCHANGED vars
  BY <1>5 DEF vars
<1> QED
  BY <1>2, <1>3, <1>4, <1>5 DEF Next

LEMMA RefMoves ==
  ASSUME [Next]_vars
  PROVE  StartRef \/ RefStep \/ UNCHANGED refVars
BY DEF Next, vars

LEMMA LauncherFits ==
  ASSUME LaunchOK, CacheInv, Fits, (\E o \in Options : StartLaunch(o)) \/ LauncherStep, UNCHANGED refVars
  PROVE  Fits'
<1>1. CASE LauncherStep
  BY <1>1, StepFits
<1>2. CASE \E o \in Options : StartLaunch(o)
  <2>1. PICK o \in Options : StartLaunch(o)
    BY <1>2
  <2>2. CASE Refused(o)
    <3>1. lstage' = "exit" /\ code' = 1
      BY <2>1, <2>2 DEF StartLaunch
    <3> QED
      BY <3>1 DEF Fits, Under
  <2>3. CASE ~Refused(o)
    BY <2>1, <2>3, StartFits
  <2> QED
    BY <2>2, <2>3
<1> QED
  BY <1>1, <1>2

LEMMA LaunchNext ==
  ASSUME NEW V, SpeaksIn(V), LaunchInv(V), [Next]_vars
  PROVE  LaunchInv(V)'
<1>1. SessionInv /\ ValueInv(V) /\ FilesInv(V) /\ LauncherAlone /\ Fits /\ SoundInv /\ RefInv /\ LaunchOK /\ CacheInv
  BY DEF LaunchInv, SessionInv, FilesInv
<1>2. SessionInv'
  BY <1>1, SessionNextInvariant
<1>3. ValueInv(V)'
  BY <1>1, SessionValues
<1>4. FilesInv(V)'
  BY <1>1, RefMoves, FilesKept
<1>5. LauncherAlone'
  BY <1>1, OneToolAtATime
<1>6. Fits' /\ SoundInv'
  <2>1. CASE lstage = "idle" /\ UNCHANGED launcherVars
    BY <1>1, <2>1, OthersKeepLaunch
  <2>2. CASE UNCHANGED <<packerVars, refVars>> /\ UNCHANGED launcherVars
    BY <1>1, <2>2, StandingStill
  <2>3. CASE /\ UNCHANGED <<packerVars, refVars>>
             /\ (\E o \in Options : StartLaunch(o)) \/ LauncherStep
    BY <1>1, <2>3, LauncherFits, LauncherSound
  <2> QED
    BY <1>1, <2>1, <2>2, <2>3, WhoSteps
<1> QED
  BY <1>2, <1>3, <1>4, <1>5, <1>6 DEF LaunchInv

LEMMA LaunchInvariant ==
  ASSUME NEW V, SpeaksIn(V)
  PROVE  Spec => []LaunchInv(V)
<1>1. SessionInit => LaunchInv(V)
  BY LaunchInit
<1>2. LaunchInv(V) /\ [Next]_vars => LaunchInv(V)'
  BY LaunchNext
<1> QED
  BY <1>1, <1>2, PTL DEF Spec

\* A sequence is the join of two if it has their values one after the other.
LEMMA JoinedIs ==
  ASSUME NEW m, NEW n, NEW s, NEW t, NEW u, Sized(s, m), Sized(t, n), Sized(u, m + n),
         Pieces(u, s, m, t, n)
  PROVE  s \o t = u
<1> DEFINE c == s \o t
<1>1. m \in Nat /\ n \in Nat
  BY SizedDomain
<1>2. Sized(c, m + n)
  BY SizedConcat
<1>3. Joins(c, s, t)
  BY DEF Joins
<1> HIDE DEF c
<1>4. Pieces(c, s, m, t, n)
  BY <1>3, ConcatAt
<1>5. ASSUME NEW i \in 1 .. m + n PROVE c[i] = u[i]
  <2>1. CASE i <= m
    BY <1>1, <1>4, <2>1 DEF Pieces
  <2>2. CASE i > m
    <3>1. i - m \in 1 .. n /\ m + (i - m) = i
      BY <1>1, <2>2
    <3> QED
      BY <1>4, <3>1 DEF Pieces
  <2> QED
    BY <1>1, <2>1, <2>2
<1>6. c = [i \in 1 .. m + n |-> c[i]] /\ u = [i \in 1 .. m + n |-> u[i]]
  BY <1>2, SizedDomain
<1>7. c = u
  BY <1>5, <1>6
<1> QED
  BY <1>7 DEF c

\* The tokens a verdict speaks of are those that were fed.
FedTokens(i) ==
  <<golden[1]>> \o [k \in 1 .. i - 1 |-> IF opts.teacher THEN golden[k + 1] ELSE token_out[k]]

LEMMA FedIs ==
  ASSUME opts.context \in Contexts, NEW i \in Nat \ {0}, token_in[1] = golden[1],
         opts.teacher => \A j \in 1 .. i : token_in[j] = golden[j],
         ~opts.teacher => \A j \in 1 .. i - 1 : token_in[j + 1] = token_out[j]
  PROVE  SubSeq(Prompt, 1, opts.context) \o FedTokens(i) = Fed(i)
<1> DEFINE c == opts.context
           g == <<golden[1]>>
           r == [k \in 1 .. i - 1 |-> IF opts.teacher THEN golden[k + 1] ELSE token_out[k]]
           f == [j \in 1 .. i |-> token_in[j]]
<1>1. i - 1 \in Nat /\ i \in Nat /\ 1 + (i - 1) = i /\ c \in Nat /\ c \in 0 .. Len(Prompt)
  BY Shape
<1>2. ASSUME NEW k \in 1 .. i - 1 PROVE r[k] = token_in[k + 1]
  <2>1. k + 1 \in 1 .. i
    OBVIOUS
  <2>2. CASE opts.teacher
    <3>1. token_in[k + 1] = golden[k + 1]
      BY <2>1, <2>2, Zenon
    <3>2. r[k] = golden[k + 1]
      BY <2>2, Zenon
    <3> QED
      BY <3>1, <3>2
  <2>3. CASE ~opts.teacher
    <3>1. token_in[k + 1] = token_out[k]
      BY <2>3, Zenon
    <3>2. r[k] = token_out[k]
      BY <2>3, Zenon
    <3> QED
      BY <3>1, <3>2
  <2> QED
    BY <2>2, <2>3
<1>3. Sized(r, i - 1)
  <2> DEFINE n == i - 1
  <2>1. r = [k \in 1 .. n |-> r[k]] /\ n \in Nat
    BY <1>1
  <2> HIDE DEF r, n
  <2>2. Sized(r, n)
    BY <2>1, SizedFunction
  <2> QED
    BY <2>2 DEF n
<1>4. Sized(f, i)
  <2>1. f = [j \in 1 .. i |-> f[j]]
    OBVIOUS
  <2> HIDE DEF f
  <2> QED
    BY <2>1, <1>1, SizedFunction
<1>5. Sized(g, 1) /\ g[1] = golden[1]
  BY DEF Sized
<1>6. \A j \in 1 .. i : f[j] = token_in[j]
  OBVIOUS
<1> HIDE DEF g, r, f
<1>7. g \o r = f
  <2>1. Pieces(f, g, 1, r, i - 1)
    <3>1. ASSUME NEW j \in 1 .. 1 PROVE f[j] = g[j]
      <4>1. j = 1 /\ 1 \in 1 .. i
        BY <1>1
      <4> QED
        BY <1>5, <1>6, <4>1
    <3>2. ASSUME NEW k \in 1 .. i - 1 PROVE f[1 + k] = r[k]
      <4>1. 1 + k \in 1 .. i /\ 1 + k = k + 1
        BY <1>1
      <4> QED
        BY <1>2, <1>6, <4>1
    <3> QED
      BY <3>1, <3>2 DEF Pieces
  <2>2. Sized(f, 1 + (i - 1))
    BY <1>1, <1>4
  <2> QED
    BY <1>3, <1>5, <2>1, <2>2, JoinedIs
<1>8. SubSeq(Prompt, 1, c) \o f = Fed(i)
  <2> DEFINE s == SubSeq(Prompt, 1, c)
             u == Fed(i)
  <2>1. Sized(s, c) /\ \A k \in 1 .. c : s[k] = Prompt[k]
    <3>1. Sized(s, c)
      BY PromptSized
    <3>2. s = [k \in 1 .. c |-> Prompt[k]]
      BY <1>1
    <3> HIDE DEF s
    <3> QED
      BY <3>1, <3>2
  <2>2. /\ Sized(u, c + i) /\ (\A k \in 1 .. c : u[k] = Prompt[k])
        /\ \A j \in 1 .. i : u[c + j] = token_in[j]
    BY <1>1, FedText
  <2> HIDE DEF s, u, c
  <2>3. Pieces(u, s, c, f, i)
    BY <1>6, <2>1, <2>2 DEF Pieces
  <2>4. s \o f = u
    BY <1>4, <2>1, <2>2, <2>3, JoinedIs
  <2> QED
    BY <2>4 DEF s, u
<1>9. FedTokens(i) = g \o r
  BY DEF FedTokens, g, r
<1> QED
  BY <1>7, <1>8, <1>9 DEF c

\* Exit code 0 gates the session scripts: whatever mixture of files, torn or of
\* other runs, was read, with or without a teacher, in however many launches and
\* repeats, it means that the tokens are the model's own greedy choice after the
\* prompt and the tokens fed.  Garbage must not happen to give a token of the
\* vocabulary, nor what a torn token reads as (main's return value).
THEOREM ExitZeroMeansGreedy ==
  ASSUME NEW V, SpeaksIn(V), Junk \notin V \cup {HalfToken}
  PROVE  Spec => []ExitZeroIsGreedy
<1>1. LaunchInv(V) => ExitZeroIsGreedy
  <2> SUFFICES ASSUME LaunchInv(V), lstage = "exit", code = 0, NEW i \in 1 .. opts.tokens
               PROVE  token_out[i] = Greedy(SubSeq(Prompt, 1, opts.context) \o FedTokens(i))
    BY DEF ExitZeroIsGreedy, FedTokens
  <2>1. Fits /\ SoundInv /\ TokensInv(V) /\ Under
    BY DEF LaunchInv, FilesInv, Under
  <2>2. /\ opts \in Options /\ token_in[1] = golden[1]
        /\ opts.teacher => \A j \in 1 .. opts.tokens : token_in[j] = golden[j]
    BY <2>1 DEF Fits
  <2>3. opts.tokens \in Nat \ {0} /\ opts.context \in Contexts
    BY <2>2, OptionsNumbers DEF Options
  <2>4. /\ Done = opts.tokens
        /\ i + 1 <= Len(golden) /\ token_out[i] = golden[i + 1]
    BY <2>1 DEF SoundInv, Agreed
  <2>5. token_out[i] \in {Junk, Greedy(Fed(i))}
    BY <2>1, <2>3, <2>4 DEF SoundInv, SoundTokens
  <2>6. golden[i + 1] \in V \cup {HalfToken}
    <3>1. golden \in Seq(V \cup {HalfToken})
      BY <2>1 DEF TokensInv, golden
    <3>2. i + 1 \in 1 .. Len(golden)
      BY <2>3, <2>4, <3>1
    <3> QED
      BY <3>1, <3>2
  <2>7. token_out[i] = Greedy(Fed(i))
    BY <2>4, <2>5, <2>6
  <2>8. SubSeq(Prompt, 1, opts.context) \o FedTokens(i) = Fed(i)
    <3>1. i \in Nat \ {0} /\ \A j \in 1 .. i : j \in 1 .. opts.tokens
      BY <2>3
    <3>2. opts.teacher => \A j \in 1 .. i : token_in[j] = golden[j]
      BY <2>2, <3>1, Zenon
    <3>3. ~opts.teacher => \A j \in 1 .. i - 1 : token_in[j + 1] = token_out[j]
      <4>1. \A j \in 1 .. i - 1 : j \in 1 .. Done
        BY <2>3, <2>4
      <4>2. OwnInputs
        BY <2>1 DEF SoundInv
      <4> QED
        BY <4>1, <4>2, Zenon DEF OwnInputs
    <3> QED
      BY <2>2, <2>3, <3>1, <3>2, <3>3, FedIs
  <2> QED
    BY <2>7, <2>8
<1> QED
  BY <1>1, LaunchInvariant, PTL

-----------------------------------------------------------------------------
(* The launcher over the files of one whole reference run.                 *)

\* The run was asked for the launcher's context, and for no fewer tokens.
Whole(o) == WholeFiles /\ o.context = cache_bin.by[1] /\ o.tokens <= cache_bin.by[2]

\* What the reference run wrote of its text.
GoldText == PromptText(opts.context) \o golden

LEMMA Multiple ==
  ASSUME NEW K \in Nat \ {0}, NEW m \in Nat
  PROVE  (K * m) % K = 0 /\ (K * m) \div K = m /\ K * m \in Nat
<1>1. m \in 0 .. (m + 1) - 1 /\ m + 1 \in Nat /\ 1 \in 1 .. K
  OBVIOUS
<1>2. (m * K + 1 - 1) \div K = m /\ (m * K + 1 - 1) % K = 1 - 1
  BY <1>1, RowIndex
<1>3. m * K + 1 - 1 = K * m /\ K * m \in Nat
  OBVIOUS
<1> QED
  BY <1>2, <1>3

LEMMA WholeFacts ==
  ASSUME NEW V, FilesInv(V), NEW o \in Options, Whole(o)
  PROVE  /\ o.context \in Contexts /\ cache_bin.by[2] \in Decodes
         /\ CacheOf(cache_bin.data, o.context, cache_bin.by[2])
         /\ TokensOf(V, golden, o.context, cache_bin.by[2])
         /\ HiddenOf(golden_hidden, o.context)
         /\ kv_max_pos = o.context + cache_bin.by[2]
         /\ ~Refused(o)
<1> DEFINE d == cache_bin.by[2]
           e == o.context
<1>1. PICK c1 \in Contexts, d1 \in Decodes : cache_bin.by = <<c1, d1>> /\ CacheOf(cache_bin.data, c1, d1)
  BY DEF FilesInv, CacheInv, Whole, WholeFiles
<1>2. PICK c2 \in Contexts, d2 \in Decodes : golden_txt.by = <<c2, d2>> /\ TokensOf(V, golden_txt.data, c2, d2)
  BY DEF FilesInv, TokensInv, Whole, WholeFiles
<1>3. PICK c3 \in Contexts, d3 \in Decodes : hidden_bin.by = <<c3, d3>> /\ HiddenOf(hidden_bin.data, c3)
  BY DEF FilesInv, HiddenInv, Whole, WholeFiles
<1>4. /\ golden_txt.by = cache_bin.by /\ hidden_bin.by = cache_bin.by /\ e = cache_bin.by[1] /\ o.tokens <= d
      /\ BlobTaken
  BY DEF Whole, WholeFiles
<1>5. e = c1 /\ e = c2 /\ e = c3 /\ d = d1 /\ d = d2
  BY <1>1, <1>2, <1>3, <1>4
<1>6. e \in Contexts /\ d \in Decodes
  BY <1>1, <1>5
<1>7. CacheOf(cache_bin.data, e, d)
  BY <1>1, <1>5
<1>8. TokensOf(V, golden, e, d)
  BY <1>2, <1>5 DEF golden
<1>9. HiddenOf(golden_hidden, e)
  BY <1>3, <1>5 DEF golden_hidden
<1>10. e \in Nat /\ d \in Nat /\ o.tokens \in Nat \ {0} /\ NLayers \in Nat \ {0}
  BY <1>6, Shape, OptionsNumbers
<1> HIDE DEF d, e
<1>11. Len(cache_bin.data) = NLayers * (e + d)
  BY <1>7, SizedDomain DEF CacheOf
<1>12. Len(cache_bin.data) % NLayers = 0 /\ kv_max_pos = e + d
  <2> DEFINE m == e + d
  <2>1. m \in Nat
    BY <1>10
  <2> HIDE DEF m
  <2>2. (NLayers * m) % NLayers = 0 /\ (NLayers * m) \div NLayers = m
    BY <1>10, <2>1, Multiple
  <2> QED
    BY <1>11, <2>2 DEF kv_max_pos, m
<1>13. golden # << >> /\ Len(golden) = d + 1
  <2>1. golden \in Seq(V) /\ Len(golden) = d + 1
    BY <1>8 DEF TokensOf
  <2> QED
    BY <1>10, <2>1
<1>14. ~Refused(o)
  <2>1. e + o.tokens <= e + d /\ e + o.tokens \in Nat /\ e + d \in Nat
    BY <1>4, <1>10 DEF d
  <2>2. ~ (o.context + o.tokens > kv_max_pos)
    BY <1>12, <2>1 DEF e
  <2>3. ~ (Len(golden) < o.tokens)
    BY <1>4, <1>10, <1>13 DEF d
  <2> QED
    BY <1>4, <1>12, <1>13, <2>2, <2>3 DEF Refused
<1> QED
  BY <1>6, <1>7, <1>8, <1>9, <1>12, <1>14 DEF d, e

LEMMA GoldFacts ==
  ASSUME NEW V, SpeaksIn(V), FilesInv(V), opts \in Options, Whole(opts)
  PROVE  LET c == opts.context  d == cache_bin.by[2] IN
         /\ c \in Nat \ {0} /\ d \in Nat \ {0} /\ opts.tokens <= d /\ kv_max_pos = c + d
         /\ Len(golden) = d + 1
         /\ GoldText \in Seq(V) /\ Len(GoldText) = c + d + 1
         /\ \A q \in 1 .. c : GoldText[q] = Prompt[q]
         /\ \A j \in 1 .. d + 1 : GoldText[c + j] = golden[j]
         /\ \A j \in 1 .. d : Greedy(SubSeq(GoldText, 1, c + j)) = golden[j + 1]
         /\ \A l \in Layers, q \in 1 .. c : Value(l, GoldText, q) = Value(l, Prompt, q)
         /\ \A l : Value(l, GoldText, c + 1) = Value(l, FirstText(c), c + 1)
<1> DEFINE c == opts.context
           d == cache_bin.by[2]
           P == PromptText(c)
           G == GoldText
<1>1. /\ c \in Contexts /\ d \in Decodes /\ TokensOf(V, golden, c, d) /\ kv_max_pos = c + d
  BY WholeFacts
<1>2. opts.tokens <= d
  BY DEF Whole
<1>3. P \in Seq(V) /\ Len(P) = c /\ c \in Nat \ {0} /\ d \in Nat \ {0} /\ Greedy(P) \in V
      /\ Prompt \in Seq(V) /\ c \in 0 .. Len(Prompt)
  BY <1>1, PromptIn, Shape DEF SpeaksIn
<1>4. golden \in Seq(V) /\ Len(golden) = d + 1 /\ IsGreedy(c, golden)
  BY <1>1 DEF TokensOf
<1>5. \A q \in 1 .. c : P[q] = Prompt[q]
  BY <1>3 DEF PromptText
<1>6. G = P \o golden
  BY DEF GoldText
<1> HIDE DEF c, d, P, G
<1>7. G \in Seq(V) /\ Len(G) = c + d + 1
  <2> DEFINE g == golden
  <2>0. P \in Seq(V) /\ g \in Seq(V) /\ G = P \o g
    BY <1>3, <1>4, <1>6
  <2> HIDE DEF g
  <2>1. G \in Seq(V) /\ Len(G) = Len(P) + Len(g)
    BY <2>0
  <2>2. Len(g) = d + 1
    BY <1>4 DEF g
  <2> QED
    BY <1>3, <2>1, <2>2
<1>8. Sized(P, c) /\ Sized(golden, d + 1) /\ Sized(G, c + (d + 1))
  <2>1. ASSUME NEW s \in Seq(V) PROVE Sized(s, Len(s))
    <3>1. s = [i \in 1 .. Len(s) |-> s[i]] /\ Len(s) \in Nat
      BY <2>1
    <3> QED
      BY <3>1, SizedFunction
  <2>2. c + d + 1 = c + (d + 1)
    BY <1>3
  <2> QED
    BY <1>3, <1>4, <1>7, <2>1, <2>2
<1>9. Pieces(G, P, c, golden, d + 1)
  BY <1>6, <1>8, ConcatAt DEF Joins
<1>10. (\A q \in 1 .. c : G[q] = P[q]) /\ \A j \in 1 .. d + 1 : G[c + j] = golden[j]
  BY <1>9 DEF Pieces
<1>11. ASSUME NEW j \in 0 .. d PROVE P \o SubSeq(golden, 1, j) = SubSeq(G, 1, c + j)
  <2> DEFINE t == SubSeq(golden, 1, j)
             u == SubSeq(G, 1, c + j)
  <2>1. j \in 0 .. d + 1 /\ c + j \in 0 .. c + (d + 1)
    BY <1>3
  <2>2. Sized(t, j) /\ Sized(u, c + j)
    BY <1>8, <2>1, SizedSub
  <2>3. \A i \in 1 .. j : t[i] = golden[i]
    <3>1. t = [i \in 1 .. j |-> golden[i]]
      BY <1>4
    <3> HIDE DEF t
    <3> QED
      BY <3>1
  <2>4. \A i \in 1 .. c + j : u[i] = G[i]
    <3>1. u = [i \in 1 .. c + j |-> G[i]]
      BY <1>3, <1>7
    <3> HIDE DEF u
    <3> QED
      BY <3>1
  <2> HIDE DEF t, u
  <2>5. Pieces(u, P, c, t, j)
    <3>1. ASSUME NEW i \in 1 .. c PROVE u[i] = P[i]
      <4>1. i \in 1 .. c + j
        BY <1>3
      <4> QED
        BY <1>10, <2>4, <4>1
    <3>2. ASSUME NEW i \in 1 .. j PROVE u[c + i] = t[i]
      <4>1. c + i \in 1 .. c + j /\ i \in 1 .. d + 1
        BY <1>3
      <4> QED
        BY <1>10, <2>3, <2>4, <4>1
    <3> QED
      BY <3>1, <3>2 DEF Pieces
  <2>6. P \o t = u
    BY <1>8, <2>2, <2>5, JoinedIs
  <2> QED
    BY <2>6 DEF t, u
<1>12. ASSUME NEW j \in 0 .. d PROVE Greedy(SubSeq(G, 1, c + j)) = golden[j + 1]
  <2>1. j + 1 \in 1 .. Len(golden) /\ (j + 1) - 1 = j
    BY <1>3, <1>4
  <2>2. golden[j + 1] = Greedy(P \o SubSeq(golden, 1, j))
    BY <1>4, <2>1 DEF IsGreedy, P
  <2> QED
    BY <1>11, <2>2
<1>13. ASSUME NEW l \in Layers, NEW q \in 1 .. c PROVE Value(l, G, q) = Value(l, Prompt, q)
  <2>1. c \in 0 .. Len(Prompt) /\ c <= Len(G) /\ \A k \in 1 .. c : G[k] = Prompt[k]
    BY <1>3, <1>5, <1>7, <1>10
  <2> QED
    BY <1>3, <1>7, <2>1, ValueOfPrefix
<1>14. ASSUME NEW l PROVE Value(l, G, c + 1) = Value(l, FirstText(c), c + 1)
  <2> DEFINE F == FirstText(c)
             g == Greedy(P)
  <2>1. F = Append(P, g)
    BY DEF FirstText, P
  <2>2. golden[1] = g
    <3>1. 1 \in 1 .. Len(golden) /\ 1 - 1 = 0
      BY <1>3, <1>4
    <3>2. golden[1] = Greedy(P \o SubSeq(golden, 1, 0))
      BY <1>4, <3>1 DEF IsGreedy, P
    <3>3. SubSeq(golden, 1, 0) = << >>
      BY <1>4
    <3>4. P \o << >> = P
      BY <1>3, BareText
    <3> QED
      BY <3>2, <3>3, <3>4
  <2>0. g \in V
    BY <1>3
  <2> HIDE DEF F, g
  <2>3. F \in Seq(V) /\ Len(F) = c + 1 /\ F[c + 1] = g /\ \A k \in 1 .. c : F[k] = P[k]
    BY <1>3, <2>0, <2>1
  <2>4. \A k \in 1 .. c + 1 : G[k] = F[k]
    <3>1. G[c + 1] = g
      <4>1. 1 \in 1 .. d + 1
        BY <1>3
      <4> QED
        BY <1>10, <2>2, <4>1
    <3> SUFFICES ASSUME NEW k \in 1 .. c + 1 PROVE G[k] = F[k]
      OBVIOUS
    <3>2. k = c + 1 \/ k \in 1 .. c
      BY <1>3
    <3> QED
      BY <1>10, <2>3, <3>1, <3>2
  <2>5. c + 1 \in 0 .. Len(F) /\ c + 1 <= Len(G) /\ c + 1 \in 1 .. c + 1
    BY <1>3, <1>7, <2>3
  <2>6. Value(l, G, c + 1) = Value(l, F, c + 1)
    <3> DEFINE n == c + 1
    <3>1. n \in 0 .. Len(F) /\ n <= Len(G) /\ (\A k \in 1 .. n : G[k] = F[k]) /\ n \in 1 .. n
      BY <2>4, <2>5
    <3> HIDE DEF n
    <3>2. Value(l, G, n) = Value(l, F, n)
      BY <1>7, <2>3, <3>1, ValueOfPrefix
    <3> QED
      BY <3>2 DEF n
  <2> QED
    BY <2>6 DEF F
<1>15. \A j \in 1 .. d : Greedy(SubSeq(G, 1, c + j)) = golden[j + 1]
  BY <1>12
<1>16. \A q \in 1 .. c : G[q] = Prompt[q]
  BY <1>5, <1>10
<1>17. c \in Nat \ {0} /\ d \in Nat \ {0} /\ opts.tokens <= d /\ kv_max_pos = c + d /\ Len(golden) = d + 1
  BY <1>1, <1>2, <1>3, <1>4 DEF c, d
<1> QED
  BY <1>7, <1>10, <1>13, <1>14, <1>15, <1>16, <1>17 DEF c, d, G

\* Over whole files every row, token and hidden state is the reference's.
ExactRows ==
  \A l \in Layers, q \in 1 .. opts.context + Done :
    rows[RowAt(l, q - 1)] = FreshRow(Value(l, GoldText, q), q)
ExactInputs == \A j \in 1 .. opts.tokens : j <= Done + 1 => token_in[j] = golden[j]
ExactOutputs == \A j \in 1 .. Done : token_out[j] = golden[j + 1]
ExactDump ==
  run = opts.repeat - 1 /\ Done # 0 => \A l \in Layers : dump[l] = golden_hidden[l + 1]
Exact == Layers \subseteq readable /\ ExactRows /\ ExactInputs /\ ExactOutputs /\ ExactDump
ExactInv ==
  /\ lstage = "decode" /\ Whole(opts) => Exact
  /\ lstage = "exit" /\ Whole(opts) => code = 2 \/ (code = 0 /\ layers_ok = NLayers)

LEMMA SameFiles ==
  ASSUME UNCHANGED <<packerVars, refVars>>
  PROVE  /\ \A o : Whole(o)' <=> Whole(o)
         /\ golden' = golden /\ golden_hidden' = golden_hidden /\ kv_max_pos' = kv_max_pos
         /\ \A l, q : RowAt(l, q)' = RowAt(l, q)
         /\ opts' = opts => GoldText' = GoldText
<1>1. UNCHANGED <<cache_bin, golden_txt, hidden_bin, manifest, pos>>
  BY DEF packerVars, refVars
<1>2. kv_max_pos' = kv_max_pos /\ golden' = golden /\ golden_hidden' = golden_hidden
  BY <1>1 DEF kv_max_pos, golden, golden_hidden
<1>3. BlobTaken' <=> BlobTaken
  BY <1>1 DEF BlobTaken, Accepted
<1>4. \A o : Whole(o)' <=> Whole(o)
  BY <1>1, <1>3 DEF Whole, WholeFiles
<1>5. \A l, q : RowAt(l, q)' = RowAt(l, q)
  BY <1>2 DEF RowAt
<1>6. opts' = opts => GoldText' = GoldText
  BY <1>2 DEF GoldText, PromptText
<1> QED
  BY <1>2, <1>4, <1>5, <1>6

\* The rows of the file are those of the text's first positions.
LEMMA StartExact ==
  ASSUME NEW V, SpeaksIn(V), LaunchOK, FilesInv(V), IInv, PlacedInv,
         NEW o \in Options, StartLaunch(o), UNCHANGED <<packerVars, refVars>>
  PROVE  ExactInv'
<1>0. UNCHANGED packerVars /\ UNCHANGED refVars /\ CacheInv /\ opts' = o
  BY DEF StartLaunch, FilesInv
<1>1. CASE ~Whole(o)
  <2>1. ~Whole(opts)'
    <3>1. Whole(opts)' <=> Whole(o)
      BY <1>0, SameFiles DEF Whole, WholeFiles
    <3> QED
      BY <1>1, <3>1
  <2> QED
    BY <2>1 DEF ExactInv
<1>2. CASE Whole(o)
  <2>1. ~Refused(o) /\ kv_max_pos = o.context + cache_bin.by[2] /\ CacheOf(cache_bin.data, o.context, cache_bin.by[2])
        /\ o.context \in Contexts /\ cache_bin.by[2] \in Decodes
    BY <1>2, WholeFacts
  <2>2. /\ Fits' /\ Done' = 0
        /\ rows' = cache_bin.data /\ kv_max_pos' = kv_max_pos /\ o.context \in 1 .. kv_max_pos
        /\ \A l \in Layers, q \in 0 .. kv_max_pos - 1 : RowAt(l, q)' = RowAt(l, q)
    BY <1>0, <2>1, StartFits
  <2>3. /\ lstage' = "decode" /\ token_in' = Inputs(o)
        /\ \E word \in StackWords :
             readable' = { l \in Layers : \A part \in MatrixParts(l) :
                             PartReadable(file, load_manifest(manifest, word), l, part) }
    BY <2>1 DEF StartLaunch
  <2>4. Layers \subseteq readable'
    <3>1. BlobTaken /\ manifest.lost = {}
      BY <1>2 DEF Whole, WholeFiles
    <3>2. BlobReadsBack
      BY AcceptedReadsBack, NothingEmpty
    <3>3. PICK word \in StackWords :
             readable' = { l \in Layers : \A part \in MatrixParts(l) :
                             PartReadable(file, load_manifest(manifest, word), l, part) }
      BY <2>3
    <3>4. \A l \in Layers : \A part \in MatrixParts(l) :
            PartReadable(file, load_manifest(manifest, word), l, part)
      BY <3>1, <3>2, LayerReadable
    <3> QED
      BY <3>3, <3>4
  <2>5. o.context \in Nat \ {0} /\ o.tokens \in Nat \ {0} /\ kv_max_pos \in Nat
        /\ Layers = 0 .. NLayers - 1 /\ NLayers \in Nat
    BY <2>1, OptionsNumbers, Shape
  <2>6. \A l \in Layers, q \in 1 .. o.context : Value(l, GoldText', q) = Value(l, Prompt, q)
    <3>1. opts' \in Options /\ Whole(opts)' /\ FilesInv(V)'
      <4>1. Whole(opts)' <=> Whole(o)
        BY <1>0, SameFiles DEF Whole, WholeFiles
      <4>2. FilesInv(V)'
        BY FilesStay DEF refVars, files
      <4> QED
        BY <1>0, <1>2, <4>1, <4>2
    <3>2. golden \in Seq(V) /\ GoldText' = PromptText(o.context) \o golden
      <4>1. golden' = golden
        BY SameFiles
      <4>2. TokensOf(V, golden, o.context, cache_bin.by[2])
        BY <1>2, WholeFacts
      <4> QED
        BY <1>0, <4>1, <4>2 DEF GoldText, PromptText, TokensOf
    <3>3. /\ PromptText(o.context) \in Seq(V) /\ Len(PromptText(o.context)) = o.context /\ Prompt \in Seq(V)
          /\ o.context <= Len(Prompt) /\ o.context \in 0 .. Len(PromptText(o.context))
          /\ \A k \in 1 .. o.context : Prompt[k] = PromptText(o.context)[k]
      <4>1. PromptText(o.context) \in Seq(V) /\ Len(PromptText(o.context)) = o.context /\ Prompt \in Seq(V)
            /\ o.context \in 0 .. Len(Prompt) /\ o.context \in Nat
        BY <2>1, PromptIn, Shape DEF SpeaksIn
      <4>2. \A k \in 1 .. o.context : Prompt[k] = PromptText(o.context)[k]
        BY <4>1 DEF PromptText
      <4> QED
        BY <4>1, <4>2
    <3> DEFINE p == PromptText(o.context)
               g == golden
               G == GoldText'
               c == o.context
    <3>4. G = p \o g /\ p \in Seq(V) /\ g \in Seq(V) /\ Len(p) = c /\ c \in Nat
      BY <2>5, <3>2, <3>3
    <3>5. Prompt \in Seq(V) /\ c <= Len(Prompt) /\ c \in 0 .. Len(p) /\ \A k \in 1 .. c : Prompt[k] = p[k]
      BY <3>3
    <3> HIDE DEF p, g, G, c
    <3>6. G \in Seq(V) /\ c <= Len(G) /\ \A k \in 1 .. c : G[k] = p[k]
      BY <3>4
    <3>8. p \in Seq(V)
      BY <3>4
    <3>7. ASSUME NEW l \in Layers, NEW q \in 1 .. c PROVE Value(l, G, q) = Value(l, Prompt, q)
      <4>1. Value(l, G, q) = Value(l, p, q)
        BY <3>5, <3>6, <3>8, ValueOfPrefix
      <4>2. Value(l, Prompt, q) = Value(l, p, q)
        BY <3>5, <3>8, ValueOfPrefix
      <4> QED
        BY <4>1, <4>2
    <3> QED
      BY <3>7 DEF G, c
  <2>7. ExactRows'
    <3>1. ASSUME NEW l \in Layers, NEW q \in 1 .. o.context
          PROVE  rows'[RowAt(l, q - 1)'] = FreshRow(Value(l, GoldText', q), q)
      <4>1. q - 1 \in 0 .. kv_max_pos - 1 /\ q \in Nat
        BY <2>2, <2>5
      <4>2. RowAt(l, q - 1) = l * kv_max_pos + q
        <5>1. l * kv_max_pos \in Nat
          BY <2>5
        <5> DEFINE x == l * kv_max_pos
        <5> HIDE DEF x
        <5>2. x + (q - 1) + 1 = x + q
          BY <4>1, <5>1 DEF x
        <5> QED
          BY <5>2 DEF RowAt, x
      <4>3. cache_bin.data[l * kv_max_pos + q] = FreshRow(Value(l, Prompt, q), q)
        BY <2>1 DEF CacheOf
      <4>4. Value(l, GoldText', q) = Value(l, Prompt, q)
        BY <2>6
      <4> QED
        BY <2>2, <4>1, <4>2, <4>3, <4>4
    <3>2. opts'.context + Done' = o.context
      BY <1>0, <2>2, <2>5
    <3> QED
      BY <3>1, <3>2 DEF ExactRows
  <2>8. ExactInputs'
    <3>1. token_in'[1] = golden' [1]
      BY <2>2, <2>3 DEF Fits, Under
    <3>2. \A j \in 1 .. o.tokens : j <= 0 + 1 => j = 1
      BY <2>5
    <3> QED
      BY <1>0, <2>2, <3>1, <3>2 DEF ExactInputs
  <2>9. ExactOutputs' /\ ExactDump'
    BY <2>2 DEF ExactOutputs, ExactDump
  <2> QED
    BY <2>3, <2>4, <2>7, <2>8, <2>9 DEF ExactInv, Exact
<1> QED
  BY <1>1, <1>2

\* A token decoded over exact rows is the reference's, and leaves exact rows.
LEMMA TokenExact ==
  ASSUME NEW V, SpeaksIn(V), LaunchOK, FilesInv(V), Fits, ExactInv, DecodeToken, UNCHANGED <<packerVars, refVars>>
  PROVE  ExactInv'
<1> DEFINE G == GoldText
           c == opts.context
           d == cache_bin.by[2]
<1>0. UNCHANGED refVars
  OBVIOUS
<1>1. /\ lstage = "decode" /\ lstage' = lstage /\ opts' = opts /\ readable' = readable /\ run' = run
      /\ Done \in Nat /\ Done + 1 <= opts.tokens /\ Done' = Done + 1
      /\ RowsFit /\ Here \in 0 .. kv_max_pos - 1 /\ Here \in Nat /\ c \in Nat \ {0}
      /\ \A l \in Layers : rows'[RowAt(l, Here)] = FreshRow(States[l], Here + 1)
      /\ \A l \in Layers, q \in 0 .. kv_max_pos - 1 :
           q # Here => rows'[RowAt(l, q)] = rows[RowAt(l, q)]
      /\ token_out'[Done + 1] = Best /\ \A j \in 1 .. Done : token_out'[j] = token_out[j]
      /\ \A j \in 1 .. Done + 1 : token_in'[j] = token_in[j]
      /\ IF opts.teacher THEN token_in' = token_in ELSE token_in'[Done + 2] = Best
      /\ dump' = IF Done = 0 /\ run = opts.repeat - 1 THEN [l \in Layers |-> States[l + 1]] ELSE dump
  BY <1>0, TokenStep
<1>2. /\ Whole(opts)' <=> Whole(opts)
      /\ golden' = golden /\ golden_hidden' = golden_hidden /\ GoldText' = G
      /\ \A l, q : RowAt(l, q)' = RowAt(l, q)
  BY <1>1, SameFiles DEF Whole, WholeFiles
<1>3. SUFFICES ASSUME Whole(opts) PROVE Exact'
  BY <1>1, <1>2 DEF ExactInv
<1>4. Layers \subseteq readable /\ ExactRows /\ ExactInputs /\ ExactOutputs /\ ExactDump
  BY <1>1, <1>3 DEF ExactInv, Exact
<1>5. opts \in Options /\ opts.tokens \in Nat \ {0} /\ opts.repeat \in Nat \ {0} /\ run \in Nat
  BY <1>1, DecodeNumbers
<1>6. /\ c \in Nat \ {0} /\ d \in Nat \ {0} /\ opts.tokens <= d /\ kv_max_pos = c + d
      /\ Len(golden) = d + 1
      /\ G \in Seq(V) /\ Len(G) = c + d + 1
      /\ \A j \in 1 .. d + 1 : G[c + j] = golden[j]
      /\ \A j \in 1 .. d : Greedy(SubSeq(G, 1, c + j)) = golden[j + 1]
      /\ \A l : Value(l, G, c + 1) = Value(l, FirstText(c), c + 1)
  BY <1>3, <1>5, GoldFacts
<1>7. Here = c + Done /\ Here + 1 = c + (Done + 1) /\ Done + 1 \in 1 .. d /\ Done + 1 \in 1 .. d + 1
      /\ Here + 1 <= Len(G)
  <2>1. Here = c + Done
    BY DEF Here
  <2> DEFINE n == Done
             t == opts.tokens
  <2>2. n \in Nat /\ n + 1 <= t /\ t \in Nat /\ t <= d /\ c \in Nat /\ d \in Nat /\ Len(G) = c + d + 1
    BY <1>1, <1>5, <1>6
  <2>3. Here = c + n
    BY <2>1
  <2> HIDE DEF c, d, G, n, t
  <2>4. Here + 1 = c + (n + 1) /\ n + 1 \in 1 .. d /\ n + 1 \in 1 .. d + 1 /\ Here + 1 <= Len(G)
    BY <2>2, <2>3
  <2> QED
    BY <2>1, <2>4 DEF n
<1>8. HiddenOf(golden_hidden, c)
  BY <1>3, <1>5, WholeFacts
<1> HIDE DEF G, c, d
<1>9. token_in[Done + 1] = G[Here + 1]
  <2>1. token_in[Done + 1] = golden[Done + 1]
    <3>1. Done + 1 \in 1 .. opts.tokens /\ Done + 1 <= Done + 1
      BY <1>1, <1>5
    <3> QED
      BY <1>4, <3>1 DEF ExactInputs
  <2> QED
    BY <1>6, <1>7, <2>1
<1>10. \A l \in Layers, i \in 1 .. Here : rows[RowAt(l, i - 1)] = FreshRow(Value(l, G, i), i)
  BY <1>4, <1>7 DEF ExactRows, c, G
<1>11. /\ \A l \in 0 .. NLayers : States[l] = Value(l, G, Here + 1)
       /\ Best = Greedy(SubSeq(G, 1, Here + 1))
  <2> DEFINE p == Here
  <2>1. p \in Nat /\ p + 1 <= Len(G) /\ token_in[Done + 1] = G[p + 1]
        /\ \A l \in Layers, i \in 1 .. p : rows[RowAt(l, i - 1)] = FreshRow(Value(l, G, i), i)
    BY <1>1, <1>7, <1>9, <1>10
  <2>2. States = HiddenAt(G[p + 1], p)
    BY <1>9 DEF States
  <2> HIDE DEF p
  <2>3. /\ \A l \in 0 .. NLayers : HiddenAt(G[p + 1], p)[l] = Value(l, G, p + 1)
        /\ NextToken(HiddenAt(G[p + 1], p)[NLayers]) = Greedy(SubSeq(G, 1, p + 1))
    BY <1>4, <1>6, <2>1, HiddenExact
  <2> QED
    BY <2>2, <2>3 DEF Best, p
<1>12. Best = golden[(Done + 1) + 1]
  BY <1>6, <1>7, <1>11
<1>13. ExactRows'
  <2>1. ASSUME NEW l \in Layers, NEW q \in 1 .. Here + 1
        PROVE  rows'[RowAt(l, q - 1)] = FreshRow(Value(l, G, q), q)
    <3>0. l \in 0 .. NLayers
      BY Shape
    <3>1. CASE q \in 1 .. Here
      <4>1. q - 1 \in 0 .. kv_max_pos - 1 /\ q - 1 # Here
        BY <1>1, <3>1 DEF RowsFit
      <4> QED
        BY <1>1, <1>10, <3>1, <4>1
    <3>2. CASE q = Here + 1
      <4>1. q - 1 = Here
        BY <1>1, <3>2
      <4>2. States[l] = Value(l, G, Here + 1)
        BY <1>11, <3>0
      <4>3. rows'[RowAt(l, Here)] = FreshRow(States[l], Here + 1)
        BY <1>1
      <4> QED
        BY <3>2, <4>1, <4>2, <4>3
    <3> QED
      BY <1>1, <3>1, <3>2
  <2>2. opts'.context + Done' = Here + 1
    BY <1>1, <1>7 DEF c
  <2> QED
    BY <1>2, <2>1, <2>2 DEF ExactRows
<1>14. ExactInputs'
  <2> SUFFICES ASSUME NEW j \in 1 .. opts.tokens, j <= (Done + 1) + 1 PROVE token_in'[j] = golden[j]
    BY <1>1, <1>2 DEF ExactInputs
  <2>1. CASE j \in 1 .. Done + 1
    <3>1. j <= Done + 1
      BY <1>1, <2>1
    <3>2. token_in[j] = golden[j]
      BY <1>4, <3>1 DEF ExactInputs
    <3> QED
      BY <1>1, <2>1, <3>2
  <2>2. CASE j = Done + 2
    <3>1. CASE opts.teacher
      <4>1. token_in' = token_in
        BY <1>1, <3>1, Zenon
      <4>2. token_in[j] = golden[j]
        BY <1>1, <3>1, Zenon DEF Fits, Under
      <4> QED
        BY <4>1, <4>2
    <3>2. CASE ~opts.teacher
      <4>1. token_in'[Done + 2] = Best
        BY <1>1, <3>2, Zenon
      <4>2. (Done + 1) + 1 = Done + 2
        BY <1>1
      <4> QED
        BY <1>12, <2>2, <4>1, <4>2
    <3> QED
      BY <3>1, <3>2
  <2>3. j \in 1 .. Done + 1 \/ j = Done + 2
    BY <1>1, <1>5
  <2> QED
    BY <2>1, <2>2, <2>3
<1>15. ExactOutputs'
  <2> SUFFICES ASSUME NEW j \in 1 .. Done + 1 PROVE token_out'[j] = golden[j + 1]
    BY <1>1, <1>2 DEF ExactOutputs
  <2>1. CASE j \in 1 .. Done
    BY <1>1, <1>4, <2>1 DEF ExactOutputs
  <2>2. CASE j = Done + 1
    BY <1>1, <1>12, <2>2
  <2> QED
    BY <1>1, <2>1, <2>2
<1>16. ExactDump'
  <2> SUFFICES ASSUME run = opts.repeat - 1, NEW l \in Layers PROVE dump'[l] = golden_hidden[l + 1]
    BY <1>1, <1>2 DEF ExactDump
  <2>1. CASE Done = 0
    <3>1. dump'[l] = States[l + 1]
      BY <1>1, <2>1
    <3>2. l + 1 \in 0 .. NLayers
      BY Shape
    <3>3. States[l + 1] = Value(l + 1, G, Here + 1) /\ Here + 1 = c + 1
      BY <1>6, <1>7, <1>11, <2>1, <3>2
    <3>4. golden_hidden[l + 1] = Value(l + 1, FirstText(c), c + 1)
      BY <1>8 DEF HiddenOf
    <3>5. Value(l + 1, G, c + 1) = Value(l + 1, FirstText(c), c + 1)
      BY <1>6
    <3> QED
      BY <3>1, <3>3, <3>4, <3>5
  <2>2. CASE Done # 0
    BY <1>1, <1>4, <2>2 DEF ExactDump
  <2> QED
    BY <2>1, <2>2
<1> QED
  BY <1>1, <1>4, <1>13, <1>14, <1>15, <1>16 DEF Exact

LEMMA RepeatExact ==
  ASSUME LaunchOK, ExactInv, NextRepeat, UNCHANGED <<packerVars, refVars>>
  PROVE  ExactInv'
<1>1. /\ lstage = "decode" /\ i0' = 0 /\ tok' = 0 /\ run' = run + 1
      /\ token_in' = Inputs(opts) /\ UNCHANGED <<lstage, opts, readable, rows>>
  BY DEF NextRepeat, RunDone
<1>2. opts.context \in Nat \ {0} /\ opts.tokens \in Nat \ {0} /\ Done \in Nat /\ Done' = 0
  BY <1>1, DecodeNumbers DEF Done
<1>3. /\ Whole(opts)' <=> Whole(opts)
      /\ golden' = golden /\ GoldText' = GoldText
      /\ \A l, q : RowAt(l, q)' = RowAt(l, q)
  BY <1>1, SameFiles DEF Whole, WholeFiles
<1>4. SUFFICES ASSUME Whole(opts) PROVE Exact'
  BY <1>1, <1>3 DEF ExactInv
<1>5. Layers \subseteq readable /\ ExactRows
  BY <1>1, <1>4 DEF ExactInv, Exact
<1>6. ExactRows'
  <2>1. opts'.context + Done' = opts.context
    BY <1>1, <1>2
  <2>2. \A q \in 1 .. opts.context : q \in 1 .. opts.context + Done
    BY <1>2
  <2> QED
    BY <1>1, <1>3, <1>5, <2>1, <2>2 DEF ExactRows
<1>7. ExactInputs'
  <2>1. token_in'[1] = golden[1]
    BY <1>1, <1>2 DEF Inputs
  <2>2. \A j \in 1 .. opts.tokens : j <= 0 + 1 => j = 1
    BY <1>2
  <2> QED
    BY <1>1, <1>2, <1>3, <2>1, <2>2 DEF ExactInputs
<1>8. ExactOutputs' /\ ExactDump'
  BY <1>2 DEF ExactOutputs, ExactDump
<1> QED
  BY <1>1, <1>5, <1>6, <1>7, <1>8 DEF Exact

LEMMA StayExact ==
  ASSUME ExactInv, UNCHANGED <<packerVars, refVars>>,
         UNCHANGED <<lstage, opts, readable, rows, token_in, token_out, run, dump, code, layers_ok>>, Done' = Done
  PROVE  ExactInv'
<1>1. /\ Whole(opts)' <=> Whole(opts)
      /\ golden' = golden /\ golden_hidden' = golden_hidden /\ GoldText' = GoldText
      /\ \A l, q : RowAt(l, q)' = RowAt(l, q)
  BY SameFiles DEF Whole, WholeFiles
<1>2. Exact => Exact'
  BY <1>1 DEF Exact, ExactRows, ExactInputs, ExactOutputs, ExactDump
<1> QED
  BY <1>1, <1>2 DEF ExactInv

\* The comparison finds every token, and every layer of the first one.
LEMMA ReportExact ==
  ASSUME NEW V, SpeaksIn(V), LaunchOK, FilesInv(V), ExactInv, Report, UNCHANGED <<packerVars, refVars>>
  PROVE  ExactInv'
<1>1. /\ lstage = "decode" /\ lstage' = "exit" /\ RunDone /\ run + 1 = opts.repeat /\ opts' = opts
      /\ code' = IF Passed(Cardinality(Compared), Cardinality(Matched)) THEN 0 ELSE 3
      /\ layers_ok' = LayersOk
  BY DEF Report, RunDone
<1>2. /\ opts \in Options /\ Done = opts.tokens /\ opts.tokens \in Nat \ {0}
      /\ run \in Nat /\ opts.repeat \in Nat \ {0}
  BY <1>1, DecodeNumbers
<1>3. SUFFICES ASSUME Whole(opts) PROVE code' = 0 /\ layers_ok' = NLayers
  <2>1. Whole(opts)' <=> Whole(opts)
    BY <1>1, SameFiles DEF Whole, WholeFiles
  <2> QED
    BY <1>1, <2>1 DEF ExactInv
<1>4. ExactOutputs /\ ExactDump
  BY <1>1, <1>3 DEF ExactInv, Exact
<1>5. opts.tokens <= cache_bin.by[2] /\ cache_bin.by[2] \in Nat /\ Len(golden) = cache_bin.by[2] + 1
  BY <1>2, <1>3, GoldFacts
<1>6. Compared = 1 .. opts.tokens /\ Matched = 1 .. opts.tokens
  <2>1. \A i \in 1 .. opts.tokens : i + 1 <= Len(golden)
    BY <1>2, <1>5
  <2>2. Compared = 1 .. opts.tokens
    BY <2>1 DEF Compared, HasReference
  <2>3. \A i \in 1 .. opts.tokens : token_out[i] = golden[i + 1]
    BY <1>2, <1>4 DEF ExactOutputs
  <2> QED
    BY <2>2, <2>3 DEF Matched
<1>7. Passed(Cardinality(Compared), Cardinality(Matched))
  <2>1. Cardinality(1 .. opts.tokens) = opts.tokens
    BY <1>2, FS_Interval
  <2> QED
    BY <1>6, <2>1 DEF Passed
<1>8. LayersOk = NLayers
  <2>1. Sized(golden_hidden, NLayers) /\ Len(golden_hidden) = NLayers
    <3>1. HiddenOf(golden_hidden, opts.context)
      BY <1>2, <1>3, WholeFacts
    <3> QED
      BY <3>1, SizedDomain DEF HiddenOf
  <2>2. \A l \in Layers : dump[l] = golden_hidden[l + 1]
    <3>1. run = opts.repeat - 1 /\ Done # 0
      BY <1>1, <1>2
    <3> QED
      BY <1>4, <3>1 DEF ExactDump
  <2> DEFINE S == { l \in Layers : \A m \in 0 .. l : dump[m] = golden_hidden[m + 1] }
  <2>3. S = Layers
    <3>1. \A l \in Layers : \A m \in 0 .. l : m \in Layers
      BY Shape
    <3> QED
      BY <2>2, <3>1
  <2>4. LayersOk = Cardinality(S)
    BY <2>1 DEF LayersOk
  <2>5. Cardinality(Layers) = NLayers
    <3>1. Layers = 0 .. NLayers - 1 /\ NLayers \in Nat \ {0}
      BY Shape
    <3> QED
      BY <3>1, FS_Interval
  <2> QED
    BY <2>3, <2>4, <2>5
<1> QED
  BY <1>1, <1>7, <1>8

LEMMA LauncherExact ==
  ASSUME NEW V, SpeaksIn(V), LaunchOK, FilesInv(V), IInv, PlacedInv, Fits, ExactInv,
         (\E o \in Options : StartLaunch(o)) \/ LauncherStep, UNCHANGED <<packerVars, refVars>>
  PROVE  ExactInv'
<1>1. CASE \E o \in Options : StartLaunch(o)
  BY <1>1, StartExact
<1>2. CASE DecodeToken
  BY <1>2, TokenExact
<1>3. CASE NextLaunch
  <2>1. /\ lstage = "decode" /\ Done' = Done
        /\ UNCHANGED <<lstage, opts, readable, rows, token_in, token_out, run, dump, code, layers_ok>>
    BY <1>3, DecodeNumbers DEF NextLaunch
  <2> QED
    BY <2>1, StayExact
<1>4. CASE NextRepeat
  BY <1>4, RepeatExact
<1>5. CASE Report
  BY <1>5, ReportExact
<1>6. CASE LaunchAborts
  BY <1>6 DEF LaunchAborts, ExactInv
<1>7. CASE LauncherGone
  BY <1>7 DEF LauncherGone, ExactInv
<1> QED
  BY <1>1, <1>2, <1>3, <1>4, <1>5, <1>6, <1>7 DEF LauncherStep

\* Over the files of one whole run and one whole packing the launcher starts
\* and ends with code 0, every hidden state of the first token included, unless
\* the kernel aborts: with a teacher or without, however the tokens are cut into
\* launches, and in every repeat, for every model, prompt and shape (main's
\* bookkeeping of inputs, positions and rows; decode_step's attention; pack,
\* build_fleet_cache and the reference decode loop, whose files it reads).
THEOREM WholeFilesReproduceGolden ==
  ASSUME NEW V, SpeaksIn(V)
  PROVE  Spec => []LaunchReproducesGolden
<1> DEFINE Inv == LaunchInv(V) /\ IInv /\ PlacedInv /\ ExactInv
<1>1. SessionInit => Inv
  <2> SUFFICES ASSUME SessionInit PROVE Inv
    OBVIOUS
  <2>1. PackerInit /\ lstage = "idle"
    BY DEF SessionInit
  <2> QED
    BY <2>1, LaunchInit, InitLayout, InitPlaced DEF ExactInv
<1>2. Inv /\ [Next]_vars => Inv'
  <2> SUFFICES ASSUME LaunchInv(V), IInv, PlacedInv, ExactInv, [Next]_vars PROVE Inv'
    OBVIOUS
  <2>1. LaunchInv(V)'
    BY LaunchNext
  <2>2. IInv' /\ PlacedInv'
    <3>1. [PackerNext]_packerVars
      BY DEF Next, vars, StartPack, PackStep, PackerNext
    <3> QED
      BY <3>1, PackerStep
  <2>3. LaunchOK /\ FilesInv(V) /\ Fits /\ LauncherAlone
    BY DEF LaunchInv, SessionInv
  <2>4. ExactInv'
    <3>1. CASE lstage = "idle" /\ UNCHANGED launcherVars
      BY <3>1 DEF launcherVars, ExactInv
    <3>2. CASE UNCHANGED <<packerVars, refVars>> /\ UNCHANGED launcherVars
      BY <3>2, StayExact DEF launcherVars, Done
    <3>3. CASE /\ UNCHANGED <<packerVars, refVars>>
               /\ (\E o \in Options : StartLaunch(o)) \/ LauncherStep
      BY <2>3, <3>3, LauncherExact
    <3> QED
      BY <2>3, <3>1, <3>2, <3>3, WhoSteps
  <2> QED
    BY <2>1, <2>2, <2>4
<1>3. Inv => LaunchReproducesGolden
  BY DEF ExactInv, LaunchReproducesGolden, Whole
<1> HIDE DEF Inv
<1> QED
  BY <1>1, <1>2, <1>3, PTL DEF Spec

=============================================================================
