--------------------------- MODULE SessionProofs ---------------------------
(***************************************************************************)
(* For every list of tensors, whatever their sizes: what the packer wrote  *)
(* can be read back at the offset it recorded, on a 256-byte boundary, and *)
(* at the offset a manifest of another run records, if its length fits:    *)
(* every one but the last, when the manifest was cut inside its offset.    *)
(*                                                                         *)
(* For every model, shape of its weights, prompt and choice of arguments:  *)
(* the reference run never raises, the rows it converts are its own        *)
(* cache's, and the three tools keep to their types.  The invariant says,  *)
(* for every stage of the reference run, how long each of its sequences is *)
(* and which keys its dictionaries have; that alone makes every mask fit.  *)
(* The converted rows need one thing more: that the captured projections   *)
(* and the rows of the prompt stay what they were while the decode appends *)
(* to one and grows the tables of the other.                               *)
(***************************************************************************)
EXTENDS DecodeSession, Counting, FiniteSetTheorems, TLAPS

-----------------------------------------------------------------------------
(* The packer.                                                             *)

\* The file's length is even and bounds every word written: with that, the
\* next tensor starts past all of them.
Layout ==
  /\ pos \in Nat /\ pos % 2 = 0
  /\ DOMAIN offsets \subseteq DOMAIN Tensor
  /\ \A n \in DOMAIN offsets :
       /\ offsets[n].offset \in Nat
       /\ offsets[n].bytes = Bytes(n)

IInv == Layout /\ ReadsBack

\* -pos % 256 bytes bring the position to the next 256-byte boundary.
LEMMA PadAligns ==
  ASSUME NEW p \in Nat
  PROVE  Pad(p) \in Nat /\ p + Pad(p) \in Nat /\ (p + Pad(p)) % 256 = 0 /\ (p + Pad(p)) % 2 = 0
  BY DEF Pad

LEMMA InitLayout == PackerInit => IInv
  BY DEF PackerInit, IInv, Layout, ReadsBack

\* One tensor more: the older ones lie below the old end of the file, the new
\* words above it.
LEMMA WriteLayout ==
  ASSUME IInv, NEW n \in DOMAIN Tensor, Write(n)
  PROVE  IInv'
<1> DEFINE off == pos + Pad(pos)
           base == off \div 2
<1>1. Len(Tensor[n]) \in Nat /\ DOMAIN Tensor[n] = 1 .. Len(Tensor[n])
  BY PackerAssumption
<1>2. /\ pos \in Nat /\ off \in Nat /\ off >= pos
      /\ off % 256 = 0 /\ off % 2 = 0
  BY PadAligns DEF IInv, Layout
<1>3. base \in Nat /\ 2 * base = off
  BY <1>2
<1>4. pos' = off + 2 * Len(Tensor[n]) /\ pos' \in Nat /\ pos' % 2 = 0
  BY <1>1, <1>2 DEF Write, Bytes
<1>5. /\ DOMAIN offsets' = DOMAIN offsets \cup {n}
      /\ offsets'[n] = [offset |-> off, bytes |-> 2 * Len(Tensor[n])]
      /\ \A m \in DOMAIN offsets \ {n} : offsets'[m] = offsets[m]
  BY DEF Write, Bytes
<1>6. /\ DOMAIN file' = DOMAIN file \cup base .. base + Len(Tensor[n]) - 1
      /\ \A a \in DOMAIN file' : file'[a] = IF a >= base THEN Tensor[n][a - base + 1] ELSE file[a]
  BY DEF Write, WriteFrom
<1>7. Layout'
  <2>1. off \in Nat /\ pos' \in Nat /\ pos' % 2 = 0
    BY <1>2, <1>4
  <2> HIDE DEF off, base
  <2>2. DOMAIN offsets' \subseteq DOMAIN Tensor
    BY <1>5 DEF IInv, Layout
  <2>3. \A m \in DOMAIN offsets' : offsets'[m].offset \in Nat /\ offsets'[m].bytes = Bytes(m)
    BY <1>5, <2>1 DEF IInv, Layout, Bytes
  <2> QED
    BY <2>1, <2>2, <2>3 DEF Layout, Bytes
<1>8. ASSUME NEW m \in DOMAIN offsets'
      PROVE  /\ offsets'[m].offset % 256 = 0
             /\ offsets'[m].offset + offsets'[m].bytes <= pos'
             /\ \A k \in 1 .. Len(Tensor[m]) :
                  LET a == offsets'[m].offset \div 2 + k - 1 IN
                  a \in DOMAIN file' /\ file'[a] = Tensor[m][k]
  <2>1. CASE m = n
    <3>1. offsets'[m].offset = off /\ offsets'[m].bytes = 2 * Len(Tensor[n])
      BY <2>1, <1>5
    <3>2. ASSUME NEW k \in 1 .. Len(Tensor[n])
          PROVE  base + k - 1 \in DOMAIN file' /\ file'[base + k - 1] = Tensor[n][k]
      <4>1. base + k - 1 \in base .. base + Len(Tensor[n]) - 1 /\ base + k - 1 >= base
            /\ (base + k - 1) - base + 1 = k
        BY <1>1, <1>3
      <4> QED
        BY <4>1, <1>6
    <3> QED
      BY <2>1, <3>1, <3>2, <1>1, <1>2, <1>4
  <2>2. CASE m # n
    <3>1. m \in DOMAIN offsets /\ offsets'[m] = offsets[m]
      BY <2>2, <1>5
    <3>2. /\ offsets[m].offset \in Nat /\ offsets[m].offset % 256 = 0
          /\ offsets[m].bytes = 2 * Len(Tensor[m]) /\ Len(Tensor[m]) \in Nat
          /\ offsets[m].offset + offsets[m].bytes <= pos
      BY <3>1, PackerAssumption DEF IInv, Layout, ReadsBack, Bytes
    <3>3. ASSUME NEW k \in 1 .. Len(Tensor[m])
          PROVE  LET a == offsets[m].offset \div 2 + k - 1 IN
                 a \in DOMAIN file' /\ file'[a] = Tensor[m][k]
      <4> DEFINE a == offsets[m].offset \div 2 + k - 1
      <4>1. a \in DOMAIN file /\ file[a] = Tensor[m][k]
        BY <3>1 DEF IInv, ReadsBack
      <4>2. \A o, len, p, f, b \in Nat :
              o + 2 * len <= p /\ p <= f /\ 2 * b = f /\ k <= len => (o \div 2) + k - 1 < b
        OBVIOUS
      <4>3. a \in Int /\ k <= Len(Tensor[m])
        BY <3>2
      <4>4. a < base
        BY <4>2, <4>3, <3>2, <1>2, <1>3
      <4> QED
        BY <4>1, <4>3, <4>4, <1>3, <1>6
    <3>4. /\ offsets'[m].offset % 256 = 0
          /\ offsets'[m].offset + offsets'[m].bytes <= pos'
      <4>1. pos \in Nat /\ pos' \in Nat /\ pos <= pos'
        BY <1>1, <1>2, <1>4
      <4>2. /\ offsets[m].offset \in Nat /\ offsets[m].bytes \in Nat
            /\ offsets[m].offset + offsets[m].bytes <= pos
        BY <3>2
      <4> DEFINE o == offsets[m].offset
                 n2 == offsets[m].bytes
      <4> HIDE DEF o, n2
      <4>3. o \in Nat /\ n2 \in Nat /\ o + n2 <= pos /\ o % 256 = 0
        BY <3>2, <4>2 DEF o, n2
      <4>4. o + n2 <= pos'
        BY <4>1, <4>3
      <4> QED
        BY <3>1, <4>3, <4>4, Zenon DEF o, n2
    <3> QED
      BY <3>1, <3>3, <3>4
  <2> QED
    BY <2>1, <2>2
<1> QED
  BY <1>7, <1>8 DEF IInv, ReadsBack

\* Opening truncates the file and forgets the offsets; the other steps touch
\* neither.
LEMMA OtherStepsLayout ==
  ASSUME IInv, OpenBlob \/ CloseBlob \/ WriteManifest \/ TearManifest \/ PackDies
         \/ UNCHANGED packerVars
  PROVE  IInv'
<1>1. CASE OpenBlob
  BY <1>1 DEF OpenBlob, IInv, Layout, ReadsBack
<1>2. CASE CloseBlob
  BY <1>2 DEF CloseBlob, IInv, Layout, ReadsBack
<1>3. CASE WriteManifest
  BY <1>3 DEF WriteManifest, IInv, Layout, ReadsBack
<1>4. CASE PackDies
  BY <1>4 DEF PackDies, IInv, Layout, ReadsBack
<1>5. CASE UNCHANGED packerVars
  BY <1>5 DEF packerVars, IInv, Layout, ReadsBack
<1>6. CASE TearManifest
  BY <1>6 DEF TearManifest, IInv, Layout, ReadsBack
<1> QED
  BY <1>1, <1>2, <1>3, <1>4, <1>5, <1>6

\* At every moment of every run, dead or alive, each tensor the packer has
\* recorded is where it recorded it (Packer._write, Packer.close).
THEOREM EveryTensorReadsBack == PackerSpec => []ReadsBack
<1>1. PackerInit => IInv
  BY InitLayout
<1>2. IInv /\ [PackerNext]_packerVars => IInv'
  BY WriteLayout, OtherStepsLayout DEF PackerNext
<1>3. IInv => ReadsBack
  BY DEF IInv
<1> QED
  BY <1>1, <1>2, <1>3, PTL DEF PackerSpec

-----------------------------------------------------------------------------
(* A manifest against the file of another run.  The manifest of one run    *)
(* may stand beside the file of a later one; when the launcher's test of   *)
(* the length lets them pass, the file is whole and the offsets are right. *)

\* Where the first i tensors of a table end.
End(tab, i) == IF i = 0 THEN 0 ELSE tab[Names[i]].offset + Bytes(Names[i])

\* The table is that of a packing that has written n tensors: which it is does
\* not depend on the run, since every tensor is placed after the one before.
Placed(tab, n) ==
  /\ n \in 0 .. Len(Names)
  /\ DOMAIN tab = { Names[i] : i \in 1 .. n }
  /\ \A i \in 1 .. n :
       tab[Names[i]] = [offset |-> End(tab, i - 1) + Pad(End(tab, i - 1)), bytes |-> Bytes(Names[i])]
  /\ \A i \in 0 .. n : End(tab, i) \in Nat
  /\ \A i \in 1 .. n : \A j \in 0 .. i - 1 : End(tab, j) <= tab[Names[i]].offset

FilePlaced ==
  /\ next \in Nat \ {0} /\ Placed(offsets, next - 1) /\ pos = End(offsets, next - 1)
  /\ packing = "closed" => next = Len(Names) + 1

\* The manifest is table t of a packing that wrote n tensors, but for the lost
\* offset.  A torn one has the length of the whole file, but not all tensors, or
\* all and the last one lost.
IsTable(t, n) ==
  /\ Placed(t, n)
  /\ DOMAIN manifest.tensors = DOMAIN t
  /\ \A x \in DOMAIN t \ manifest.lost : manifest.tensors[x] = t[x]
  /\ n = Len(Names) => manifest.bytes = End(t, n)

ManifestPlaced ==
  manifest # NoManifest =>
    /\ manifest.lost \subseteq {LastName}
    /\ \E n \in 0 .. Len(Names) : \E t : IsTable(t, n)

PlacedInv == FilePlaced /\ ManifestPlaced

LEMMA NamesFacts ==
  /\ Len(Names) \in Nat /\ DOMAIN Names = 1 .. Len(Names)
  /\ \A i \in 1 .. Len(Names) : Names[i] \in DOMAIN Tensor /\ Bytes(Names[i]) \in Nat
  /\ \A i, j \in 1 .. Len(Names) : Names[i] = Names[j] => i = j
<1> DEFINE D == DOMAIN Tensor
<1>0. Names \in Seq(D)
  BY PackerAssumption
<1> HIDE DEF D
<1>1. Len(Names) \in Nat /\ DOMAIN Names = 1 .. Len(Names)
  BY <1>0
<1>4. \A i \in 1 .. Len(Names) : Names[i] \in D
  BY <1>0
<1>2. \A i \in 1 .. Len(Names) : Names[i] \in DOMAIN Tensor
  BY <1>4 DEF D
<1>3. ASSUME NEW i \in 1 .. Len(Names) PROVE Bytes(Names[i]) \in Nat
  <2>1. Len(Tensor[Names[i]]) \in Nat
    BY <1>2, PackerAssumption
  <2> QED
    BY <2>1 DEF Bytes
<1> QED
  BY <1>1, <1>2, <1>3, PackerAssumption

\* Two tables agree as far as both go.
LEMMA TablesAgree ==
  ASSUME NEW s, NEW t, NEW m, NEW n, Placed(s, m), Placed(t, n), m <= n
  PROVE  /\ \A i \in 0 .. m : End(s, i) = End(t, i)
         /\ \A i \in 1 .. m : s[Names[i]] = t[Names[i]]
<1> DEFINE D == { i \in 1 .. m : s[Names[i]] # t[Names[i]] }
<1>1. m \in Nat /\ n \in Nat
  <2>1. m \in 0 .. Len(Names) /\ n \in 0 .. Len(Names)
    BY DEF Placed
  <2> QED
    BY <2>1, NamesFacts
<1>2. D = {}
  <2> SUFFICES ASSUME D # {} PROVE FALSE
    OBVIOUS
  <2>1. PICK i \in D : \A j \in D : i <= j
    <3>1. D \subseteq Nat
      BY <1>1
    <3> HIDE DEF D
    <3> QED
      BY <3>1, Least
  <2>2. i \in 1 .. m /\ i \in 1 .. n /\ i - 1 \in 0 .. m
    BY <1>1
  <2>3. End(s, i - 1) = End(t, i - 1)
    <3>1. CASE i = 1
      BY <3>1 DEF End
    <3>2. CASE i # 1
      <4>1. i - 1 \in 1 .. m /\ i - 1 \notin D
        BY <1>1, <2>1, <2>2, <3>2
      <4>2. s[Names[i - 1]] = t[Names[i - 1]]
        BY <4>1
      <4> QED
        BY <3>2, <4>2 DEF End
    <3> QED
      BY <3>1, <3>2
  <2>4. s[Names[i]] = t[Names[i]]
    <3>1. s[Names[i]] = [offset |-> End(s, i - 1) + Pad(End(s, i - 1)), bytes |-> Bytes(Names[i])]
      BY <2>2 DEF Placed
    <3>2. t[Names[i]] = [offset |-> End(t, i - 1) + Pad(End(t, i - 1)), bytes |-> Bytes(Names[i])]
      BY <2>2 DEF Placed
    <3> QED
      BY <2>3, <3>1, <3>2
  <2> QED
    BY <2>4
<1>3. \A i \in 1 .. m : s[Names[i]] = t[Names[i]]
  BY <1>2
<1>4. ASSUME NEW i \in 0 .. m PROVE End(s, i) = End(t, i)
  BY <1>1, <1>3, <1>4 DEF End
<1> QED
  BY <1>3, <1>4

\* Writing the next tensor extends the table.
LEMMA WritePlaces ==
  ASSUME PlacedInv, NEW n \in DOMAIN Tensor, Write(n)
  PROVE  PlacedInv'
<1> DEFINE m == next
           off == pos + Pad(pos)
<1>1. /\ packing = "open" /\ m \in DOMAIN Names /\ n = Names[m] /\ m \in 1 .. Len(Names)
      /\ DOMAIN Names = 1 .. Len(Names) /\ Len(Names) \in Nat
      /\ Bytes(n) \in Nat
  BY NamesFacts DEF Write
<1>2. /\ Placed(offsets, m - 1) /\ pos = End(offsets, m - 1) /\ m \in Nat \ {0}
  BY DEF PlacedInv, FilePlaced
<1>3. pos \in Nat /\ off \in Nat /\ off >= pos
  <2>1. m - 1 \in 0 .. m - 1
    BY <1>1
  <2>2. pos \in Nat
    BY <1>2, <2>1 DEF Placed
  <2> QED
    BY <2>2, PadAligns
<1>4. /\ DOMAIN offsets' = DOMAIN offsets \cup {n}
      /\ offsets'[n] = [offset |-> off, bytes |-> Bytes(n)]
      /\ \A i \in 1 .. m - 1 : offsets'[Names[i]] = offsets[Names[i]]
      /\ next' = m + 1 /\ pos' = off + Bytes(n) /\ UNCHANGED <<packing, manifest>>
  <2>1. ASSUME NEW i \in 1 .. m - 1 PROVE Names[i] # n /\ Names[i] \in DOMAIN offsets
    <3>1. i \in 1 .. Len(Names) /\ i # m
      BY <1>1
    <3> QED
      BY <1>1, <1>2, <3>1, NamesFacts DEF Placed
  <2> QED
    BY <1>1, <2>1 DEF Write
<1>5. \A i \in 0 .. m - 1 : End(offsets', i) = End(offsets, i)
  BY <1>2, <1>4 DEF End
<1>6. End(offsets', m) = pos' /\ pos' \in Nat
  BY <1>1, <1>3, <1>4 DEF End
<1>7. Placed(offsets', m)
  <2>1. DOMAIN offsets' = { Names[i] : i \in 1 .. m }
    BY <1>1, <1>2, <1>4 DEF Placed
  <2>2. ASSUME NEW i \in 1 .. m
        PROVE  offsets'[Names[i]] =
                 [offset |-> End(offsets', i - 1) + Pad(End(offsets', i - 1)), bytes |-> Bytes(Names[i])]
    <3>1. CASE i = m
      BY <1>1, <1>2, <1>4, <1>5, <3>1
    <3>2. CASE i # m
      <4>1. i \in 1 .. m - 1 /\ i - 1 \in 0 .. m - 1
        BY <1>1, <3>2
      <4> QED
        BY <1>2, <1>4, <1>5, <4>1 DEF Placed
    <3> QED
      BY <3>1, <3>2
  <2>3. \A i \in 0 .. m : End(offsets', i) \in Nat
    <3>1. \A i \in 0 .. m : i = m \/ i \in 0 .. m - 1
      BY <1>1
    <3> QED
      BY <1>2, <1>5, <1>6, <3>1 DEF Placed
  <2>4. ASSUME NEW i \in 1 .. m, NEW j \in 0 .. i - 1
        PROVE  End(offsets', j) <= offsets'[Names[i]].offset
    <3>0. j \in 0 .. m - 1 /\ End(offsets', j) = End(offsets, j) /\ End(offsets, j) \in Nat
      BY <1>1, <1>2, <1>5 DEF Placed
    <3>1. CASE i # m
      <4>1. i \in 1 .. m - 1
        BY <1>1, <3>1
      <4> QED
        BY <1>2, <1>4, <3>0, <4>1 DEF Placed
    <3>2. CASE i = m
      <4>1. End(offsets, j) <= pos
        <5>1. CASE j = m - 1
          BY <1>2, <1>3, <5>1
        <5>2. CASE j # m - 1
          <6>1. m - 1 \in 1 .. m - 1 /\ j \in 0 .. m - 1 - 1
            BY <1>1, <3>0, <5>2
          <6>2. End(offsets, j) <= offsets[Names[m - 1]].offset
            BY <1>2, <6>1 DEF Placed
          <6>3. pos = offsets[Names[m - 1]].offset + Bytes(Names[m - 1])
            BY <1>2, <6>1 DEF End
          <6>4. Bytes(Names[m - 1]) \in Nat
            BY <1>1, <6>1, NamesFacts
          <6>5. offsets[Names[m - 1]].offset \in Nat
            <7> DEFINE q == m - 1
            <7>1. q \in 1 .. q /\ q - 1 \in 0 .. q
              BY <1>2, <6>1
            <7>2. Placed(offsets, q)
              BY <1>2
            <7> HIDE DEF q
            <7>3. offsets[Names[q]] =
                    [offset |-> End(offsets, q - 1) + Pad(End(offsets, q - 1)), bytes |-> Bytes(Names[q])]
              BY <7>1, <7>2 DEF Placed
            <7>4. End(offsets, q - 1) \in Nat
              BY <7>1, <7>2 DEF Placed
            <7>5. offsets[Names[q]].offset \in Nat
              BY <7>3, <7>4, PadAligns
            <7> QED
              BY <7>5 DEF q
          <6> QED
            BY <3>0, <6>2, <6>3, <6>4, <6>5
        <5> QED
          BY <5>1, <5>2
      <4> QED
        BY <1>1, <1>3, <1>4, <3>0, <3>2, <4>1
    <3> QED
      BY <3>1, <3>2
  <2>5. m \in 0 .. Len(Names)
    BY <1>1
  <2> HIDE DEF m
  <2> QED
    BY <2>1, <2>2, <2>3, <2>4, <2>5 DEF Placed
<1>8. FilePlaced'
  <2>1. next' - 1 = m /\ next' \in Nat \ {0} /\ packing' # "closed"
    BY <1>1, <1>4
  <2> QED
    BY <1>6, <1>7, <2>1 DEF FilePlaced
<1> QED
  BY <1>4, <1>8 DEF PlacedInv, ManifestPlaced, IsTable

LEMMA InitPlaced == PackerInit => PlacedInv
<1> SUFFICES ASSUME PackerInit PROVE PlacedInv
  OBVIOUS
<1>1. Placed(<< >>, 0)
  BY NamesFacts DEF Placed, End
<1>2. End(<< >>, 0) = 0
  BY DEF End
<1> QED
  BY <1>1, <1>2 DEF PackerInit, PlacedInv, FilePlaced, ManifestPlaced

\* A manifest cut short is that of a packing that wrote fewer tensors.
LEMMA CutTable ==
  ASSUME NEW s, NEW m, Placed(s, m), NEW w \in 0 .. m
  PROVE  Placed([n \in { Names[i] : i \in 1 .. w } |-> s[n]], w)
<1> DEFINE t == [n \in { Names[i] : i \in 1 .. w } |-> s[n]]
<1>0. m \in 0 .. Len(Names) /\ w \in 0 .. Len(Names) /\ w \in Nat /\ m \in Nat
  <2>1. m \in 0 .. Len(Names)
    BY DEF Placed
  <2> QED
    BY <2>1, NamesFacts
<1>1. DOMAIN t = { Names[i] : i \in 1 .. w } /\ \A i \in 1 .. w : t[Names[i]] = s[Names[i]]
  OBVIOUS
<1> HIDE DEF t
<1>2. ASSUME NEW i \in 0 .. w PROVE End(t, i) = End(s, i)
  BY <1>0, <1>1, <1>2 DEF End
<1>3. ASSUME NEW i \in 1 .. w
      PROVE  t[Names[i]] = [offset |-> End(t, i - 1) + Pad(End(t, i - 1)), bytes |-> Bytes(Names[i])]
  <2>1. i \in 1 .. m /\ i - 1 \in 0 .. w
    BY <1>0
  <2>2. s[Names[i]] = [offset |-> End(s, i - 1) + Pad(End(s, i - 1)), bytes |-> Bytes(Names[i])]
    BY <2>1 DEF Placed
  <2> QED
    BY <1>1, <1>2, <2>1, <2>2
<1>4. ASSUME NEW i \in 0 .. w PROVE End(t, i) \in Nat
  <2>1. i \in 0 .. m
    BY <1>0
  <2> QED
    BY <1>2, <2>1 DEF Placed
<1>5. ASSUME NEW i \in 1 .. w, NEW j \in 0 .. i - 1
      PROVE  End(t, j) <= t[Names[i]].offset
  <2>1. i \in 1 .. m /\ j \in 0 .. w
    BY <1>0
  <2>2. End(s, j) <= s[Names[i]].offset
    BY <2>1 DEF Placed
  <2> QED
    BY <1>1, <1>2, <2>1, <2>2
<1>6. Placed(t, w)
  BY <1>0, <1>1, <1>3, <1>4, <1>5 DEF Placed
<1> QED
  BY <1>6 DEF t

LEMMA OthersPlaced ==
  ASSUME PlacedInv, OpenBlob \/ CloseBlob \/ WriteManifest \/ TearManifest \/ PackDies
         \/ UNCHANGED packerVars
  PROVE  PlacedInv'
<1> USE DEF PlacedInv
<1>1. CASE OpenBlob
  <2>1. Placed(<< >>, 0) /\ End(<< >>, 0) = 0
    BY NamesFacts DEF Placed, End
  <2> QED
    BY <1>1, <2>1 DEF OpenBlob, FilePlaced, ManifestPlaced, IsTable
<1>2. CASE CloseBlob
  <2>1. next - 1 \in 0 .. Len(Names)
    BY DEF FilePlaced, Placed
  <2>2. next \in Nat \ {0} /\ next \notin 1 .. Len(Names)
    BY <1>2, NamesFacts DEF FilePlaced, CloseBlob
  <2>3. next = Len(Names) + 1
    BY <2>1, <2>2, NamesFacts
  <2> QED
    BY <1>2, <2>3 DEF CloseBlob, FilePlaced, ManifestPlaced, IsTable
<1>3. CASE WriteManifest
  <2>1. /\ next - 1 = Len(Names) /\ Placed(offsets, Len(Names)) /\ pos = End(offsets, Len(Names))
        /\ Len(Names) \in 0 .. Len(Names)
    <3>1. next = Len(Names) + 1
      BY <1>3 DEF WriteManifest, FilePlaced
    <3>2. next - 1 = Len(Names)
      BY <3>1, NamesFacts
    <3> QED
      BY <3>2, NamesFacts DEF FilePlaced
  <2>2. manifest'.bytes = pos /\ manifest'.tensors = offsets /\ manifest'.lost = {}
    BY <1>3 DEF WriteManifest
  <2>3. IsTable(offsets, Len(Names))'
    BY <1>3, <2>1, <2>2 DEF WriteManifest, IsTable, Placed, End, Bytes
  <2>4. ManifestPlaced'
    BY <2>1, <2>2, <2>3 DEF ManifestPlaced
  <2> QED
    BY <1>3, <2>4 DEF WriteManifest, FilePlaced
<1>4. CASE TearManifest
  <2>0. Placed(offsets, Len(Names)) /\ pos = End(offsets, Len(Names)) /\ UNCHANGED <<offsets, pos, next>>
    <3>1. next = Len(Names) + 1
      BY <1>4 DEF TearManifest, FilePlaced
    <3>2. next - 1 = Len(Names)
      BY <3>1, NamesFacts
    <3> QED
      BY <1>4, <3>2 DEF FilePlaced, TearManifest
  <2>1. ASSUME NEW w \in 0 .. Len(Names) - 1,
               manifest' = [bytes |-> pos, lost |-> {},
                            tensors |-> [n \in { Names[i] : i \in 1 .. w } |-> offsets[n]]]
        PROVE  ManifestPlaced'
    <3> DEFINE t == [n \in { Names[i] : i \in 1 .. w } |-> offsets[n]]
    <3>1. w \in 0 .. Len(Names) /\ w # Len(Names)
      BY NamesFacts
    <3>2. Placed(t, w)
      BY <2>0, <3>1, CutTable
    <3>3. manifest'.tensors = t /\ manifest'.lost = {}
      BY <2>1
    <3> HIDE DEF t
    <3> QED
      BY <3>1, <3>2, <3>3 DEF ManifestPlaced, IsTable
  <2>2. ASSUME NEW o,
               manifest' = [bytes |-> pos, lost |-> {LastName},
                            tensors |-> [n \in DOMAIN offsets |->
                               IF n = LastName THEN [offset |-> o, bytes |-> NoNumber] ELSE offsets[n]]]
        PROVE  ManifestPlaced'
    <3>1. /\ manifest'.lost = {LastName} /\ manifest'.bytes = pos
          /\ DOMAIN manifest'.tensors = DOMAIN offsets
          /\ \A x \in DOMAIN offsets \ {LastName} : manifest'.tensors[x] = offsets[x]
      BY <2>2
    <3>2. Len(Names) \in 0 .. Len(Names)
      BY NamesFacts
    <3> QED
      BY <2>0, <3>1, <3>2 DEF ManifestPlaced, IsTable
  <2>3. ManifestPlaced'
    BY <1>4, <2>1, <2>2 DEF TearManifest
  <2> QED
    BY <1>4, <2>3 DEF TearManifest, FilePlaced
<1>5. CASE PackDies
  BY <1>5 DEF PackDies, FilePlaced, ManifestPlaced, IsTable
<1>6. CASE UNCHANGED packerVars
  BY <1>6 DEF packerVars, FilePlaced, ManifestPlaced, IsTable
<1> QED
  BY <1>1, <1>2, <1>3, <1>4, <1>5, <1>6

\* A manifest that names every tensor and has the length of the file, whichever
\* runs the two are from, says where every tensor is; the last one's offset may
\* be lost, in a manifest cut there, and no other one (load_manifest and the
\* length test of upload_file).
BlobReadsBack ==
  (/\ manifest # NoManifest /\ Accepted
   /\ \A i \in DOMAIN Names : Names[i] \in DOMAIN manifest.tensors)
  => /\ manifest.lost \subseteq {LastName}
     /\ \A i \in DOMAIN Names : Names[i] \notin manifest.lost =>
          /\ manifest.tensors[Names[i]].offset \in Nat
          /\ \A k \in 1 .. Len(Tensor[Names[i]]) :
               LET a == manifest.tensors[Names[i]].offset \div 2 + k - 1 IN
               a \in DOMAIN file /\ file[a] = Tensor[Names[i]][k]

NoEmptyTensor == \A i \in DOMAIN Names : Len(Tensor[Names[i]]) # 0

LEMMA AcceptedReadsBack ==
  ASSUME NoEmptyTensor, IInv, PlacedInv
  PROVE  BlobReadsBack
<1>0. SUFFICES ASSUME manifest # NoManifest, manifest.bytes = pos,
                      \A i \in DOMAIN Names : Names[i] \in DOMAIN manifest.tensors,
                      NEW i \in DOMAIN Names, Names[i] \notin manifest.lost
             PROVE  /\ manifest.tensors[Names[i]].offset \in Nat
                    /\ \A k \in 1 .. Len(Tensor[Names[i]]) :
                         LET a == manifest.tensors[Names[i]].offset \div 2 + k - 1 IN
                         a \in DOMAIN file /\ file[a] = Tensor[Names[i]][k]
  BY DEF BlobReadsBack, Accepted, PlacedInv, ManifestPlaced
<1> DEFINE N == Len(Names)
           j == next - 1
<1>1. N \in Nat \ {0} /\ DOMAIN Names = 1 .. N /\ i \in 1 .. N
  BY NamesFacts
<1>2. PICK n \in 0 .. N : \E u : IsTable(u, n)
  BY <1>0 DEF PlacedInv, ManifestPlaced
<1>20. PICK t : IsTable(t, n)
  BY <1>2
<1>21. Placed(t, N) /\ pos = End(t, N)
  <2>1. Placed(t, n) /\ (n = N => manifest.bytes = End(t, n)) /\ DOMAIN manifest.tensors = DOMAIN t
    BY <1>20 DEF IsTable
  <2>2. Names[N] \in DOMAIN t /\ N \in 1 .. N
    <3>1. N \in 1 .. N /\ N \in DOMAIN Names
      BY <1>1
    <3> HIDE DEF N
    <3> QED
      BY <1>0, <2>1, <3>1
  <2>3. PICK m \in 1 .. n : Names[N] = Names[m]
    BY <2>1, <2>2 DEF Placed
  <2>4. m \in 1 .. N
    <3>1. N \in Nat /\ n \in 0 .. N /\ m \in 1 .. n
      BY <1>1, <1>2, <2>3
    <3> HIDE DEF N
    <3> QED
      BY <3>1
  <2>5. N = m
    <3>1. \A p, q \in 1 .. N : Names[p] = Names[q] => p = q
      BY NamesFacts
    <3> HIDE DEF N
    <3> QED
      BY <2>2, <2>3, <2>4, <3>1
  <2>6. n = N
    BY <1>1, <1>2, <2>3, <2>5
  <2> QED
    BY <1>0, <2>1, <2>6
<1>3. Placed(offsets, j) /\ pos = End(offsets, j) /\ j \in 0 .. N
  BY DEF PlacedInv, FilePlaced, Placed
<1>4. j <= N /\ j \in Nat
  BY <1>1, <1>3
<1>5. j = N
  <2> SUFFICES ASSUME j # N PROVE FALSE
    OBVIOUS
  <2>1. j \in 0 .. N - 1 /\ N \in 1 .. N
    BY <1>1, <1>3
  <2>2. End(offsets, j) = End(t, j)
    <3>1. j \in 0 .. j
      BY <1>4
    <3> HIDE DEF j, N
    <3> QED
      BY <1>21, <1>3, <1>4, <3>1, TablesAgree
  <2>3. End(t, j) <= t[Names[N]].offset
    BY <1>21, <2>1 DEF Placed
  <2>4. End(t, N) = t[Names[N]].offset + Bytes(Names[N])
    BY <1>1 DEF End
  <2>5. Bytes(Names[N]) > 0
    <3>1. Names[N] \in DOMAIN Tensor
      BY <2>1, NamesFacts
    <3>2. Len(Tensor[Names[N]]) \in Nat /\ Len(Tensor[Names[N]]) # 0
      BY <1>1, <2>1, <3>1, PackerAssumption DEF NoEmptyTensor
    <3> QED
      BY <3>2 DEF Bytes
  <2>6. t[Names[N]].offset \in Nat
    <3>1. N - 1 \in 0 .. N
      BY <1>1
    <3> HIDE DEF N, j
    <3>2. t[Names[N]] = [offset |-> End(t, N - 1) + Pad(End(t, N - 1)), bytes |-> Bytes(Names[N])]
      BY <1>21, <2>1 DEF Placed
    <3>3. End(t, N - 1) \in Nat
      BY <1>21, <3>1 DEF Placed
    <3> QED
      BY <3>2, <3>3, PadAligns
  <2>7. Bytes(Names[N]) \in Nat
    BY <2>1, NamesFacts
  <2>8. End(t, j) = End(t, N)
    BY <1>21, <1>3, <2>2
  <2> HIDE DEF N, j
  <2> QED
    BY <2>3, <2>4, <2>5, <2>6, <2>7, <2>8
<1>6. offsets[Names[i]] = t[Names[i]] /\ Names[i] \in DOMAIN offsets
  <2>1. i \in 1 .. j
    BY <1>1, <1>5
  <2> HIDE DEF j, N
  <2>2. offsets[Names[i]] = t[Names[i]]
    BY <1>21, <1>3, <1>4, <2>1, TablesAgree
  <2>3. Names[i] \in DOMAIN offsets
    BY <1>3, <2>1 DEF Placed
  <2> QED
    BY <2>2, <2>3
<1>7. manifest.tensors[Names[i]] = t[Names[i]]
  <2>1. Names[i] \in DOMAIN t
    BY <1>0, <1>20 DEF IsTable
  <2> QED
    BY <1>0, <1>20, <2>1 DEF IsTable
<1>8. offsets[Names[i]].offset \in Nat
  BY <1>6 DEF IInv, Layout
<1> QED
  BY <1>6, <1>7, <1>8 DEF IInv, ReadsBack

LEMMA PackerStep ==
  ASSUME IInv, PlacedInv, [PackerNext]_packerVars
  PROVE  IInv' /\ PlacedInv'
BY WriteLayout, WritePlaces, OtherStepsLayout, OthersPlaced DEF PackerNext

\* Packing can be cut off anywhere and repeated, and the manifest of one run
\* may be read with the blob of another: if the launcher takes the pair, every
\* tensor is where the manifest says, but for the last one when the manifest was
\* cut inside its offset (Packer.write, write_manifest, load_manifest, upload_file).
THEOREM AcceptedBlobsReadBack ==
  ASSUME NoEmptyTensor
  PROVE  PackerSpec => []BlobReadsBack
<1>1. PackerInit => IInv /\ PlacedInv
  BY InitLayout, InitPlaced
<1>2. (IInv /\ PlacedInv) /\ [PackerNext]_packerVars => (IInv /\ PlacedInv)'
  BY PackerStep
<1>3. IInv /\ PlacedInv => BlobReadsBack
  BY AcceptedReadsBack
<1> QED
  BY <1>1, <1>2, <1>3, PTL DEF PackerSpec

-----------------------------------------------------------------------------
(* The reference run.                                                      *)

\* s is a sequence of length n.
Sized(s, n) == n \in Nat /\ s \in Seq({ s[i] : i \in 1 .. n }) /\ Len(s) = n

-----------------------------------------------------------------------------
(* Sequences known by their length only.                                   *)

LEMMA SizedFunction ==
  ASSUME NEW n \in Nat, NEW f, f = [i \in 1 .. n |-> f[i]]
  PROVE  Sized(f, n)
BY DEF Sized

LEMMA SizedDomain ==
  ASSUME NEW n, NEW s, Sized(s, n)
  PROVE  n \in Nat /\ DOMAIN s = 1 .. n /\ Len(s) = n /\ s = [i \in 1 .. n |-> s[i]]
BY DEF Sized

\* Two sequences of known lengths have a set of values in common.
LEMMA SizedInSeq ==
  ASSUME NEW m, NEW n, NEW s, NEW t, Sized(s, m), Sized(t, n)
  PROVE  \E S : /\ s \in Seq(S) /\ t \in Seq(S)
                /\ Len(s) = m /\ Len(t) = n /\ m \in Nat /\ n \in Nat
<1> DEFINE S == { s[i] : i \in 1 .. m } \cup { t[i] : i \in 1 .. n }
<1>1. DOMAIN s = 1 .. m /\ DOMAIN t = 1 .. n
  BY DEF Sized
<1>2. s \in Seq(S) /\ t \in Seq(S) /\ Len(s) = m /\ Len(t) = n /\ m \in Nat /\ n \in Nat
  BY <1>1 DEF Sized
<1> QED
  BY <1>2

LEMMA SizedConcat ==
  ASSUME NEW m, NEW n, NEW s, NEW t, Sized(s, m), Sized(t, n)
  PROVE  Sized(s \o t, m + n)
<1> DEFINE c == s \o t
           l == m + n
<1>1. PICK S : /\ s \in Seq(S) /\ t \in Seq(S)
               /\ Len(s) = m /\ Len(t) = n /\ m \in Nat /\ n \in Nat
  BY SizedInSeq
<1>2. c \in Seq(S) /\ Len(c) = l /\ l \in Nat
  BY <1>1
<1> HIDE DEF c, l
<1>3. c = [i \in 1 .. l |-> c[i]]
  <2>1. DOMAIN c = 1 .. l
    BY <1>2
  <2>2. c = [i \in DOMAIN c |-> c[i]]
    BY <1>2
  <2> QED
    BY <2>1, <2>2, Zenon
<1>4. Sized(c, l)
  BY <1>2, <1>3, SizedFunction
<1> QED
  BY <1>4 DEF c, l

LEMMA SizedAppend ==
  ASSUME NEW n, NEW s, NEW x, Sized(s, n)
  PROVE  Sized(Append(s, x), n + 1)
<1> DEFINE S == { s[i] : i \in 1 .. n } \cup {x}
           c == Append(s, x)
<1>1. s \in Seq(S) /\ Len(s) = n /\ n \in Nat
  <2>1. DOMAIN s = 1 .. n
    BY DEF Sized
  <2> QED
    BY <2>1 DEF Sized
<1> HIDE DEF S
<1>2. c \in Seq(S) /\ Len(c) = n + 1
  <2>1. x \in S
    BY DEF S
  <2> QED
    BY <1>1, <2>1
<1> HIDE DEF c
<1>3. c = [i \in 1 .. n + 1 |-> c[i]]
  BY <1>1, <1>2
<1>4. Sized(c, n + 1)
  BY <1>1, <1>3, SizedFunction
<1> QED
  BY <1>4 DEF c

LEMMA SizedSub ==
  ASSUME NEW n, NEW s, NEW m \in 0 .. n, Sized(s, n)
  PROVE  Sized(SubSeq(s, 1, m), m)
<1> DEFINE c == SubSeq(s, 1, m)
<1>1. c = [i \in 1 .. m |-> s[i]]
  BY DEF Sized
<1> HIDE DEF c
<1>2. c = [i \in 1 .. m |-> c[i]]
  BY <1>1
<1>3. Sized(c, m)
  BY <1>2, SizedFunction DEF Sized
<1> QED
  BY <1>3 DEF c

-----------------------------------------------------------------------------
(* The reference run.                                                      *)

\* Positions of the current forward, tokens the decode has come to, and rows
\* the cache of a layer holds.
Width   == IF stage = "prefill" THEN context ELSE 1
Given   == start - context + 1
RowsOf(l) == start + (IF l < layer THEN Width ELSE 0)

Gathered == DOMAIN hidden = Layers /\ DOMAIN compressed = Layers

\* Where a run is determines the length of all it keeps.
PhaseOK ==
  /\ stage = "idle" =>
       /\ layer = 0 /\ hooks = {} /\ hidden = << >> /\ compressed = << >> /\ gen_ids = << >>
       /\ \A l \in Layers : past[l] = << >> /\ cached[l] = None
  /\ stage # "idle" =>
       /\ Sized(hs, Width) /\ start \in Nat /\ masked = start + Width
       /\ \A l \in Layers : Sized(past[l], RowsOf(l))
  /\ stage = "prefill" =>
       /\ start = 0 /\ hooks = {"layer", "kv"} /\ gen_ids = << >>
       /\ DOMAIN hidden = 0 .. layer - 1 /\ DOMAIN compressed = 0 .. layer - 1
  /\ stage = "decode" =>
       /\ Given \in 1 .. decode /\ Sized(gen_ids, Given) /\ DOMAIN compressed = Layers
       /\ IF Given = 1 THEN hooks = {"layer"} /\ DOMAIN hidden = 0 .. layer - 1
          ELSE hooks = {} /\ DOMAIN hidden = Layers
  /\ stage \in {"cache", "tokens", "hidden"} =>
       /\ layer = NLayers /\ hooks = {} /\ Gathered
       /\ Given = decode /\ Sized(gen_ids, decode + 1)

\* The prompt's rows are those the hook's captures give, whatever the decode
\* has added since and however far the tables have grown.
Captured(l) ==
  /\ Sized(compressed[l], context)
  /\ \A i \in 1 .. context :
       past[l][i] = Row(compressed[l][i], [pos |-> i - 1, base |-> 0])

RowsOK ==
  stage # "idle" => \A l \in Layers : (stage = "prefill" => l < layer) => Captured(l)

RefTypeOK ==
  /\ stage \in Stages /\ context \in Contexts /\ decode \in Decodes /\ runs \in 0 .. MaxRuns
  /\ layer \in 0 .. NLayers
  /\ DOMAIN past = Layers /\ past = [l \in Layers |-> past[l]]
  /\ DOMAIN cached = Layers /\ cached = [l \in Layers |-> cached[l]]
  /\ \A l \in Layers : cached[l] \in 0 .. max_pos

RefInv == RefTypeOK /\ PhaseOK /\ RowsOK /\ FleetRowsAreHf

\* What the assumptions on the constants say of layers, rotary bases and arguments.
LEMMA Shape ==
  /\ NLayers \in Nat \ {0} /\ Layers = 0 .. NLayers - 1 /\ 0 \in Layers
  /\ \A n : Base(n) = 0
  /\ MaxRuns \in Nat /\ "idle" \in Stages
  /\ \A c \in Contexts : c \in Nat \ {0} /\ c \in 0 .. Len(Prompt)
  /\ \A d \in Decodes : d \in Nat \ {0}
<1>1. NLayers \in Nat \ {0} /\ Layers = 0 .. NLayers - 1
  BY LayoutAssumption DEF Layers
<1>2. \A n : Base(n) = 0
  BY SessionAssumption DEF Base, YarnBase
<1> QED
  BY <1>1, <1>2, ReferenceAssumption DEF Stages

LEMMA PromptSized ==
  ASSUME NEW c \in Contexts
  PROVE  Sized(SubSeq(Prompt, 1, c), c)
<1>1. c \in Nat /\ SubSeq(Prompt, 1, c) = [i \in 1 .. c |-> Prompt[i]]
  BY Shape
<1> DEFINE s == SubSeq(Prompt, 1, c)
<1> HIDE DEF s
<1>2. s = [i \in 1 .. c |-> s[i]]
  BY <1>1 DEF s
<1> QED
  BY <1>1, <1>2, SizedFunction DEF s

LEMMA RefInitInvariant == RefInit => RefInv
<1> SUFFICES ASSUME RefInit PROVE RefInv
  OBVIOUS
<1> USE DEF RefInit
<1>1. RefTypeOK
  <2>1. \A l \in Layers : cached[l] = 0 /\ max_pos \in Nat
    BY Shape DEF None, max_pos
  <2> QED
    BY <2>1, Shape DEF RefTypeOK
<1>2. PhaseOK
  BY DEF PhaseOK
<1> QED
  BY <1>1, <1>2 DEF RefInv, RowsOK, FleetRowsAreHf

\* A run that ends or dies, whatever file it was writing.
LEMMA GoneKeeps ==
  ASSUME RefInv, Gone, runs' = runs
  PROVE  RefInv'
<1>1. stage' = "idle" /\ context' = context /\ decode' = decode /\ layer' = 0
  BY DEF Gone
<1>2. RefTypeOK'
  <2>1. \A l \in Layers : cached'[l] = 0 /\ max_pos' \in Nat
    BY <1>1, Shape DEF Gone, None, max_pos, RefInv, RefTypeOK
  <2> QED
    BY <1>1, <2>1, Shape DEF RefTypeOK, RefInv, Gone
<1>3. PhaseOK'
  BY <1>1 DEF Gone, PhaseOK
<1> QED
  BY <1>1, <1>2, <1>3 DEF RefInv, RowsOK, FleetRowsAreHf

LEMMA StartKeeps ==
  ASSUME RefInv, NEW c \in Contexts, NEW d \in Decodes, StartReference(c, d)
  PROVE  RefInv'
<1> USE DEF StartReference, Forward
<1>1. c \in Nat \ {0} /\ d \in Nat \ {0} /\ NLayers \in Nat \ {0}
  BY Shape
<1>2. /\ stage' = "prefill" /\ context' = c /\ decode' = d /\ layer' = 0 /\ start' = 0
      /\ masked' = c /\ hooks' = {"layer", "kv"} /\ hidden' = << >> /\ compressed' = << >>
      /\ gen_ids' = << >> /\ past' = [l \in Layers |-> << >>] /\ cached' = [l \in Layers |-> 0]
  BY DEF None
<1>3. RefTypeOK'
  <2>1. runs' \in 0 .. MaxRuns
    BY Shape DEF RefInv, RefTypeOK
  <2>2. max_pos' \in Nat
    BY <1>1, <1>2 DEF max_pos
  <2> QED
    BY <1>1, <1>2, <2>1, <2>2 DEF RefTypeOK, Stages
<1>4. PhaseOK'
  <2>1. Sized(hs', c)
    <3> DEFINE p == SubSeq(Prompt, 1, c)
    <3>1. DOMAIN p = 1 .. c
      BY PromptSized, SizedDomain
    <3>2. hs' = [i \in 1 .. c |-> Embed(p[i])]
      BY <3>1
    <3>3. hs' = [i \in 1 .. c |-> hs'[i]]
      BY <3>2
    <3> QED
      BY <1>1, <3>3, SizedFunction
  <2>2. Sized(<< >>, 0)
    BY DEF Sized
  <2>3. \A l \in Layers : RowsOf(l)' = 0
    BY <1>1, <1>2, Shape DEF RowsOf
  <2>4. Width' = c
    BY <1>2 DEF Width
  <2> QED
    BY <1>1, <1>2, <2>1, <2>2, <2>3, <2>4 DEF PhaseOK
<1>5. RowsOK'
  BY <1>1, <1>2, Shape DEF RowsOK
<1> QED
  BY <1>2, <1>3, <1>4, <1>5 DEF RefInv, FleetRowsAreHf

\* A layer takes and gives one value per position.
LEMMA LayerWidth ==
  ASSUME NEW n, NEW l, NEW rots, NEW kept, NEW idxs, NEW flat, Sized(hs, n)
  PROVE  /\ Sized(NewRows(hs, rots), n)
         /\ Sized(MlpLayer(l, SelfAttention(hs, rots, kept), idxs, flat), n)
<1> DEFINE new == NewRows(hs, rots)
           att == SelfAttention(hs, rots, kept)
           out == MlpLayer(l, att, idxs, flat)
<1>1. n \in Nat /\ DOMAIN hs = 1 .. n
  BY SizedDomain
<1>2. new = [i \in 1 .. n |-> new[i]]
  BY <1>1 DEF NewRows
<1>3. DOMAIN att = 1 .. n
  BY <1>1 DEF SelfAttention
<1> HIDE DEF att
<1>4. DOMAIN out = 1 .. n /\ out = [t \in 1 .. n |-> out[t]]
  <2>1. CASE IsMoe(l)
    <3> DEFINE y == MoeInfer(att, idxs, flat)
    <3> HIDE DEF y
    <3>1. out = [t \in DOMAIN att |-> Mixed(att[t], y[t])]
      BY <2>1 DEF MlpLayer, y
    <3> HIDE DEF out
    <3> QED
      BY <1>3, <3>1
  <2>2. CASE ~ IsMoe(l)
    <3>1. out = [t \in DOMAIN att |-> AfterMlp(att[t])]
      BY <2>2 DEF MlpLayer
    <3> HIDE DEF out
    <3> QED
      BY <1>3, <3>1
  <2> QED
    BY <2>1, <2>2
<1> HIDE DEF new, out
<1>5. Sized(new, n) /\ Sized(out, n)
  BY <1>1, <1>2, <1>4, SizedFunction
<1> QED
  BY <1>5 DEF new, out, att

\* One layer more: its rows get as long as the lower layers', the hooks on it
\* fire, and, in the prefill, what they capture is what its rows are made of.
LEMMA RunLayerKeeps ==
  ASSUME RefInv, RunLayer
  PROVE  RefInv'
<1> DEFINE l == layer
           W == Width
           table == RotaryForward(cached[l], Len(hs) + Len(past[l]))
           rots == [i \in DOMAIN hs |-> Rotation(table, start + i - 1)]
           new == NewRows(hs, rots)
<1>1. /\ stage \in {"prefill", "decode"} /\ l \in Layers /\ l \in Nat /\ l < NLayers
      /\ UNCHANGED <<stage, context, decode, start, masked, hooks, gen_ids, files, runs>>
      /\ past' = [past EXCEPT ![l] = @ \o new]
      /\ cached' = [cached EXCEPT ![l] = table]
      /\ layer' = l + 1
      /\ compressed' = Hooked(compressed, "kv", l, hs)
  BY Shape DEF RunLayer, RefInv, RefTypeOK
<1>0. PICK x, idxs, flat :
        /\ hidden' = Hooked(hidden, "layer", l, x)
        /\ hs' = MlpLayer(l, SelfAttention(hs, rots, past[l]), idxs, flat)
  BY DEF RunLayer
<1>2. /\ Sized(hs, W) /\ start \in Nat /\ masked = start + W
      /\ \A m \in Layers : Sized(past[m], RowsOf(m))
      /\ Sized(past[l], start)
  BY <1>1, Shape DEF RefInv, PhaseOK, RowsOf
<1>3. /\ context \in Nat \ {0} /\ decode \in Nat \ {0} /\ W \in Nat \ {0} /\ max_pos \in Nat
      /\ start + W \in 1 .. max_pos /\ Len(hs) = W /\ Len(past[l]) = start
  <2>1. Len(hs) = W /\ Len(past[l]) = start
    BY <1>2, SizedDomain
  <2>2. context \in Nat \ {0} /\ decode \in Nat \ {0}
    BY Shape DEF RefInv, RefTypeOK
  <2>3. stage = "prefill" => start = 0
    BY DEF RefInv, PhaseOK
  <2>4. stage = "decode" => Given <= decode
    BY <2>2 DEF RefInv, PhaseOK
  <2> QED
    BY <1>1, <1>2, <2>1, <2>2, <2>3, <2>4 DEF Width, Given, max_pos
<1>4. cached[l] \in 0 .. max_pos /\ table \in 0 .. max_pos
  BY <1>1, <1>3 DEF RefInv, RefTypeOK, RotaryForward
<1>5. Width' = W /\ max_pos' = max_pos /\ Given' = Given
  BY <1>1 DEF Width, max_pos, Given
<1>6. DOMAIN past = Layers /\ DOMAIN cached = Layers
  BY DEF RefInv, RefTypeOK
<1> HIDE DEF table
<1>7. RefTypeOK'
  <2>1. /\ stage' \in Stages /\ context' \in Contexts /\ decode' \in Decodes
        /\ runs' \in 0 .. MaxRuns /\ layer' \in 0 .. NLayers
    BY <1>1, Shape DEF RefInv, RefTypeOK
  <2>2. DOMAIN past' = Layers /\ past' = [m \in Layers |-> past'[m]]
    BY <1>1, <1>6
  <2>3. DOMAIN cached' = Layers /\ cached' = [m \in Layers |-> cached'[m]]
    BY <1>1, <1>6
  <2>4. \A m \in Layers : cached'[m] \in 0 .. max_pos'
    BY <1>1, <1>4, <1>5, <1>6 DEF RefInv, RefTypeOK
  <2> QED
    BY <2>1, <2>2, <2>3, <2>4 DEF RefTypeOK
<1>8. Sized(new, W) /\ Sized(hs', W)
  BY <1>0, <1>2, LayerWidth
<1> HIDE DEF rots, W, new
<1>9. /\ Sized(past[l] \o new, start + W)
      /\ \A i \in 1 .. start : (past[l] \o new)[i] = past[l][i]
      /\ \A i \in 1 .. W : (past[l] \o new)[start + i] = new[i]
  <2> DEFINE s == past[l]
  <2>1. Sized(s, start) /\ Sized(new, W)
    BY <1>2, <1>8
  <2> HIDE DEF s
  <2>2. Sized(s \o new, start + W)
    BY <2>1, SizedConcat
  <2>5. PICK S : /\ s \in Seq(S) /\ new \in Seq(S)
                 /\ Len(s) = start /\ Len(new) = W /\ start \in Nat /\ W \in Nat
    BY <2>1, SizedInSeq
  <2>3. ASSUME NEW i \in 1 .. start PROVE (s \o new)[i] = s[i]
    BY <2>3, <2>5
  <2>4. ASSUME NEW i \in 1 .. W PROVE (s \o new)[start + i] = new[i]
    BY <2>4, <2>5
  <2> QED
    BY <2>2, <2>3, <2>4 DEF s
<1>10. ASSUME NEW m \in Layers
       PROVE  /\ past'[m] = (IF m = l THEN past[l] \o new ELSE past[m])
              /\ Sized(past'[m], RowsOf(m)')
  <2>1. past'[m] = IF m = l THEN past[l] \o new ELSE past[m]
    BY <1>1, <1>6
  <2>2. m \in Nat /\ RowsOf(m)' = IF m = l THEN start + W ELSE RowsOf(m)
    BY <1>1, <1>3, <1>5, Shape DEF RowsOf, W
  <2> QED
    BY <1>2, <1>9, <2>1, <2>2
<1>11. PhaseOK'
  <2>1. CASE stage = "prefill"
    <3>1. /\ hooks = {"layer", "kv"} /\ DOMAIN hidden = 0 .. l - 1 /\ DOMAIN compressed = 0 .. l - 1
          /\ start = 0 /\ gen_ids = << >>
      BY <2>1 DEF RefInv, PhaseOK
    <3>2. DOMAIN hidden' = 0 .. l /\ DOMAIN compressed' = 0 .. l
      BY <1>0, <1>1, <3>1 DEF Hooked
    <3> QED
      BY <1>1, <1>2, <1>3, <1>5, <1>8, <1>10, <2>1, <3>1, <3>2 DEF PhaseOK, W
  <2>2. CASE stage = "decode"
    <3>1. /\ Given \in 1 .. decode /\ Sized(gen_ids, Given) /\ DOMAIN compressed = Layers
          /\ IF Given = 1 THEN hooks = {"layer"} /\ DOMAIN hidden = 0 .. l - 1
             ELSE hooks = {} /\ DOMAIN hidden = Layers
      BY <2>2 DEF RefInv, PhaseOK
    <3>2. DOMAIN compressed' = Layers
      BY <1>1, <3>1 DEF Hooked
    <3>3. ASSUME Given = 1 PROVE DOMAIN hidden' = 0 .. l
      <4>1. "layer" \in hooks /\ DOMAIN hidden = 0 .. l - 1
        BY <3>1, <3>3
      <4>2. DOMAIN hidden' = DOMAIN hidden \cup {l}
        BY <1>0, <4>1 DEF Hooked
      <4> QED
        BY <1>1, <4>1, <4>2
    <3>4. Given # 1 => DOMAIN hidden' = Layers
      BY <1>0, <1>1, <3>1 DEF Hooked
    <3> QED
      BY <1>1, <1>2, <1>3, <1>5, <1>8, <1>10, <2>2, <3>1, <3>2, <3>3, <3>4 DEF PhaseOK, W
  <2> QED
    BY <1>1, <2>1, <2>2
<1>12. RowsOK'
  <2> SUFFICES ASSUME NEW m \in Layers, stage' = "prefill" => m < layer'
               PROVE  Captured(m)'
    BY DEF RowsOK
  <2>1. CASE stage = "prefill" /\ m = l
    <3>1. start = 0 /\ W = context /\ hooks = {"layer", "kv"}
      BY <2>1 DEF RefInv, PhaseOK, W, Width
    <3>2. compressed'[l] = hs
      BY <1>1, <3>1 DEF Hooked
    <3>3. ASSUME NEW i \in 1 .. context
          PROVE  past'[l][i] = Row(hs[i], [pos |-> i - 1, base |-> 0])
      <4>0. i \in 1 .. W /\ start + i = i
        BY <3>1
      <4>1. past'[l][i] = new[i]
        BY <1>9, <1>10, <2>1, <4>0
      <4>2. DOMAIN hs = 1 .. W
        BY <1>2, SizedDomain DEF W
      <4>3. new[i] = Row(hs[i], rots[i]) /\ rots[i] = Rotation(table, i - 1)
        BY <3>1, <4>2 DEF new, NewRows, rots
      <4> QED
        BY <4>1, <4>3, Shape DEF Rotation
    <3> QED
      BY <1>1, <1>2, <2>1, <3>1, <3>2, <3>3 DEF Captured, W
  <2>2. CASE stage = "prefill" /\ m # l
    <3>1. m < l
      BY <1>1, <2>2, Shape
    <3>2. compressed'[m] = compressed[m] /\ past'[m] = past[m] /\ Captured(m)
      <4>1. m \in DOMAIN compressed
        BY <1>1, <2>2, <3>1, Shape DEF RefInv, PhaseOK
      <4> QED
        BY <1>1, <1>10, <2>2, <3>1, <4>1 DEF Hooked, RefInv, RowsOK
    <3> QED
      BY <1>1, <3>2 DEF Captured
  <2>3. CASE stage = "decode"
    <3>1. compressed' = compressed /\ Captured(m) /\ context <= start
      <4>1. "kv" \notin hooks /\ Given \in Nat \ {0}
        BY <1>3, <2>3 DEF RefInv, PhaseOK
      <4> QED
        BY <1>1, <1>2, <1>3, <2>3, <4>1 DEF Hooked, RefInv, RowsOK, Given
    <3>2. \A i \in 1 .. context : past'[m][i] = past[m][i]
      <4>1. ASSUME NEW i \in 1 .. context PROVE i \in 1 .. start
        BY <1>2, <1>3, <3>1
      <4> QED
        BY <1>9, <1>10, <4>1
    <3> QED
      BY <1>1, <3>1, <3>2 DEF Captured
  <2> QED
    BY <1>1, <2>1, <2>2, <2>3
<1> QED
  BY <1>1, <1>7, <1>11, <1>12 DEF RefInv, FleetRowsAreHf

\* One token begins a forward that continues after every cached row.
LEMMA NextForward ==
  ASSUME NEW t, NEW mask, NEW n, Forward(<<t>>, mask, n)
  PROVE  Sized(hs', 1) /\ layer' = 0 /\ start' = n /\ masked' = mask
<1>1. DOMAIN <<t>> = 1 .. 1
  OBVIOUS
<1>2. hs' = [i \in 1 .. 1 |-> hs'[i]]
  BY <1>1 DEF Forward
<1> QED
  BY <1>2, SizedFunction DEF Forward

\* What holds after the last layer of a forward, before the next token.
LEMMA AfterLayers ==
  ASSUME RefInv, stage \in {"prefill", "decode"}, layer = NLayers
  PROVE  /\ context \in Nat \ {0} /\ decode \in Nat \ {0} /\ start \in Nat
         /\ masked = start + Width
         /\ \A l \in Layers : RowsOf(l) = start + Width /\ Sized(past[l], start + Width)
         /\ Len(past[0]) = start + Width
         /\ DOMAIN compressed = Layers
         /\ \A l \in Layers : Captured(l)
<1>1. context \in Nat \ {0} /\ decode \in Nat \ {0}
  BY Shape DEF RefInv, RefTypeOK
<1>2. start \in Nat /\ masked = start + Width /\ \A l \in Layers : Sized(past[l], RowsOf(l))
  BY DEF RefInv, PhaseOK
<1>3. \A l \in Layers : l < layer /\ RowsOf(l) = start + Width
  BY Shape DEF RowsOf
<1>4. DOMAIN compressed = Layers
  BY Shape DEF RefInv, PhaseOK
<1>5. \A l \in Layers : Captured(l)
  BY <1>3 DEF RefInv, RowsOK
<1>6. Sized(past[0], start + Width)
  BY <1>2, <1>3, Shape
<1>7. Len(past[0]) = start + Width
  BY <1>6, SizedDomain
<1> QED
  BY <1>1, <1>2, <1>3, <1>4, <1>5, <1>7

LEMMA EndPrefillKeeps ==
  ASSUME RefInv, EndPrefill
  PROVE  RefInv'
<1>1. /\ stage = "prefill" /\ layer = NLayers /\ start = 0 /\ Width = context
      /\ stage' = "decode" /\ hooks' = {"layer"} /\ hidden' = << >>
      /\ UNCHANGED <<context, decode, past, cached, compressed, runs>>
  BY DEF EndPrefill, HooksOfDecode, RefInv, PhaseOK, Width
<1>2. PICK t : gen_ids' = <<t>> /\ Forward(<<t>>, MaskLength(context, 0), Len(past[0]))
  BY DEF EndPrefill
<1>3. /\ context \in Nat \ {0} /\ decode \in Nat \ {0}
      /\ \A l \in Layers : Sized(past[l], context)
      /\ Len(past[0]) = context /\ DOMAIN compressed = Layers
      /\ \A l \in Layers : Captured(l)
  BY <1>1, AfterLayers
<1>4. Sized(hs', 1) /\ layer' = 0 /\ start' = context /\ masked' = context + 1
  BY <1>2, <1>3, NextForward DEF MaskLength
<1>5. RefTypeOK'
  BY <1>1, <1>4, Shape DEF RefInv, RefTypeOK, Stages, max_pos
<1>6. PhaseOK'
  <2>1. Given' = 1 /\ Width' = 1
    BY <1>1, <1>3, <1>4 DEF Given, Width
  <2>2. \A l \in Layers : RowsOf(l)' = context
    BY <1>1, <1>3, <1>4, Shape DEF RowsOf
  <2>3. Sized(gen_ids', 1)
    <3>1. gen_ids' = [i \in 1 .. 1 |-> gen_ids'[i]]
      BY <1>2
    <3> QED
      BY <3>1, SizedFunction
  <2> QED
    BY <1>1, <1>3, <1>4, <2>1, <2>2, <2>3 DEF PhaseOK
<1>7. RowsOK'
  BY <1>1, <1>3 DEF RowsOK, Captured
<1> QED
  BY <1>1, <1>5, <1>6, <1>7 DEF RefInv, FleetRowsAreHf

LEMMA EndStepKeeps ==
  ASSUME RefInv, EndStep
  PROVE  RefInv'
<1> DEFINE g == Given
<1>1. /\ stage = "decode" /\ layer = NLayers /\ Width = 1
      /\ UNCHANGED <<context, decode, past, cached, hidden, compressed, runs>>
  BY DEF EndStep, Width
<1>2. /\ context \in Nat \ {0} /\ decode \in Nat \ {0} /\ start \in Nat
      /\ masked = start + 1
      /\ \A l \in Layers : Sized(past[l], start + 1)
      /\ Len(past[0]) = start + 1 /\ DOMAIN compressed = Layers
      /\ \A l \in Layers : Captured(l)
  BY <1>1, AfterLayers
<1>3. /\ g \in 1 .. decode /\ Sized(gen_ids, g) /\ Len(gen_ids) = g
      /\ start = context + g - 1 /\ DOMAIN hidden = Layers
  <2>1. g \in 1 .. decode /\ Sized(gen_ids, g)
    BY <1>1 DEF RefInv, PhaseOK
  <2>2. DOMAIN hidden = Layers
    BY <1>1, Shape DEF RefInv, PhaseOK
  <2> QED
    BY <1>2, <2>1, <2>2, SizedDomain DEF Given
<1>4. hooks' = {}
  <2>1. g # 1 => hooks = {}
    BY <1>1 DEF RefInv, PhaseOK
  <2>2. hooks' = IF Len(gen_ids) - 1 = 0 THEN {} ELSE hooks
    BY DEF EndStep
  <2> QED
    BY <1>3, <2>1, <2>2
<1>5. PICK t : /\ gen_ids' = Append(gen_ids, t)
               /\ IF MoreSteps(g)
                  THEN Forward(<<t>>, MaskLength(context, g), Len(past[0])) /\ UNCHANGED stage
                  ELSE stage' = "cache" /\ UNCHANGED <<layer, start, masked, hs>>
  <2> DEFINE step == Len(gen_ids) - 1
             t_id == NextToken(Last(hs))
  <2>1. /\ gen_ids' = Append(gen_ids, t_id)
        /\ IF MoreSteps(step + 1)
           THEN Forward(<<t_id>>, MaskLength(context, step + 1), Len(past[0])) /\ UNCHANGED stage
           ELSE stage' = "cache" /\ UNCHANGED <<layer, start, masked, hs>>
    BY DEF EndStep
  <2>2. step + 1 = g
    BY <1>3
  <2> HIDE DEF step, t_id, g
  <2> QED
    BY <2>1, <2>2
<1>6. Sized(gen_ids', g + 1)
  BY <1>3, <1>5, SizedAppend
<1>7. \A l \in Layers : Captured(l)'
  BY <1>1, <1>2 DEF Captured
<1>8. CASE g < decode
  <2>1. /\ Sized(hs', 1) /\ layer' = 0 /\ start' = start + 1 /\ masked' = start + 2
        /\ stage' = "decode"
    BY <1>1, <1>2, <1>3, <1>5, <1>8, NextForward DEF MoreSteps, MaskLength
  <2>2. Given' = g + 1 /\ Width' = 1
    BY <1>1, <1>2, <1>3, <2>1 DEF Given, Width
  <2>3. \A l \in Layers : RowsOf(l)' = start + 1
    BY <1>2, <2>1, Shape DEF RowsOf
  <2>4. RefTypeOK'
    BY <1>1, <2>1, Shape DEF RefInv, RefTypeOK, Stages, max_pos
  <2>5. PhaseOK'
    BY <1>1, <1>2, <1>3, <1>4, <1>6, <1>8, <2>1, <2>2, <2>3 DEF PhaseOK
  <2> QED
    BY <1>7, <2>1, <2>4, <2>5 DEF RefInv, RowsOK, FleetRowsAreHf
<1>9. CASE g = decode
  <2>1. stage' = "cache" /\ UNCHANGED <<layer, start, masked, hs>>
    BY <1>2, <1>5, <1>9 DEF MoreSteps
  <2>2. Given' = decode /\ Width' = 1 /\ Width = 1
    BY <1>1, <1>9, <2>1 DEF Given, Width
  <2>3. \A l \in Layers : RowsOf(l)' = start + 1
    BY <1>1, <1>2, <2>1, <2>2, Shape DEF RowsOf
  <2>4. Sized(hs', 1)
    BY <1>1, <2>1 DEF RefInv, PhaseOK
  <2>5. RefTypeOK'
    BY <1>1, <2>1, Shape DEF RefInv, RefTypeOK, Stages, max_pos
  <2>6. PhaseOK'
    BY <1>1, <1>2, <1>3, <1>4, <1>6, <1>9, <2>1, <2>2, <2>3, <2>4 DEF PhaseOK, Gathered
  <2> QED
    BY <1>7, <2>1, <2>5, <2>6 DEF RefInv, RowsOK, FleetRowsAreHf
<1> QED
  BY <1>2, <1>3, <1>8, <1>9

\* Rows of all layers in one sequence: where a layer's row is, and back.
LEMMA RowIndex ==
  ASSUME NEW n \in Nat, NEW M \in Nat \ {0}, NEW l \in 0 .. n - 1, NEW i \in 1 .. M
  PROVE  /\ l * M + i \in 1 .. n * M
         /\ (l * M + i - 1) \div M = l
         /\ (l * M + i - 1) % M = i - 1
<1>1. l * M \in Nat /\ n * M \in Nat
  OBVIOUS
<1>2. l * M + M <= n * M
  <2>1. PICK d \in Nat : n = l + 1 + d
    <3>1. n - l - 1 \in Nat /\ n = l + 1 + (n - l - 1)
      OBVIOUS
    <3> QED
      BY <3>1
  <2>2. n * M = l * M + M + d * M /\ d * M >= 0
    BY <2>1
  <2> QED
    BY <1>1, <2>2
<1>3. (l * M + (i - 1)) \div M = l /\ (l * M + (i - 1)) % M = i - 1
  BY <1>1
<1> QED
  BY <1>1, <1>2, <1>3

\* The tables have grown since the prefill, but no rotation tells.
LEMMA WriteCacheKeeps ==
  ASSUME RefInv, WriteCache
  PROVE  RefInv'
<1>1. stage = "cache" /\ runs' = runs
  BY DEF WriteCache
<1>2. CASE cache_bin' \in Beginnings(FleetCache) /\ Gone
  BY <1>1, <1>2, GoneKeeps
<1>3. CASE /\ cache_bin' = Written(FleetCache) /\ stage' = "tokens"
           /\ cached' = [l \in Layers |-> RotaryForward(cached[l], Len(compressed[l]))]
           /\ UNCHANGED <<context, decode, layer, start, masked, hs, past, hooks, hidden,
                          compressed, gen_ids>>
  <2>1. /\ context \in Nat \ {0} /\ decode \in Nat \ {0}
        /\ max_pos \in Nat \ {0} /\ context <= max_pos /\ max_pos' = max_pos
    BY <1>3, Shape DEF RefInv, RefTypeOK, max_pos
  <2>2. \A l \in Layers : /\ Captured(l) /\ Captured(l)' /\ Len(compressed[l]) = context
                          /\ cached[l] \in 0 .. max_pos
    <3>1. \A l \in Layers : Captured(l) /\ cached[l] \in 0 .. max_pos
      BY <1>1 DEF RefInv, RowsOK, RefTypeOK
    <3>2. \A l \in Layers : Captured(l)' /\ Len(compressed[l]) = context
      BY <1>3, <3>1, SizedDomain DEF Captured
    <3> QED
      BY <3>1, <3>2
  <2>3. RefTypeOK'
    <3>1. \A l \in Layers : cached'[l] \in 0 .. max_pos
      BY <1>3, <2>1, <2>2 DEF RotaryForward
    <3> QED
      BY <1>1, <1>3, <2>1, <3>1, Shape DEF RefInv, RefTypeOK, Stages
  <2>4. PhaseOK'
    <3>1. Width' = 1 /\ Width = 1 /\ Given' = Given /\ \A l \in Layers : RowsOf(l)' = RowsOf(l)
      BY <1>1, <1>3 DEF Width, Given, RowsOf
    <3> QED
      BY <1>1, <1>3, <3>1 DEF RefInv, PhaseOK, Gathered
  <2>5. ASSUME NEW l \in Layers, NEW i \in 1 .. context
        PROVE  cache_bin'.data[l * max_pos' + i] = past'[l][i]
    <3> DEFINE k == l * max_pos + i
    <3>1. l \in 0 .. NLayers - 1 /\ i \in 1 .. max_pos /\ NLayers \in Nat
      BY <2>1, Shape
    <3>2. k \in 1 .. NLayers * max_pos /\ (k - 1) \div max_pos = l /\ (k - 1) % max_pos = i - 1
      BY <2>1, <3>1, RowIndex
    <3> HIDE DEF k
    <3>3. cache_bin'.data[k] = FleetRow(l, i)
      <4>1. cache_bin'.data[k] = FleetRow((k - 1) \div max_pos, ((k - 1) % max_pos) + 1)
        BY <1>3, <3>2 DEF Written, FleetCache
      <4>2. i - 1 + 1 = i
        BY <3>1
      <4> QED
        BY <3>2, <4>1, <4>2
    <3>4. FleetRow(l, i) = Row(compressed[l][i], [pos |-> i - 1, base |-> 0])
      BY <2>1, <2>2, Shape DEF FleetRow, Rotation, pos_ids
    <3> QED
      BY <1>3, <2>1, <2>2, <3>3, <3>4 DEF Captured, k
  <2>6. FleetRowsAreHf'
    BY <1>3, <2>5 DEF FleetRowsAreHf
  <2> QED
    BY <2>2, <2>3, <2>4, <2>6 DEF RefInv, RowsOK
<1> QED
  BY <1>2, <1>3 DEF WriteCache

LEMMA WriteTokensKeeps ==
  ASSUME RefInv, WriteTokens
  PROVE  RefInv'
<1>1. stage = "tokens" /\ runs' = runs
  BY DEF WriteTokens
<1>2. CASE golden_txt' \in TornTokens(gen_ids) /\ Gone
  BY <1>1, <1>2, GoneKeeps
<1>3. CASE golden_txt' = Written(gen_ids) /\ stage' = "hidden" /\ UNCHANGED process
  <2>1. /\ Width' = Width /\ Given' = Given /\ max_pos' = max_pos
        /\ \A l \in Layers : RowsOf(l)' = RowsOf(l) /\ (Captured(l) => Captured(l)')
    BY <1>1, <1>3 DEF Width, Given, RowsOf, max_pos, Captured, process
  <2>2. RefTypeOK'
    BY <1>1, <1>3, <2>1 DEF RefInv, RefTypeOK, Stages, process
  <2>3. PhaseOK'
    BY <1>1, <1>3, <2>1 DEF RefInv, PhaseOK, Gathered, process
  <2> QED
    BY <1>1, <1>3, <2>1, <2>2, <2>3 DEF RefInv, RowsOK, FleetRowsAreHf
<1> QED
  BY <1>2, <1>3 DEF WriteTokens

LEMMA ReferenceKeeps ==
  ASSUME RefInv, RefStep
  PROVE  RefInv'
<1>1. CASE RunLayer
  BY <1>1, RunLayerKeeps
<1>2. CASE EndPrefill
  BY <1>2, EndPrefillKeeps
<1>3. CASE EndStep
  BY <1>3, EndStepKeeps
<1>4. CASE WriteCache
  BY <1>4, WriteCacheKeeps
<1>5. CASE WriteTokens
  BY <1>5, WriteTokensKeeps
<1>6. CASE WriteHidden \/ ReferenceDies
  <2>1. Gone /\ runs' = runs
    BY <1>6 DEF WriteHidden, ReferenceDies
  <2> QED
    BY <2>1, GoneKeeps
<1> QED
  BY <1>1, <1>2, <1>3, <1>4, <1>5, <1>6 DEF RefStep

\* The other tools leave the reference run's state alone.
LEMMA RefUnchanged ==
  ASSUME RefInv, UNCHANGED refVars
  PROVE  RefInv'
<1> USE DEF refVars
<1>1. /\ Width' = Width /\ Given' = Given /\ max_pos' = max_pos
      /\ \A l \in Layers : RowsOf(l)' = RowsOf(l) /\ (Captured(l) => Captured(l)')
  BY DEF Width, Given, RowsOf, max_pos, Captured
<1>2. RefTypeOK'
  BY <1>1 DEF RefInv, RefTypeOK
<1>3. PhaseOK'
  BY <1>1 DEF RefInv, PhaseOK, Gathered
<1>4. RowsOK' /\ FleetRowsAreHf'
  BY <1>1 DEF RefInv, RowsOK, FleetRowsAreHf
<1> QED
  BY <1>2, <1>3, <1>4 DEF RefInv

\* The invariant is strong enough.
LEMMA RefInvTypes ==
  ASSUME RefInv
  PROVE  /\ NothingRaises
         /\ stage \in Stages /\ context \in Contexts /\ decode \in Decodes /\ runs \in 0 .. MaxRuns
         /\ layer \in 0 .. NLayers /\ hooks \subseteq {"layer", "kv"}
         /\ Len(gen_ids) <= decode + 1
         /\ \A l \in Layers : Len(past[l]) <= max_pos /\ cached[l] \in 0 .. max_pos
         /\ DOMAIN hidden \subseteq Layers /\ DOMAIN compressed \subseteq Layers
<1>1. /\ stage \in Stages /\ context \in Contexts /\ decode \in Decodes /\ runs \in 0 .. MaxRuns
      /\ layer \in 0 .. NLayers /\ \A l \in Layers : cached[l] \in 0 .. max_pos
      /\ context \in Nat \ {0} /\ decode \in Nat \ {0}
  BY Shape DEF RefInv, RefTypeOK
<1>2. CASE stage = "idle"
  <2>1. /\ hooks = {} /\ hidden = << >> /\ compressed = << >> /\ gen_ids = << >>
        /\ \A l \in Layers : past[l] = << >>
    BY <1>2 DEF RefInv, PhaseOK
  <2>2. Len(<< >>) = 0 /\ DOMAIN << >> = {} /\ max_pos \in Nat
    BY <1>1 DEF max_pos
  <2>3. NothingRaises
    BY <1>2 DEF NothingRaises
  <2> QED
    BY <1>1, <2>1, <2>2, <2>3
<1>3. CASE stage # "idle"
  <2>1. /\ Sized(hs, Width) /\ start \in Nat /\ masked = start + Width
        /\ \A l \in Layers : Sized(past[l], RowsOf(l))
    BY <1>3 DEF RefInv, PhaseOK
  <2>2. Len(hs) = Width /\ \A l \in Layers : Len(past[l]) = RowsOf(l)
    BY <2>1, SizedDomain
  <2>3. NothingRaises
    <3>1. ASSUME layer < NLayers PROVE MaskFits
      <4>1. layer \in Layers
        BY <1>1, <3>1, Shape
      <4>2. RowsOf(layer) = start
        BY <1>1, <2>1 DEF RowsOf
      <4> QED
        BY <2>1, <2>2, <4>1, <4>2 DEF MaskFits
    <3>2. stage = "cache" => DOMAIN hidden = Layers /\ DOMAIN compressed = Layers
      BY DEF RefInv, PhaseOK, Gathered
    <3> QED
      BY <3>1, <3>2 DEF NothingRaises
  <2>4. start + Width <= max_pos
    <3>1. stage = "prefill" => start = 0
      BY DEF RefInv, PhaseOK
    <3>2. stage # "prefill" => Given <= decode
      BY <1>1, <1>3 DEF RefInv, PhaseOK, Stages
    <3> QED
      BY <1>1, <2>1, <3>1, <3>2 DEF Width, Given, max_pos
  <2>5. \A l \in Layers : Len(past[l]) <= max_pos
    BY <1>1, <2>1, <2>2, <2>4, Shape DEF RowsOf, Width, max_pos
  <2>6. CASE stage = "prefill"
    <3>1. /\ hooks = {"layer", "kv"} /\ gen_ids = << >>
          /\ DOMAIN hidden = 0 .. layer - 1 /\ DOMAIN compressed = 0 .. layer - 1
      BY <2>6 DEF RefInv, PhaseOK
    <3>2. Len(gen_ids) <= decode + 1
      BY <1>1, <3>1
    <3>3. 0 .. layer - 1 \subseteq Layers
      BY <1>1, Shape
    <3> QED
      BY <1>1, <2>3, <2>5, <3>1, <3>2, <3>3
  <2>7. CASE stage = "decode"
    <3>1. Given \in 1 .. decode /\ Sized(gen_ids, Given) /\ DOMAIN compressed = Layers
      BY <2>7 DEF RefInv, PhaseOK
    <3>2. hooks \subseteq {"layer"} /\ (DOMAIN hidden = 0 .. layer - 1 \/ DOMAIN hidden = Layers)
      BY <2>7 DEF RefInv, PhaseOK
    <3>3. Len(gen_ids) <= decode + 1
      BY <1>1, <3>1, SizedDomain
    <3>4. 0 .. layer - 1 \subseteq Layers
      BY <1>1, Shape
    <3> QED
      BY <1>1, <2>3, <2>5, <3>1, <3>2, <3>3, <3>4
  <2>8. CASE stage \in {"cache", "tokens", "hidden"}
    <3>1. hooks = {} /\ DOMAIN hidden = Layers /\ DOMAIN compressed = Layers
      BY <2>8 DEF RefInv, PhaseOK, Gathered
    <3>2. Sized(gen_ids, decode + 1)
      BY <2>8 DEF RefInv, PhaseOK
    <3>3. Len(gen_ids) = decode + 1
      BY <3>2, SizedDomain
    <3> QED
      BY <1>1, <2>3, <2>5, <3>1, <3>3
  <2> QED
    BY <1>1, <1>3, <2>6, <2>7, <2>8 DEF Stages
<1> QED
  BY <1>2, <1>3

-----------------------------------------------------------------------------
(* The packer and the launcher.                                            *)

PackOK ==
  /\ packing \in {"idle", "open", "closed"} /\ pos \in Nat /\ packs \in 0 .. MaxPacks
  /\ DOMAIN offsets \subseteq ToSet(Names)

\* An idle launcher has forgotten everything; a decoding one is inside a launch
\* of at least one token.
LaunchOK ==
  /\ lstage \in {"idle", "decode", "exit"} /\ readable \subseteq Layers
  /\ opts \in Options \cup {NoOpts}
  /\ DOMAIN token_out \subseteq 1 .. opts.tokens
  /\ i0 \in Nat /\ tok \in 0 .. opts.per_launch /\ run \in 0 .. opts.repeat - 1
  /\ code \in 0 .. 3 /\ layers_ok \in -1 .. NLayers
  /\ lstage = "decode" => opts \in Options /\ i0 < opts.tokens /\ tok <= LaunchSize
  /\ lstage = "idle" => opts = NoOpts /\ token_out = << >> /\ i0 = 0 /\ tok = 0 /\ run = 0

LEMMA OptionsNumbers ==
  ASSUME NEW o \in Options
  PROVE  o.tokens \in Nat \ {0} /\ o.per_launch \in Nat \ {0} /\ o.repeat \in Nat \ {0}
BY SessionAssumption DEF Options

LEMMA LayersOkBounded == LayersOk \in -1 .. NLayers
<1> DEFINE S == { l \in Layers : \A m \in 0 .. l : dump[m] = golden_hidden[m + 1] }
<1>1. IsFiniteSet(Layers) /\ Cardinality(Layers) = NLayers
  BY Shape, FS_Interval
<1>2. S \subseteq Layers
  OBVIOUS
<1>3. Cardinality(S) \in Nat /\ Cardinality(S) <= NLayers
  BY <1>1, <1>2, FS_Subset, FS_CardinalityType
<1> HIDE DEF S
<1>4. LayersOk = IF Len(golden_hidden) # NLayers THEN -1 ELSE Cardinality(S)
  BY DEF LayersOk, S
<1> QED
  BY <1>3, <1>4, Shape

LEMMA PackKeeps ==
  ASSUME PackOK, StartPack \/ PackStep
  PROVE  PackOK'
<1> USE DEF PackOK
<1>1. CASE StartPack
  BY <1>1, PackerAssumption DEF StartPack, OpenBlob
<1>2. CASE CloseBlob \/ WriteManifest \/ TearManifest \/ PackDies
  BY <1>2 DEF CloseBlob, WriteManifest, TearManifest, PackDies
<1>3. ASSUME NEW n \in DOMAIN Tensor, Write(n) PROVE PackOK'
  <2>1. Len(Tensor[n]) \in Nat /\ pos + Pad(pos) \in Nat
    BY PackerAssumption, PadAligns
  <2>2. pos' \in Nat /\ UNCHANGED <<packing, packs>>
    BY <1>3, <2>1 DEF Write, Bytes
  <2>3. n \in ToSet(Names)
    BY <1>3 DEF Write, ToSet
  <2>4. DOMAIN offsets' = DOMAIN offsets \cup {n}
    BY <1>3 DEF Write
  <2> QED
    BY <2>2, <2>3, <2>4
<1> QED
  BY <1>1, <1>2, <1>3 DEF PackStep

LEMMA LaunchKeeps ==
  ASSUME LaunchOK, (\E o \in Options : StartLaunch(o)) \/ LauncherStep
  PROVE  LaunchOK'
<1>1. CASE \E o \in Options : StartLaunch(o)
  <2>1. PICK o \in Options : StartLaunch(o)
    BY <1>1
  <2>2. o.tokens \in Nat \ {0} /\ o.per_launch \in Nat \ {0} /\ o.repeat \in Nat \ {0}
    BY OptionsNumbers
  <2>3. /\ lstage = "idle" /\ opts' = o
        /\ token_out' = << >> /\ i0' = 0 /\ tok' = 0 /\ run' = 0 /\ layers_ok' = layers_ok
        /\ \/ lstage' = "exit" /\ code' = 1 /\ readable' = readable
           \/ lstage' = "decode" /\ readable' \subseteq Layers /\ code' = code
    BY <2>1 DEF StartLaunch, AllIdle, LaunchOK
  <2>4. 0 <= LaunchSize'
    BY <2>2, <2>3 DEF LaunchSize
  <2> QED
    BY <2>2, <2>3, <2>4 DEF LaunchOK
<1>2. ASSUME lstage = "decode"
      PROVE  /\ opts \in Options
             /\ opts.tokens \in Nat \ {0} /\ opts.per_launch \in Nat \ {0} /\ opts.repeat \in Nat \ {0}
             /\ i0 \in Nat /\ i0 < opts.tokens /\ tok \in Nat /\ run \in Nat /\ run < opts.repeat
             /\ tok <= LaunchSize /\ LaunchSize <= opts.per_launch /\ LaunchSize <= opts.tokens - i0
             /\ LaunchSize \in Nat \ {0}
  BY <1>2, OptionsNumbers DEF LaunchOK, LaunchSize
<1>3. CASE DecodeToken
  <2>1. /\ lstage = "decode" /\ tok < LaunchSize /\ tok' = tok + 1
        /\ DOMAIN token_out' = DOMAIN token_out \cup {i0 + tok + 1}
        /\ UNCHANGED <<lstage, opts, readable, i0, run, code, layers_ok>>
    BY <1>3 DEF DecodeToken
  <2>2. LaunchSize' = LaunchSize /\ i0 + tok + 1 \in 1 .. opts.tokens
    BY <1>2, <2>1 DEF LaunchSize
  <2> QED
    BY <1>2, <2>1, <2>2 DEF LaunchOK
<1>4. CASE NextLaunch
  <2>1. /\ lstage = "decode" /\ tok' = 0 /\ i0' = i0 + opts.per_launch /\ i0' < opts.tokens
        /\ UNCHANGED <<lstage, opts, readable, token_out, run, code, layers_ok>>
    BY <1>4 DEF NextLaunch
  <2>2. 0 <= LaunchSize'
    BY <1>2, <2>1 DEF LaunchSize
  <2> QED
    BY <1>2, <2>1, <2>2 DEF LaunchOK
<1>5. CASE NextRepeat
  <2>1. /\ lstage = "decode" /\ tok' = 0 /\ i0' = 0 /\ run' = run + 1 /\ run + 1 < opts.repeat
        /\ UNCHANGED <<lstage, opts, readable, token_out, code, layers_ok>>
    BY <1>5 DEF NextRepeat, RunDone
  <2>2. 0 <= LaunchSize'
    BY <1>2, <2>1 DEF LaunchSize
  <2> QED
    BY <1>2, <2>1, <2>2 DEF LaunchOK
<1>6. CASE Report
  <2>1. /\ lstage' = "exit" /\ code' \in {0, 3} /\ layers_ok' = LayersOk
        /\ UNCHANGED <<opts, readable, token_out, i0, tok, run>>
    BY <1>6 DEF Report
  <2> QED
    BY <2>1, LayersOkBounded DEF LaunchOK
<1>7. CASE LaunchAborts
  BY <1>7 DEF LaunchAborts, LaunchOK
<1>8. CASE LauncherGone
  BY <1>8, Shape DEF LauncherGone, LaunchOK, NoOpts
<1> QED
  BY <1>1, <1>3, <1>4, <1>5, <1>6, <1>7, <1>8 DEF LauncherStep

-----------------------------------------------------------------------------
SessionInv == RefInv /\ PackOK /\ LaunchOK

LEMMA SessionInitInvariant == SessionInit => SessionInv
<1> SUFFICES ASSUME SessionInit PROVE SessionInv
  OBVIOUS
<1>1. RefInv
  BY RefInitInvariant DEF SessionInit
<1>2. PackOK
  BY PackerAssumption DEF SessionInit, PackerInit, PackOK
<1>3. LaunchOK
  BY Shape DEF SessionInit, LauncherInit, LaunchOK, NoOpts
<1> QED
  BY <1>1, <1>2, <1>3 DEF SessionInv

LEMMA SessionNextInvariant ==
  ASSUME SessionInv, [Next]_vars
  PROVE  SessionInv'
<1> USE DEF SessionInv
<1>1. CASE (StartPack \/ PackStep) /\ UNCHANGED <<refVars, launcherVars>>
  <2>1. PackOK' /\ RefInv'
    BY <1>1, PackKeeps, RefUnchanged
  <2>2. LaunchOK'
    BY <1>1 DEF launcherVars, LaunchOK, LaunchSize
  <2> QED
    BY <2>1, <2>2
<1>2. CASE (StartRef \/ RefStep) /\ UNCHANGED <<packerVars, launcherVars>>
  <2>1. RefInv'
    BY <1>2, ReferenceKeeps, StartKeeps DEF StartRef
  <2>2. PackOK' /\ LaunchOK'
    BY <1>2 DEF packerVars, launcherVars, PackOK, LaunchOK, LaunchSize
  <2> QED
    BY <2>1, <2>2
<1>3. CASE ((\E o \in Options : StartLaunch(o)) \/ LauncherStep)
           /\ UNCHANGED <<packerVars, refVars>>
  <2>1. LaunchOK' /\ RefInv'
    BY <1>3, LaunchKeeps, RefUnchanged
  <2>2. PackOK'
    BY <1>3 DEF packerVars, PackOK
  <2> QED
    BY <2>1, <2>2
<1>4. CASE UNCHANGED vars
  <2>1. UNCHANGED refVars
    BY <1>4 DEF vars
  <2>2. RefInv'
    BY <2>1, RefUnchanged
  <2>3. PackOK' /\ LaunchOK'
    BY <1>4 DEF vars, packerVars, launcherVars, PackOK, LaunchOK, LaunchSize
  <2> QED
    BY <2>2, <2>3
<1> QED
  BY <1>1, <1>2, <1>3, <1>4 DEF Next

LEMMA SessionInvariant == Spec => []SessionInv
<1>1. SessionInit => SessionInv
  BY SessionInitInvariant
<1>2. SessionInv /\ [Next]_vars => SessionInv'
  BY SessionNextInvariant
<1> QED
  BY <1>1, <1>2, PTL DEF Spec

\* Whatever the arguments and however often a run was cut short, the mask main
\* builds covers exactly the cached and the new positions of every forward, and
\* the hooks have seen every layer when their dictionaries are stacked
\* (reference_run.py main, Attention.forward).
THEOREM ReferenceNeverRaises == Spec => []NothingRaises
<1>1. SessionInv => NothingRaises
  BY RefInvTypes DEF SessionInv
<1> QED
  BY <1>1, SessionInvariant, PTL

\* The rows kv_convert rebuilds from the captured projections are the ones the
\* model's attention kept for the prompt, for every model of rope type none or
\* yarn, every prompt and number of decoded tokens (build_fleet_cache).
THEOREM ConvertedRowsAreHf == Spec => []FleetRowsAreHf
<1>1. SessionInv => FleetRowsAreHf
  BY DEF SessionInv, RefInv
<1> QED
  BY <1>1, SessionInvariant, PTL

\* Types and lengths of what the three tools keep: no cache row, hook entry or
\* token beyond what their loops allow, no output token past --tokens.
THEOREM SessionTypes == Spec => []TypeOK
<1>1. SessionInv => TypeOK
  BY RefInvTypes DEF SessionInv, PackOK, LaunchOK, TypeOK
<1> QED
  BY <1>1, SessionInvariant, PTL

=============================================================================
