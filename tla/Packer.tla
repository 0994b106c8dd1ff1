------------------------------- MODULE Packer -------------------------------
(***************************************************************************)
(* pack_weights.py's Packer: tensors appended one after the other to a     *)
(* flat file, each at a 256-byte boundary, and the manifest that records   *)
(* where each one went.  The file is kept as its words of two bytes        *)
(* (bf16); alignment padding carries no word.  A run may die at any point  *)
(* and be started again: opening the file truncates it, and the manifest   *)
(* of the previous run stays until it is rewritten.                        *)
(***************************************************************************)
EXTENDS Integers, Sequences

CONSTANTS
  Names,     \* the tensors in the order pack writes them
  Tensor,    \* the words of each tensor, row-major
  MaxPacks,  \* bound: how many times the tool is run
  MaxDigits  \* bound: how many digits of an offset a cut may take away

ASSUME PackerAssumption ==
  /\ Names \in Seq(DOMAIN Tensor)
  /\ \A i, j \in DOMAIN Names : Names[i] = Names[j] => i = j
  /\ \A n \in DOMAIN Tensor : Len(Tensor[n]) \in Nat /\ DOMAIN Tensor[n] = 1 .. Len(Tensor[n])
  /\ MaxPacks \in Nat /\ MaxDigits \in Nat

VARIABLES
  packing,   \* "idle", "open" (between __init__ and close) or "closed"
  file,      \* the words of weights.bin, by word address
  pos,       \* Packer.pos: the length of weights.bin in bytes
  offsets,   \* Packer.offsets
  next,      \* the tensor to write next
  manifest,  \* weights.bin.manifest: bytes, tensors, and which of them lost digits of their offset
  packs      \* runs so far

packerVars == <<packing, file, pos, offsets, next, manifest, packs>>

NoManifest == [bytes |-> -1, tensors |-> << >>, lost |-> {}]

PadOfWords(p) == (0 - p) % 128     \* mutant: the padding of a count of words
Pad(p) == (0 - p) % 256

Bytes(n) == 2 * Len(Tensor[n])

OpenBlob ==
  /\ packing = "idle" /\ packs < MaxPacks
  /\ packing' = "open"
  /\ file' = << >> /\ pos' = 0 /\ offsets' = << >> /\ next' = 1
  /\ packs' = packs + 1
  /\ UNCHANGED manifest

WriteFrom(off, n) ==
  LET base == off \div 2 IN
  [a \in DOMAIN file \cup base .. base + Len(Tensor[n]) - 1 |->
     IF a >= base THEN Tensor[n][a - base + 1] ELSE file[a]]

\* _write
Write(n) ==
  LET off == pos + Pad(pos) IN
  /\ packing = "open" /\ next \in DOMAIN Names /\ n = Names[next]
  /\ file' = WriteFrom(off, n)
  /\ pos' = off + Bytes(n)
  /\ offsets' = [m \in DOMAIN offsets \cup {n} |->
                   IF m = n THEN [offset |-> off, bytes |-> Bytes(n)] ELSE offsets[m]]
  /\ next' = next + 1
  /\ UNCHANGED <<packing, manifest, packs>>

CloseBlob ==
  /\ packing = "open" /\ next \notin DOMAIN Names
  /\ packing' = "closed"
  /\ UNCHANGED <<file, pos, offsets, next, manifest, packs>>

WriteManifest ==
  /\ packing = "closed"
  /\ manifest' = [bytes |-> pos, tensors |-> offsets, lost |-> {}]
  /\ packing' = "idle"
  /\ UNCHANGED <<file, pos, offsets, next, packs>>

LastName == Names[Len(Names)]

\* What a cut leaves of a number: nothing, or some of its leading digits.
NoNumber == -1
CutNumbers(o) == ({ o \div 10^k : k \in 1 .. MaxDigits } \ {0}) \cup {NoNumber}

\* Dying inside write_manifest.  A cut before a line's name is whole takes the
\* tensor away; one behind the offset takes away what nobody reads.  One in the
\* offset leaves the name with another number: of the last line only, as after
\* an earlier cut names are missing anyway.
TearManifest ==
  /\ packing = "closed"
  /\ \/ \E written \in 0 .. Len(Names) - 1 :
          manifest' = [bytes |-> pos, lost |-> {},
                       tensors |-> [n \in { Names[i] : i \in 1 .. written } |-> offsets[n]]]
     \/ /\ Names # << >>
        /\ \E o \in CutNumbers(offsets[LastName].offset) :
             manifest' = [bytes |-> pos, lost |-> {LastName},
                          tensors |-> [n \in DOMAIN offsets |->
                             IF n = LastName THEN [offset |-> o, bytes |-> NoNumber] ELSE offsets[n]]]
  /\ packing' = "idle"
  /\ UNCHANGED <<file, pos, offsets, next, packs>>

PackDies ==
  /\ packing # "idle"
  /\ packing' = "idle"
  /\ UNCHANGED <<file, pos, offsets, next, manifest, packs>>

PackerInit ==
  /\ packing = "idle" /\ packs = 0
  /\ file = << >> /\ pos = 0 /\ offsets = << >> /\ next = 1
  /\ manifest = NoManifest

PackerNext ==
  \/ OpenBlob \/ CloseBlob \/ WriteManifest \/ TearManifest \/ PackDies
  \/ \E n \in DOMAIN Tensor : Write(n)

PackerSpec == PackerInit /\ [][PackerNext]_packerVars

-----------------------------------------------------------------------------
\* Every tensor written so far starts on a 256-byte boundary, ends before the
\* end of the file, and is still there word for word: no later write has
\* touched it (Packer._write).
ReadsBack ==
  \A n \in DOMAIN offsets :
    /\ offsets[n].offset % 256 = 0
    /\ offsets[n].offset + offsets[n].bytes <= pos
    /\ \A k \in 1 .. Len(Tensor[n]) :
         LET a == offsets[n].offset \div 2 + k - 1 IN
         a \in DOMAIN file /\ file[a] = Tensor[n][k]

\* What upload_file tests of the blob against its manifest: its length.
Accepted == manifest.bytes = pos

=============================================================================
