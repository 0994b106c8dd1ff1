----------------------------- MODULE Visibility -----------------------------
(***************************************************************************)
(* What a task body really sees on gfx942: stores land in the L2 of the    *)
(* writer's own chiplet, loads go through the reader's L1 and its          *)
(* chiplet's L2, and only the fences of wait_event and signal_event move   *)
(* a value from one chiplet to another (src/runtime/fleet_runtime.h).      *)
(*                                                                         *)
(* The caches are the hardware, modelled from what the code says of it and *)
(* in their worst case: a line stays until a worker's fence drops it (an   *)
(* eviction could only refresh it), a writeback happens only at a worker's *)
(* release, an invalidate keeps dirty lines, and a cell is its own line.   *)
(* The fences a scheduler adds around a change of its mirror are left out: *)
(* they write back and drop lines earlier, and what holds here holds       *)
(* without them.  mem of DecodeDataflow is what a coherent memory would    *)
(* hold.                                                                   *)
(***************************************************************************)
EXTENDS DecodeDataflow, Functions

CONSTANT CoherentActs     \* --coherent-acts: agent-scope accesses, fewer fences

VARIABLES
  ram,      \* per cell, the value below the L2s
  l2,       \* per chiplet, its lines: cell -> value and whether it is dirty
  l1        \* per workgroup, the copies in its L1: cell -> value

caches == <<ram, l2, l1>>
vvars  == <<dvars, caches>>

\* fleet_launch.hip refuses --coherent-acts for graphs whose kv_a or local
\* copies cross chiplets through plain loads.
ASSUME CoherentAllowed ==
  /\ CoherentActs \in BOOLEAN
  /\ CoherentActs => \A i \in TaskIds :
       Desc[i].flags \cap {"KVA_SHARED", "LOCAL_FOLD", "LOCAL_KVA"} = {}

NoLines    == [c \in {} |-> 0]
Line(v, d) == [value |-> v, dirty |-> d]
DirtyIn(lines) == { c \in DOMAIN lines : lines[c].dirty }

-----------------------------------------------------------------------------
(* Which accesses use the caches.                                          *)

InLds(c) == c[1] = "ids"

\* ld_coh: the activations --coherent-acts reads past both caches.  The
\* expert partials, o and h are read with plain loads all the same.
Coherent(c) ==
  CoherentActs /\ c[1] \in {"x0", "x1", "oproj_partial", "candidate", "token_in"}

PlainReads(b) == { i[1] : i \in { j \in Inputs(b) : ~InLds(j[1]) /\ ~Coherent(j[1]) } }

-----------------------------------------------------------------------------
(* The fences a workgroup executes in a step.                              *)

PassedWait(b) ==
  \/ pc[b] = "boundary" /\ pc'[b] = "wait"
  \/ pc[b] = "wait" /\ pc'[b] \in Running
  \/ inner'[b] > inner[b]

\* fenced_events: the dense layer's h, the other payload read with plain
\* loads on another chiplet besides the cache row, which done_event covers.
OnlyDone(e) == e = DoneEvent      \* mutant: the launcher finds no dense event
event_fenced(e) ==
  \/ ~CoherentActs
  \/ e = DoneEvent
  \/ \E i \in TaskIds : Desc[i].kind = "DENSE_GATE_UP" /\ Desc[i].signal_event = e

\* The acquire of a satisfied wait: the L1 alone, or the L2 as well.
GlobalOnly(w) == IF w.scope = "GLOBAL" THEN "GLOBAL" ELSE "NONE"      \* mutant
AcquireOf(w) ==
  IF w.event = NoEvent \/ (w.scope = "GLOBAL" /\ ~event_fenced(w.event)) THEN "NONE"
  ELSE w.scope

\* ... and the one the last router makes before it reads the chiplet's logits.
Acquire(b) ==
  IF PassedWait(b) THEN AcquireOf(CurrentWait(b))
  ELSE IF pc[b] = "arrive" /\ pc'[b] = "topk" THEN "XCD_LOCAL"
  ELSE "NONE"

\* The last arriver's writeback before it adds the chiplet's share, and the
\* flush of the cache row by its writer.
NeverReleases(b) == FALSE         \* mutant: event_release_fenced is FALSE
Releases(b) ==
  \/ pc[b] = "publish" /\ pc'[b] # "publish"
  \/ CoherentActs /\ \E o \in Landed(b) : o[1][1] = "kv"

-----------------------------------------------------------------------------
(* Effects on one chiplet's L2 lines.                                      *)

Stored(lines, landed) ==
  Overlay([c \in { o[1] : o \in landed } |-> Line((CHOOSE o \in landed : o[1] = c)[2], TRUE)],
          lines)

Cleaned(lines)     == [c \in DOMAIN lines |-> Line(lines[c].value, FALSE)]
WrittenBack(lines) == Overlay([c \in DirtyIn(lines) |-> lines[c].value], ram)

\* A step of a workgroup: its stores land, its fences act, and the part of a
\* body it enters loads what that part reads.
WorkerCaches(b) ==
  LET landed  == { o \in Landed(b) : ~InLds(o[1]) }
      stored  == Stored(l2[b[1]], landed)
      lines   == IF Releases(b) THEN Cleaned(stored) ELSE stored
      acquire == Acquire(b)
      kept    == IF acquire = "GLOBAL" THEN Restrict(lines, DirtyIn(lines)) ELSE lines
      copies  == IF acquire # "NONE" THEN {} ELSE DOMAIN l1[b] \ { o[1] : o \in landed }
      reads   == PlainReads(b)'
      fetched == (reads \ copies) \ DOMAIN kept
      filled  == Overlay([c \in fetched |-> Line(ram'[c], FALSE)], kept)
  IN  /\ ram' = IF Releases(b) THEN WrittenBack(stored) ELSE ram
      /\ l2' = [l2 EXCEPT ![b[1]] = filled]
      /\ l1' = [l1 EXCEPT ![b] = [c \in copies \cup reads |->
                   IF c \in copies THEN l1[b][c] ELSE filled[c].value]]

\* The end of one kernel and the start of the next write back and drop it all.
LaunchCaches ==
  /\ ram' = [c \in Cells |->
               LET dirty == { x \in Xcds : c \in DirtyIn(l2[x]) }
               IN  IF dirty = {} THEN ram[c] ELSE l2[CHOOSE x \in dirty : TRUE][c].value]
  /\ l2' = [x \in Xcds |-> NoLines]
  /\ l1' = [b \in Blocks |-> NoLines]

VInit ==
  /\ DInit
  /\ ram = mem
  /\ l2 = [x \in Xcds |-> NoLines]
  /\ l1 = [b \in Blocks |-> NoLines]

VNext ==
  \/ \E b \in Blocks : Worker(b) /\ Land(b) /\ WorkerCaches(b)
  \/ \E x \in Xcds : Scheduler(x) /\ UNCHANGED <<mem, caches>>
  \/ Relaunch /\ UNCHANGED mem /\ LaunchCaches
  \/ Finished /\ UNCHANGED <<mem, caches>>

VSpec == VInit /\ [][VNext]_vvars

VFairSpec == VSpec /\ Fairness

-----------------------------------------------------------------------------
\* The value workgroup b reads from cell c.
Seen(b, c) ==
  IF ~Coherent(c) THEN l1[b][c]
  ELSE IF c \in DirtyIn(l2[b[1]]) THEN l2[b[1]][c].value ELSE ram[c]

\* Whatever the protocol has ordered, the caches also show: every value a
\* body reads is the one its producer stored, on this chiplet or another, and
\* no L1 or L2 keeps an older value of a buffer that every layer reuses
\* ("every cross-XCD activation is read through an agent-scope atomic load").
PayloadsAreVisible ==
  \A b \in Blocks : \A i \in Inputs(b) : ~InLds(i[1]) => Seen(b, i[1]) = i[2]

\* No two chiplets hold unwritten changes of the same cell: the order of their
\* writebacks would decide its value (x[1], published by XCD 0 and rewritten
\* in place by every chiplet's dense_down).
OneDirtyCopy ==
  \A x, y \in Xcds : x # y => DirtyIn(l2[x]) \cap DirtyIn(l2[y]) = {}

=============================================================================
