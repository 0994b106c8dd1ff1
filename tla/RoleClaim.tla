----------------------------- MODULE RoleClaim -----------------------------
(***************************************************************************)
(* How the workgroups of one launch become schedulers and workers, and how *)
(* they leave: claim_role's tickets and grid barrier, the abort test at    *)
(* the entry of fleet_decode_step, and, wave by wave, the ways out of      *)
(* run_scheduler and of a worker's loop.  The waves of a workgroup run     *)
(* independently between __syncthreads; a wave that has ended no longer    *)
(* counts for its workgroup's barrier, and a __shared__ word holds any     *)
(* value until somebody writes it.                                         *)
(*                                                                         *)
(* A worker's queue is abstracted to one descriptor, whose wait cannot be  *)
(* satisfied before every workgroup has a role.                            *)
(***************************************************************************)
EXTENDS Integers, FiniteSets

CONSTANTS
  Xcds,          \* the chiplets                                   (kXCDs)
  BlocksPerXcd,  \* workgroups a chiplet should get        (kBlocksPerXCD)
  NWaves,        \* waves of a workgroup
  Placements,    \* where the hardware may put the workgroups
  Impatient      \* the workgroups whose waits may reach spin_limit

Grid   == Cardinality(Xcds) * BlocksPerXcd      \* kGrid
Blocks == 1 .. Grid
Waves  == 0 .. NWaves - 1

ASSUME RoleAssumption ==
  /\ IsFiniteSet(Xcds)
  /\ BlocksPerXcd \in Nat \ {0} /\ NWaves \in Nat \ {0}
  /\ Placements \subseteq [Blocks -> Xcds]
  /\ Impatient \subseteq Blocks

VARIABLES
  place,          \* the chiplet of each workgroup             (xcd_id())
  xcd_arrivals,   \* per chiplet, tickets taken
  grid_arrivals,  \* tickets taken in all
  abort,          \* the first reason anybody gave, or "none"     (rt.abort)
  slot,           \* per workgroup, its ticket                (slot_smem)
  word,           \* per workgroup, its __shared__ stop or ok_smem, or Unset
  at,             \* per workgroup and wave, where it is
  entered,        \* per workgroup, the waves that found no abort at entry
  signalled       \* the workers whose descriptor is done

vars == <<place, xcd_arrivals, grid_arrivals, abort, slot, word, at, entered, signalled>>

counters == <<xcd_arrivals, grid_arrivals>>

PCs == { "ticket", "arrive", "joined", "barrier", "check", "claimed", "entry",
         "init", "ready", "top", "pass", "passed",
         "wait", "waited", "body", "left" }

Unset == 2

ShiftedTwice(b) == xcd_arrivals[place[b]] - 1   \* mutant: a ticket that is a worker id already
Here(b) == xcd_arrivals[place[b]]
IsScheduler(b) == slot[b] = 0      \* claim_role returns slot - 1: -1 is the scheduler

Reasons == {"none", "barrier", "distribution", "wait"}
Aborted == abort # "none"

\* First reason wins.
RaiseAbort(code) == abort' = IF Aborted THEN abort ELSE code

Move(b, w, to) == at' = [at EXCEPT ![b][w] = to]

\* Reading a __shared__ word nobody wrote: any value, and from then on that one.
Reads(b, v) == word[b] \in {v, Unset} /\ word' = [word EXCEPT ![b] = v]

\* __syncthreads: every wave of the workgroup that has not ended arrives.
Sync(b, from, to) ==
  /\ \E w \in Waves : at[b][w] = from
  /\ \A w \in Waves : at[b][w] \in {from, "left"}
  /\ at' = [at EXCEPT ![b] = [w \in Waves |-> IF @[w] = from THEN to[w] ELSE @[w]]]

All(p)          == [w \in Waves |-> p]
First(p, q)     == [w \in Waves |-> IF w = 0 THEN p ELSE q]

-----------------------------------------------------------------------------
(* claim_role.                                                             *)

TakeTicket(b) ==
  /\ at[b][0] = "ticket"
  /\ slot' = [slot EXCEPT ![b] = Here(b)]
  /\ xcd_arrivals' = [xcd_arrivals EXCEPT ![place[b]] = @ + 1]
  /\ Move(b, 0, "arrive")
  /\ UNCHANGED <<place, grid_arrivals, abort, word, entered, signalled>>

Arrive(b) ==
  /\ at[b][0] = "arrive"
  /\ grid_arrivals' = grid_arrivals + 1
  /\ Move(b, 0, "joined")
  /\ UNCHANGED <<place, xcd_arrivals, abort, slot, word, entered, signalled>>

Join(b) ==
  /\ Sync(b, "joined", First("barrier", "claimed"))
  /\ UNCHANGED <<place, counters, abort, slot, word, entered, signalled>>

BarrierSkipped(b) == TRUE                    \* mutant: nobody waits for the others
BarrierFull(b) == grid_arrivals >= Grid

PassBarrier(b) ==
  /\ at[b][0] = "barrier"
  /\ \/ BarrierFull(b) /\ UNCHANGED abort
     \/ ~BarrierFull(b) /\ b \in Impatient /\ RaiseAbort("barrier")
  /\ Move(b, 0, "check")
  /\ UNCHANGED <<place, counters, slot, word, entered, signalled>>

TooFewHere(b) == Here(b) < BlocksPerXcd      \* mutant: a crowded chiplet passes
WrongHere(b) == Here(b) # BlocksPerXcd

CheckDistribution(b) ==
  /\ at[b][0] = "check"
  /\ IF WrongHere(b) THEN RaiseAbort("distribution") ELSE UNCHANGED abort
  /\ Move(b, 0, "claimed")
  /\ UNCHANGED <<place, counters, slot, word, entered, signalled>>

Claimed(b) ==
  /\ Sync(b, "claimed", All("entry"))
  /\ UNCHANGED <<place, counters, abort, slot, word, entered, signalled>>

\* if (aborted(rt)) return; -- each wave looks for itself.
Enter(b, w) ==
  /\ at[b][w] = "entry"
  /\ IF Aborted THEN Move(b, w, "left") /\ UNCHANGED entered
     ELSE /\ entered' = [entered EXCEPT ![b] = @ \cup {w}]
          /\ Move(b, w, IF IsScheduler(b) THEN First("init", "ready")[w]
                                          ELSE First("wait", "waited")[w])
  /\ UNCHANGED <<place, counters, abort, slot, word, signalled>>

-----------------------------------------------------------------------------
(* run_scheduler: lane 0 clears stop; every wave tests it at the top of a  *)
(* pass; lane 0 sets it at the end of one.                                 *)

InitStop(b) ==
  /\ at[b][0] = "init"
  /\ word' = [word EXCEPT ![b] = 0]
  /\ Move(b, 0, "ready")
  /\ UNCHANGED <<place, counters, abort, slot, entered, signalled>>

Begin(b) ==
  /\ Sync(b, "ready", All("top"))
  /\ UNCHANGED <<place, counters, abort, slot, word, entered, signalled>>

TestStop(b, w) ==
  /\ at[b][w] = "top"
  /\ \E v \in {0, 1} :
       Reads(b, v) /\ Move(b, w, IF v = 1 THEN "left" ELSE First("pass", "passed")[w])
  /\ UNCHANGED <<place, counters, abort, slot, entered, signalled>>

WorkDone == \A b \in Blocks : IsScheduler(b) \/ b \in signalled

StopOnDone == WorkDone                       \* mutant: deaf to an abort
StopNow    == WorkDone \/ Aborted

EndPass(b) ==
  /\ at[b][0] = "pass"
  /\ word' = IF StopNow THEN [word EXCEPT ![b] = 1] ELSE word
  /\ Move(b, 0, "passed")
  /\ UNCHANGED <<place, counters, abort, slot, entered, signalled>>

NextPass(b) ==
  /\ Sync(b, "passed", All("top"))
  /\ UNCHANGED <<place, counters, abort, slot, word, entered, signalled>>

-----------------------------------------------------------------------------
(* A worker: thread 0 waits and tells the others in ok_smem.               *)

EveryoneHasARole == \A b \in Blocks : 0 \in entered[b]

EndWait(b) ==
  /\ at[b][0] = "wait"
  /\ \/ EveryoneHasARole /\ word' = [word EXCEPT ![b] = 1] /\ UNCHANGED abort
     \/ Aborted /\ word' = [word EXCEPT ![b] = 0] /\ UNCHANGED abort
     \/ b \in Impatient /\ word' = [word EXCEPT ![b] = 0] /\ RaiseAbort("wait")
  /\ Move(b, 0, "waited")
  /\ UNCHANGED <<place, counters, slot, entered, signalled>>

Released(b) ==
  /\ \E v \in {0, 1} : Reads(b, v) /\ Sync(b, "waited", All(IF v = 1 THEN "body" ELSE "left"))
  /\ UNCHANGED <<place, counters, abort, slot, entered, signalled>>

\* The signal is thread 0's; then the queue is drained.
Signal(b) ==
  /\ Sync(b, "body", All("left"))
  /\ signalled' = IF at[b][0] = "body" THEN signalled \cup {b} ELSE signalled
  /\ UNCHANGED <<place, counters, abort, slot, word, entered>>

-----------------------------------------------------------------------------
Block(b) ==
  \/ TakeTicket(b) \/ Arrive(b) \/ Join(b) \/ PassBarrier(b) \/ CheckDistribution(b)
  \/ Claimed(b) \/ InitStop(b) \/ Begin(b) \/ EndPass(b) \/ NextPass(b)
  \/ EndWait(b) \/ Released(b) \/ Signal(b)

Wave(b, w) == Enter(b, w) \/ TestStop(b, w)

AllLeft == \A b \in Blocks : at[b] = All("left")

Returned == AllLeft /\ UNCHANGED vars

\* The host clears the counters and the abort word before every launch.
Init ==
  /\ place \in Placements
  /\ xcd_arrivals = [x \in Xcds |-> 0]
  /\ grid_arrivals = 0
  /\ abort = "none"
  /\ slot = [b \in Blocks |-> 0]
  /\ word = [b \in Blocks |-> Unset]
  /\ at = [b \in Blocks |-> First("ticket", "joined")]
  /\ entered = [b \in Blocks |-> {}]
  /\ signalled = {}

Next ==
  \/ \E b \in Blocks : Block(b) \/ (\E w \in Waves : Wave(b, w))
  \/ Returned

\* Cooperative launch: every wave is resident and keeps running.
Fairness ==
  \A b \in Blocks : WF_vars(Block(b)) /\ (\A w \in Waves : WF_vars(Wave(b, w)))

Spec     == Init /\ [][Next]_vars
FairSpec == Spec /\ Fairness

-----------------------------------------------------------------------------
TypeOK ==
  /\ place \in [Blocks -> Xcds]
  /\ xcd_arrivals \in [Xcds -> Nat] /\ grid_arrivals \in Nat
  /\ abort \in Reasons
  /\ slot \in [Blocks -> Nat]
  /\ word \in [Blocks -> {0, 1, Unset}]
  /\ at \in [Blocks -> [Waves -> PCs]]
  /\ entered \in [Blocks -> SUBSET Waves]
  /\ signalled \subseteq Blocks

\* Nobody acts in a role the chiplet does not have: a workgroup that gets past
\* the entry test holds a ticket below kBlocksPerXCD (a higher one would walk
\* the queue of another chiplet's worker), alone on its chiplet with it, and
\* the chiplet's scheduler exists.
RolesAreReal ==
  \A b \in Blocks : entered[b] # {} =>
    /\ slot[b] < BlocksPerXcd
    /\ \A c \in Blocks \ {b} : entered[c] # {} /\ place[c] = place[b] => slot[c] # slot[b]
    /\ \E c \in Blocks : place[c] = place[b] /\ IsScheduler(c) /\ at[c][0] # "ticket"

\* A launch the hardware placed as assumed is never refused for its placement,
\* however late a workgroup polls its chiplet's tickets.
RightPlacement == \A x \in Xcds : Cardinality({ b \in Blocks : place[b] = x }) = BlocksPerXcd
NoSpuriousAbort == RightPlacement => abort # "distribution"

\* A workgroup that lost its first wave at the entry test but not the others.
Headless(b) == entered[b] # {} /\ 0 \notin entered[b] /\ at[b][0] = "left"

\* Whoever enters with its first wave, or not at all, also leaves: lane 0 and
\* the other waves of a scheduler never miss each other over stop, and a
\* worker never waits for good.
WholeBlocksLeave == <>(\A b \in Blocks : at[b] = All("left") \/ Headless(b))

\* What the entry of fleet_decode_step says of a wrong distribution.
EveryoneLeaves == <>AllLeft

=============================================================================
