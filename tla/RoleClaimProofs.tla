--------------------------- MODULE RoleClaimProofs ---------------------------
(***************************************************************************)
(* For every number of chiplets, workgroups and waves and every placement: *)
(* the roles claim_role hands out are real, and a launch the hardware      *)
(* placed as assumed is never refused for its placement.                   *)
(*                                                                         *)
(* The counters are read while others still bump them, so the argument     *)
(* counts: a chiplet's counter is the number of its workgroups past their  *)
(* ticket, the grid's counter that of the workgroups past the barrier's    *)
(* arrival; with the latter at kGrid nobody is left who could take a       *)
(* ticket, and the former no longer moves.                                 *)
(***************************************************************************)
EXTENDS RoleClaim, FiniteSetTheorems, TLAPS

Ticketed(x) == { b \in Blocks : place[b] = x /\ at[b][0] # "ticket" }
Arrived     == { b \in Blocks : at[b][0] \notin {"ticket", "arrive"} }
AllIn       == \A b \in Blocks : at[b][0] \notin {"ticket", "arrive"}

\* The first wave of b is through the distribution check.
Past(b) == at[b][0] \notin {"ticket", "arrive", "joined", "barrier", "check"}

Counted ==
  /\ grid_arrivals = Cardinality(Arrived)
  /\ \A x \in Xcds : xcd_arrivals[x] = Cardinality(Ticketed(x))

\* Tickets of a chiplet are 0, 1, ... in some order.
Tickets ==
  /\ \A b \in Blocks : at[b][0] # "ticket" => slot[b] < Here(b)
  /\ \A b, c \in Blocks :
       b # c /\ place[b] = place[c] /\ at[b][0] # "ticket" /\ at[c][0] # "ticket"
         => slot[b] # slot[c]
  /\ \A x \in Xcds : xcd_arrivals[x] # 0 =>
       \E c \in Blocks : place[c] = x /\ at[c][0] # "ticket" /\ slot[c] = 0

\* What no abort tells whoever is past the barrier, and past the check.
Checked ==
  /\ abort = "none" => \A b \in Blocks : at[b][0] = "check" \/ Past(b) => AllIn
  /\ abort = "none" => \A b \in Blocks : Past(b) => Here(b) = BlocksPerXcd
  /\ \A b \in Blocks : entered[b] # {} => AllIn /\ Here(b) = BlocksPerXcd
  /\ \A b \in Blocks, w \in Waves : at[b][w] = "entry" => Past(b)

IInv == TypeOK /\ Counted /\ Tickets /\ Checked /\ NoSpuriousAbort

-----------------------------------------------------------------------------
(* Constants and counting.                                                 *)

LEMMA BlocksFinite ==
  /\ 0 \in Waves
  /\ Grid \in Nat
  /\ IsFiniteSet(Blocks) /\ Cardinality(Blocks) = Grid
<1>1. 0 \in Waves
  BY RoleAssumption DEF Waves
<1>2. Cardinality(Xcds) \in Nat /\ BlocksPerXcd \in Nat
  BY RoleAssumption, FS_CardinalityType
<1>3. Grid \in Nat
  BY <1>2 DEF Grid
<1>4. IsFiniteSet(Blocks) /\ Cardinality(Blocks) = Grid
  BY <1>3, FS_Interval DEF Blocks
<1> QED
  BY <1>1, <1>3, <1>4

\* One element more, one more in the count.
LEMMA OneMore ==
  ASSUME NEW S \in SUBSET Blocks, NEW T \in SUBSET Blocks,
         NEW b \in Blocks, b \notin S, T = S \cup {b}
  PROVE  Cardinality(T) = Cardinality(S) + 1
<1>1. IsFiniteSet(S)
  BY BlocksFinite, FS_Subset
<1> QED
  BY <1>1, FS_AddElement

\* A full barrier means everybody has arrived.
LEMMA FullBarrier ==
  ASSUME TypeOK, Counted, grid_arrivals >= Grid
  PROVE  AllIn
<1>1. Arrived \in SUBSET Blocks
  BY DEF Arrived
<1>2. Cardinality(Arrived) <= Cardinality(Blocks) /\ (Cardinality(Blocks) = Cardinality(Arrived) => Blocks = Arrived)
  BY <1>1, BlocksFinite, FS_Subset
<1>3. Cardinality(Arrived) = grid_arrivals /\ grid_arrivals \in Nat
  BY DEF Counted, TypeOK
<1>4. Blocks = Arrived
  BY <1>2, <1>3, BlocksFinite
<1> QED
  BY <1>4 DEF Arrived, AllIn

\* ... and then a chiplet's counter is the number of its workgroups.
LEMMA AllTicketed ==
  ASSUME AllIn, Counted, NEW x \in Xcds
  PROVE  xcd_arrivals[x] = Cardinality({ b \in Blocks : place[b] = x })
<1>1. Ticketed(x) = { b \in Blocks : place[b] = x }
  BY DEF AllIn, Ticketed
<1> QED
  BY <1>1 DEF Counted

-----------------------------------------------------------------------------
(* Steps.                                                                  *)

LEMMA InitInvariant == Init => IInv
<1> SUFFICES ASSUME Init PROVE IInv
  OBVIOUS
<1>1. 0 \in Waves /\ IsFiniteSet({}) /\ Cardinality({}) = 0
  BY BlocksFinite, FS_EmptySet
<1>2. \A b \in Blocks, w \in Waves : at[b][w] = IF w = 0 THEN "ticket" ELSE "joined"
  BY DEF Init, First
<1>3. TypeOK
  BY <1>1, RoleAssumption DEF Init, TypeOK, First, PCs, Reasons, Unset
<1>4. Counted
  <2>1. Arrived = {} /\ \A x \in Xcds : Ticketed(x) = {}
    BY <1>1, <1>2 DEF Arrived, Ticketed
  <2> QED
    BY <1>1, <2>1 DEF Init, Counted
<1>5. Tickets
  BY <1>1, <1>2 DEF Init, Tickets
<1>6. Checked
  BY <1>1, <1>2 DEF Init, Checked, Past
<1>7. NoSpuriousAbort
  BY DEF Init, NoSpuriousAbort
<1> QED
  BY <1>3, <1>4, <1>5, <1>6, <1>7 DEF IInv

\* Every step keeps the types.
LEMMA SyncType ==
  ASSUME TypeOK, NEW b \in Blocks, NEW from, NEW to \in [Waves -> PCs], Sync(b, from, to)
  PROVE  at' \in [Blocks -> [Waves -> PCs]]
  BY DEF TypeOK, Sync

LEMMA MoveType ==
  ASSUME TypeOK, NEW b \in Blocks, NEW w \in Waves, NEW to \in PCs, Move(b, w, to)
  PROVE  at' \in [Blocks -> [Waves -> PCs]]
  BY DEF TypeOK, Move

LEMMA NextType == TypeOK /\ [Next]_vars => TypeOK'
<1> SUFFICES ASSUME TypeOK, [Next]_vars PROVE TypeOK'
  OBVIOUS
<1> USE BlocksFinite
<1>0. \A p, q \in PCs : First(p, q) \in [Waves -> PCs] /\ All(p) \in [Waves -> PCs]
  BY DEF First, All
<1>1. ASSUME NEW b \in Blocks, TakeTicket(b) PROVE TypeOK'
  BY <1>1, MoveType DEF TypeOK, TakeTicket, Here, PCs
<1>2. ASSUME NEW b \in Blocks, Arrive(b) PROVE TypeOK'
  BY <1>2, MoveType DEF TypeOK, Arrive, PCs
<1>3. ASSUME NEW b \in Blocks, Join(b) PROVE TypeOK'
  <2>1. First("barrier", "claimed") \in [Waves -> PCs]
    BY <1>0 DEF PCs
  <2> QED
    BY <1>3, <2>1, SyncType DEF TypeOK, Join, counters
<1>4. ASSUME NEW b \in Blocks, PassBarrier(b) PROVE TypeOK'
  BY <1>4, MoveType DEF TypeOK, PassBarrier, RaiseAbort, Reasons, PCs, counters
<1>5. ASSUME NEW b \in Blocks, CheckDistribution(b) PROVE TypeOK'
  BY <1>5, MoveType DEF TypeOK, CheckDistribution, RaiseAbort, Reasons, PCs, counters
<1>6. ASSUME NEW b \in Blocks, Claimed(b) PROVE TypeOK'
  <2>1. All("entry") \in [Waves -> PCs]
    BY <1>0 DEF PCs
  <2> QED
    BY <1>6, <2>1, SyncType DEF TypeOK, Claimed, counters
<1>7. ASSUME NEW b \in Blocks, InitStop(b) PROVE TypeOK'
  BY <1>7, MoveType DEF TypeOK, InitStop, Unset, PCs, counters
<1>8. ASSUME NEW b \in Blocks, Begin(b) PROVE TypeOK'
  <2>1. All("top") \in [Waves -> PCs]
    BY <1>0 DEF PCs
  <2> QED
    BY <1>8, <2>1, SyncType DEF TypeOK, Begin, counters
<1>9. ASSUME NEW b \in Blocks, EndPass(b) PROVE TypeOK'
  BY <1>9, MoveType DEF TypeOK, EndPass, Unset, PCs, counters
<1>10. ASSUME NEW b \in Blocks, NextPass(b) PROVE TypeOK'
  <2>1. All("top") \in [Waves -> PCs]
    BY <1>0 DEF PCs
  <2> QED
    BY <1>10, <2>1, SyncType DEF TypeOK, NextPass, counters
<1>11. ASSUME NEW b \in Blocks, EndWait(b) PROVE TypeOK'
  BY <1>11, MoveType DEF TypeOK, EndWait, RaiseAbort, Reasons, Unset, PCs, counters
<1>12. ASSUME NEW b \in Blocks, Released(b) PROVE TypeOK'
  <2>1. PICK v \in {0, 1} : Reads(b, v) /\ Sync(b, "waited", All(IF v = 1 THEN "body" ELSE "left"))
    BY <1>12 DEF Released
  <2>2. All(IF v = 1 THEN "body" ELSE "left") \in [Waves -> PCs]
    BY <1>0 DEF PCs
  <2>3. at' \in [Blocks -> [Waves -> PCs]]
    BY <2>1, <2>2, SyncType
  <2> QED
    BY <1>12, <2>1, <2>3 DEF TypeOK, Released, Reads, Unset, counters
<1>13. ASSUME NEW b \in Blocks, Signal(b) PROVE TypeOK'
  <2>1. All("left") \in [Waves -> PCs]
    BY <1>0 DEF PCs
  <2> QED
    BY <1>13, <2>1, SyncType DEF TypeOK, Signal, counters
<1>14. ASSUME NEW b \in Blocks, NEW w \in Waves, Enter(b, w) PROVE TypeOK'
  BY <1>14, MoveType DEF TypeOK, Enter, First, PCs, counters
<1>15. ASSUME NEW b \in Blocks, NEW w \in Waves, TestStop(b, w) PROVE TypeOK'
  <2>1. PICK v \in {0, 1} :
          Reads(b, v) /\ Move(b, w, IF v = 1 THEN "left" ELSE First("pass", "passed")[w])
    BY <1>15 DEF TestStop
  <2>2. at' \in [Blocks -> [Waves -> PCs]]
    BY <2>1, MoveType DEF PCs, First
  <2> QED
    BY <1>15, <2>1, <2>2 DEF TypeOK, TestStop, Reads, Unset, counters
<1>16. CASE Returned \/ UNCHANGED vars
  BY <1>16 DEF TypeOK, Returned, vars
<1> QED
  BY <1>1, <1>2, <1>3, <1>4, <1>5, <1>6, <1>7, <1>8, <1>9, <1>10, <1>11, <1>12, <1>13, <1>14,
     <1>15, <1>16 DEF Next, Block, Wave

-----------------------------------------------------------------------------
(* Most steps take no ticket, arrive nowhere and leave the check's verdict *)
(* alone; of wave 0 they only move what has joined, or is past the check.  *)

Steady ==
  /\ UNCHANGED <<place, counters, slot>>
  /\ abort' = "none" => abort = "none"
  /\ abort' = "distribution" => abort = "distribution"
  /\ \A b \in Blocks :
       \/ at'[b][0] = at[b][0]
       \/ at[b][0] = "joined" /\ at'[b][0] = "barrier"
       \/ Past(b) /\ Past(b)'
  /\ \A b \in Blocks, w \in Waves : at'[b][w] = "entry" => at[b][w] = "entry" \/ Past(b)'
  /\ \A b \in Blocks : entered'[b] # {} =>
       entered[b] # {} \/ (AllIn /\ Here(b) = BlocksPerXcd)

LEMMA SteadyStep ==
  ASSUME IInv, TypeOK', Steady
  PROVE  IInv'
<1>1. \A b \in Blocks :
        /\ at'[b][0] = "ticket" <=> at[b][0] = "ticket"
        /\ at'[b][0] = "arrive" <=> at[b][0] = "arrive"
        /\ at'[b][0] = "check" <=> at[b][0] = "check"
        /\ Past(b)' <=> Past(b)
  BY DEF Steady, Past
<1>2. Counted'
  <2>1. Arrived' = Arrived /\ \A x \in Xcds : Ticketed(x)' = Ticketed(x)
    BY <1>1 DEF Steady, Arrived, Ticketed
  <2> QED
    BY <2>1 DEF IInv, Counted, Steady, counters
<1>3. Tickets'
  BY <1>1 DEF IInv, Tickets, Steady, Here, counters
<1>4. AllIn' <=> AllIn
  BY <1>1 DEF AllIn
<1>5. \A b \in Blocks : Here(b)' = Here(b)
  BY DEF Steady, Here, counters
<1>6. Checked'
  BY <1>1, <1>4, <1>5 DEF IInv, Checked, Steady
<1>7. NoSpuriousAbort'
  BY DEF IInv, NoSpuriousAbort, RightPlacement, Steady
<1> QED
  BY <1>2, <1>3, <1>6, <1>7 DEF IInv

LEMMA MoveSteady ==
  ASSUME TypeOK, NEW b \in Blocks, NEW w \in Waves, NEW to, Move(b, w, to)
  PROVE  /\ at'[b][w] = to
         /\ \A c \in Blocks, v \in Waves : c # b \/ v # w => at'[c][v] = at[c][v]
  BY DEF TypeOK, Move

LEMMA SyncSteady ==
  ASSUME TypeOK, NEW b \in Blocks, NEW from, NEW to, Sync(b, from, to)
  PROVE  /\ \A w \in Waves : /\ at[b][w] \in {from, "left"}
                             /\ at'[b][w] \in {to[w], "left"}
                             /\ at[b][w] = from => at'[b][w] = to[w]
                             /\ at[b][w] # from => at'[b][w] = "left"
         /\ \A c \in Blocks \ {b}, w \in Waves : at'[c][w] = at[c][w]
  BY DEF TypeOK, Sync

LEMMA TakeTicketStep ==
  ASSUME IInv, TypeOK', NEW b \in Blocks, TakeTicket(b)
  PROVE  IInv'
<1> DEFINE x == place[b]
<1> USE BlocksFinite
<1>1. /\ TypeOK /\ x \in Xcds /\ xcd_arrivals[x] \in Nat
      /\ at[b][0] = "ticket" /\ ~AllIn /\ ~Past(b)
  BY DEF IInv, TypeOK, TakeTicket, AllIn, Past
<1>2. /\ at'[b][0] = "arrive"
      /\ \A c \in Blocks, v \in Waves : c # b \/ v # 0 => at'[c][v] = at[c][v]
  BY <1>1, MoveSteady DEF TakeTicket
<1>3. /\ xcd_arrivals'[x] = xcd_arrivals[x] + 1
      /\ \A y \in Xcds \ {x} : xcd_arrivals'[y] = xcd_arrivals[y]
      /\ slot'[b] = xcd_arrivals[x]
      /\ \A c \in Blocks \ {b} : slot'[c] = slot[c]
      /\ UNCHANGED <<place, grid_arrivals, abort, entered>>
  BY <1>1 DEF IInv, TypeOK, TakeTicket, Here
<1>4. Counted'
  <2>1. Arrived' = Arrived
    BY <1>1, <1>2 DEF Arrived
  <2>2. ASSUME NEW y \in Xcds PROVE xcd_arrivals'[y] = Cardinality(Ticketed(y)')
    <3>1. CASE y = x
      <4>1. Ticketed(x)' = Ticketed(x) \cup {b} /\ b \notin Ticketed(x)
        BY <1>1, <1>2, <1>3 DEF Ticketed
      <4>2. Ticketed(x) \in SUBSET Blocks /\ Ticketed(x)' \in SUBSET Blocks
        BY DEF Ticketed
      <4>3. Cardinality(Ticketed(x)') = Cardinality(Ticketed(x)) + 1
        BY <4>1, <4>2, OneMore
      <4> QED
        BY <1>1, <1>3, <3>1, <4>3 DEF IInv, Counted
    <3>2. CASE y # x
      <4>1. Ticketed(y)' = Ticketed(y)
        BY <1>2, <1>3, <3>2 DEF Ticketed
      <4> QED
        BY <1>3, <3>2, <4>1 DEF IInv, Counted
    <3> QED
      BY <3>1, <3>2
  <2> QED
    BY <1>3, <2>1, <2>2 DEF IInv, Counted
<1>5. Tickets'
  <2>1. ASSUME NEW c \in Blocks, at'[c][0] # "ticket" PROVE slot'[c] < Here(c)'
    <3>1. CASE c = b
      BY <1>1, <1>3, <3>1 DEF Here
    <3>2. CASE c # b
      <4>1. place[c] \in Xcds /\ slot[c] \in Nat /\ xcd_arrivals[place[c]] \in Nat
        BY <1>1 DEF TypeOK
      <4>2. at[c][0] # "ticket" /\ slot'[c] = slot[c] /\ slot[c] < xcd_arrivals[place[c]]
        BY <1>2, <1>3, <2>1, <3>2 DEF IInv, Tickets, Here
      <4>3. xcd_arrivals'[place[c]] >= xcd_arrivals[place[c]]
        BY <1>1, <1>3, <4>1
      <4>4. Here(c)' = xcd_arrivals'[place[c]] /\ xcd_arrivals'[place[c]] \in Nat
        BY <1>3, <4>1 DEF Here, TypeOK
      <4> QED
        BY <4>1, <4>2, <4>3, <4>4
    <3> QED
      BY <3>1, <3>2
  <2>2. ASSUME NEW c \in Blocks, NEW d \in Blocks, c # d, place'[c] = place'[d],
               at'[c][0] # "ticket", at'[d][0] # "ticket"
        PROVE  slot'[c] # slot'[d]
    <3>1. CASE c # b /\ d # b
      BY <1>2, <1>3, <2>2, <3>1 DEF IInv, Tickets
    <3>2. CASE c = b
      <4>1. at[d][0] # "ticket" /\ place[d] = x /\ slot[d] < xcd_arrivals[x] /\ slot'[d] = slot[d]
        BY <1>2, <1>3, <2>2, <3>2 DEF IInv, Tickets, Here
      <4> QED
        BY <1>1, <1>3, <3>2, <4>1 DEF IInv, TypeOK
    <3>3. CASE d = b
      <4>1. at[c][0] # "ticket" /\ place[c] = x /\ slot[c] < xcd_arrivals[x] /\ slot'[c] = slot[c]
        BY <1>2, <1>3, <2>2, <3>3 DEF IInv, Tickets, Here
      <4> QED
        BY <1>1, <1>3, <3>3, <4>1 DEF IInv, TypeOK
    <3> QED
      BY <3>1, <3>2, <3>3
  <2>3. ASSUME NEW y \in Xcds, xcd_arrivals'[y] # 0
        PROVE  \E c \in Blocks : place'[c] = y /\ at'[c][0] # "ticket" /\ slot'[c] = 0
    <3>1. CASE y = x /\ xcd_arrivals[x] = 0
      BY <1>2, <1>3, <3>1
    <3>2. CASE ~(y = x /\ xcd_arrivals[x] = 0)
      <4>1. xcd_arrivals[y] # 0
        BY <1>3, <2>3, <3>2
      <4>2. PICK c \in Blocks : place[c] = y /\ at[c][0] # "ticket" /\ slot[c] = 0
        BY <4>1 DEF IInv, Tickets
      <4> QED
        BY <1>1, <1>2, <1>3, <4>2
    <3> QED
      BY <3>1, <3>2
  <2> QED
    BY <2>1, <2>2, <2>3 DEF Tickets
<1>6. Checked'
  <2>1. \A c \in Blocks : /\ at'[c][0] = "check" <=> at[c][0] = "check"
                          /\ Past(c)' <=> Past(c)
    BY <1>1, <1>2 DEF Past
  <2>2. abort = "none" => \A c \in Blocks : at[c][0] # "check" /\ ~Past(c)
    BY <1>1 DEF IInv, Checked
  <2>3. \A c \in Blocks : entered'[c] = {}
    BY <1>1, <1>3 DEF IInv, Checked
  <2>4. \A c \in Blocks, w \in Waves : at'[c][w] = "entry" => Past(c)'
    BY <1>2, <2>1 DEF IInv, Checked
  <2> QED
    BY <1>3, <2>1, <2>2, <2>3, <2>4 DEF Checked
<1>7. NoSpuriousAbort'
  BY <1>3 DEF IInv, NoSpuriousAbort, RightPlacement
<1> QED
  BY <1>4, <1>5, <1>6, <1>7 DEF IInv

LEMMA ArriveStep ==
  ASSUME IInv, TypeOK', NEW b \in Blocks, Arrive(b)
  PROVE  IInv'
<1> USE BlocksFinite
<1>1. TypeOK /\ at[b][0] = "arrive" /\ ~AllIn /\ ~Past(b)
  BY DEF IInv, Arrive, AllIn, Past
<1>2. /\ at'[b][0] = "joined"
      /\ \A c \in Blocks, v \in Waves : c # b \/ v # 0 => at'[c][v] = at[c][v]
  BY <1>1, MoveSteady DEF Arrive
<1>3. UNCHANGED <<place, xcd_arrivals, abort, slot, entered>>
  BY DEF Arrive
<1>4. Counted'
  <2>1. Arrived' = Arrived \cup {b} /\ b \notin Arrived
    BY <1>1, <1>2 DEF Arrived
  <2>2. Arrived \in SUBSET Blocks /\ Arrived' \in SUBSET Blocks
    BY DEF Arrived
  <2>3. Cardinality(Arrived') = Cardinality(Arrived) + 1
    BY <2>1, <2>2, OneMore
  <2>4. \A x \in Xcds : Ticketed(x)' = Ticketed(x)
    BY <1>1, <1>2, <1>3 DEF Ticketed
  <2> QED
    BY <1>3, <2>3, <2>4 DEF IInv, Counted, Arrive
<1>5. \A c \in Blocks : at'[c][0] = "ticket" <=> at[c][0] = "ticket"
  BY <1>1, <1>2
<1>6. Tickets'
  BY <1>3, <1>5 DEF IInv, Tickets, Here
<1>7. Checked'
  <2>1. \A c \in Blocks : /\ at'[c][0] = "check" <=> at[c][0] = "check"
                          /\ Past(c)' <=> Past(c)
    BY <1>1, <1>2 DEF Past
  <2>2. abort = "none" => \A c \in Blocks : at[c][0] # "check" /\ ~Past(c)
    BY <1>1 DEF IInv, Checked
  <2>3. \A c \in Blocks : entered'[c] = {}
    BY <1>1, <1>3 DEF IInv, Checked
  <2>4. \A c \in Blocks, w \in Waves : at'[c][w] = "entry" => Past(c)'
    BY <1>2, <2>1 DEF IInv, Checked
  <2> QED
    BY <1>3, <2>1, <2>2, <2>3, <2>4 DEF Checked
<1>8. NoSpuriousAbort'
  BY <1>3 DEF IInv, NoSpuriousAbort, RightPlacement
<1> QED
  BY <1>4, <1>6, <1>7, <1>8 DEF IInv

\* The barrier: past it without an abort, everybody has a ticket.
LEMMA PassBarrierStep ==
  ASSUME IInv, TypeOK', NEW b \in Blocks, PassBarrier(b)
  PROVE  IInv'
<1> USE BlocksFinite
<1>1. TypeOK /\ at[b][0] = "barrier"
  BY DEF IInv, PassBarrier
<1>2. /\ at'[b][0] = "check"
      /\ \A c \in Blocks, v \in Waves : c # b \/ v # 0 => at'[c][v] = at[c][v]
  BY <1>1, MoveSteady DEF PassBarrier
<1>3. UNCHANGED <<place, xcd_arrivals, grid_arrivals, slot, entered>>
  BY DEF PassBarrier, counters
<1>4. /\ abort' = "none" => abort = "none" /\ BarrierFull(b)
      /\ abort' = "distribution" => abort = "distribution"
  BY DEF PassBarrier, RaiseAbort, Aborted
<1>5. BarrierFull(b) => AllIn
  BY <1>1, FullBarrier DEF IInv, BarrierFull
<1>6. \A c \in Blocks : /\ at'[c][0] = "ticket" <=> at[c][0] = "ticket"
                        /\ at'[c][0] = "arrive" <=> at[c][0] = "arrive"
                        /\ Past(c)' <=> Past(c)
  BY <1>1, <1>2 DEF Past
<1>7. AllIn' <=> AllIn
  BY <1>6 DEF AllIn
<1>8. Counted'
  <2>1. Arrived' = Arrived /\ \A x \in Xcds : Ticketed(x)' = Ticketed(x)
    BY <1>3, <1>6 DEF Arrived, Ticketed
  <2> QED
    BY <1>3, <2>1 DEF IInv, Counted
<1>9. Tickets'
  BY <1>3, <1>6 DEF IInv, Tickets, Here
<1>10. Checked'
  <2>1. abort' = "none" => AllIn'
    BY <1>4, <1>5, <1>7
  <2>2. \A c \in Blocks : Here(c)' = Here(c)
    BY <1>3 DEF Here
  <2>3. \A c \in Blocks, w \in Waves : at'[c][w] = "entry" => Past(c)'
    BY <1>2, <1>6 DEF IInv, Checked
  <2> QED
    BY <1>3, <1>4, <1>6, <1>7, <2>1, <2>2, <2>3 DEF IInv, Checked
<1>11. NoSpuriousAbort'
  BY <1>3, <1>4 DEF IInv, NoSpuriousAbort, RightPlacement
<1> QED
  BY <1>8, <1>9, <1>10, <1>11 DEF IInv

\* The check: with everybody ticketed, it sees the chiplet's final count.
LEMMA CheckDistributionStep ==
  ASSUME IInv, TypeOK', NEW b \in Blocks, CheckDistribution(b)
  PROVE  IInv'
<1> USE BlocksFinite
<1>1. TypeOK /\ at[b][0] = "check" /\ place[b] \in Xcds
  BY DEF IInv, TypeOK, CheckDistribution
<1>2. /\ at'[b][0] = "claimed"
      /\ \A c \in Blocks, v \in Waves : c # b \/ v # 0 => at'[c][v] = at[c][v]
  BY <1>1, MoveSteady DEF CheckDistribution
<1>3. UNCHANGED <<place, xcd_arrivals, grid_arrivals, slot, entered>>
  BY DEF CheckDistribution, counters
<1>4. abort' = "none" => abort = "none" /\ ~WrongHere(b)
  BY DEF CheckDistribution, RaiseAbort, Aborted
<1>5. abort' = "distribution" => abort = "distribution" \/ (abort = "none" /\ WrongHere(b))
  <2>1. CASE WrongHere(b)
    BY <2>1 DEF CheckDistribution, RaiseAbort, Aborted
  <2>2. CASE ~WrongHere(b)
    BY <2>2 DEF CheckDistribution
  <2> QED
    BY <2>1, <2>2
<1>6. abort = "none" => AllIn
  BY <1>1 DEF IInv, Checked
<1>7. \A c \in Blocks : /\ at'[c][0] = "ticket" <=> at[c][0] = "ticket"
                        /\ at'[c][0] = "arrive" <=> at[c][0] = "arrive"
                        /\ c # b => (Past(c)' <=> Past(c))
  BY <1>1, <1>2 DEF Past
<1>8. AllIn' <=> AllIn
  BY <1>7 DEF AllIn
<1>9. Counted'
  <2>1. Arrived' = Arrived /\ \A x \in Xcds : Ticketed(x)' = Ticketed(x)
    BY <1>3, <1>7 DEF Arrived, Ticketed
  <2> QED
    BY <1>3, <2>1 DEF IInv, Counted
<1>10. Tickets'
  BY <1>3, <1>7 DEF IInv, Tickets, Here
<1>11. Checked'
  <2>1. \A c \in Blocks : Here(c)' = Here(c)
    BY <1>3 DEF Here
  <2>2. abort' = "none" => \A c \in Blocks : Past(c)' => Here(c)' = BlocksPerXcd
    BY <1>4, <1>7, <2>1 DEF IInv, Checked, WrongHere
  <2>3. \A c \in Blocks, w \in Waves : at'[c][w] = "entry" => Past(c)'
    BY <1>1, <1>2, <1>7 DEF IInv, Checked, Past
  <2> QED
    BY <1>3, <1>4, <1>6, <1>8, <2>1, <2>2, <2>3 DEF IInv, Checked
<1>12. NoSpuriousAbort'
  <2>1. CASE abort = "none" /\ WrongHere(b)
    <3>1. xcd_arrivals[place[b]] = Cardinality({ c \in Blocks : place[c] = place[b] })
      BY <1>1, <1>6, <2>1, AllTicketed DEF IInv
    <3>2. ~RightPlacement
      BY <1>1, <2>1, <3>1 DEF RightPlacement, WrongHere, Here
    <3> QED
      BY <1>3, <3>2 DEF NoSpuriousAbort, RightPlacement
  <2>2. CASE ~(abort = "none" /\ WrongHere(b))
    BY <1>3, <1>5, <2>2 DEF IInv, NoSpuriousAbort, RightPlacement
  <2> QED
    BY <2>1, <2>2
<1> QED
  BY <1>9, <1>10, <1>11, <1>12 DEF IInv

LEMMA NextInvariant == IInv /\ [Next]_vars => IInv'
<1> SUFFICES ASSUME IInv, [Next]_vars PROVE IInv'
  OBVIOUS
<1> USE BlocksFinite
<1>1. TypeOK /\ TypeOK'
  BY NextType DEF IInv
<1>2. ASSUME NEW b \in Blocks, Block(b) PROVE IInv'
  <2>1. CASE TakeTicket(b)
    BY <1>1, <2>1, TakeTicketStep
  <2>2. CASE Arrive(b)
    BY <1>1, <2>2, ArriveStep
  <2>3. CASE Join(b)
    <3>1. Steady
      BY <1>1, <2>3, SyncSteady DEF Join, Steady, AllIn, First, Past
    <3> QED
      BY <1>1, <3>1, SteadyStep
  <2>4. CASE PassBarrier(b)
    BY <1>1, <2>4, PassBarrierStep
  <2>5. CASE CheckDistribution(b)
    BY <1>1, <2>5, CheckDistributionStep
  <2>6. CASE Claimed(b)
    <3>1. Steady
      BY <1>1, <2>6, SyncSteady DEF Claimed, Steady, AllIn, All, Past
    <3> QED
      BY <1>1, <3>1, SteadyStep
  <2>7. CASE InitStop(b)
    <3>1. Steady
      BY <1>1, <2>7, MoveSteady DEF InitStop, Steady, AllIn, Past
    <3> QED
      BY <1>1, <3>1, SteadyStep
  <2>8. CASE Begin(b)
    <3>1. Steady
      BY <1>1, <2>8, SyncSteady DEF Begin, Steady, AllIn, All, Past
    <3> QED
      BY <1>1, <3>1, SteadyStep
  <2>9. CASE EndPass(b)
    <3>1. Steady
      BY <1>1, <2>9, MoveSteady DEF EndPass, Steady, AllIn, Past
    <3> QED
      BY <1>1, <3>1, SteadyStep
  <2>10. CASE NextPass(b)
    <3>1. Steady
      BY <1>1, <2>10, SyncSteady DEF NextPass, Steady, AllIn, All, Past
    <3> QED
      BY <1>1, <3>1, SteadyStep
  <2>11. CASE EndWait(b)
    <3>1. Steady
      BY <1>1, <2>11, MoveSteady DEF EndWait, Steady, AllIn, RaiseAbort, Aborted, Past
    <3> QED
      BY <1>1, <3>1, SteadyStep
  <2>12. CASE Released(b)
    <3>1. PICK v \in {0, 1} : Sync(b, "waited", All(IF v = 1 THEN "body" ELSE "left"))
      BY <2>12 DEF Released
    <3>2. Steady
      BY <1>1, <2>12, <3>1, SyncSteady DEF Released, Steady, AllIn, All, Past
    <3> QED
      BY <1>1, <3>2, SteadyStep
  <2>13. CASE Signal(b)
    <3>1. Steady
      BY <1>1, <2>13, SyncSteady DEF Signal, Steady, AllIn, All, Past
    <3> QED
      BY <1>1, <3>1, SteadyStep
  <2> QED
    BY <1>2, <2>1, <2>2, <2>3, <2>4, <2>5, <2>6, <2>7, <2>8, <2>9, <2>10, <2>11, <2>12, <2>13
       DEF Block
<1>3. ASSUME NEW b \in Blocks, NEW w \in Waves, Enter(b, w) PROVE IInv'
  <2>1. at[b][w] = "entry" /\ Past(b)
    BY <1>3 DEF IInv, Checked, Enter
  <2>2. PICK to \in {"left", "init", "ready", "wait", "waited"} : Move(b, w, to)
    BY <1>3 DEF Enter, First
  <2>3. \A c \in Blocks : entered'[c] # {} =>
          entered[c] # {} \/ (AllIn /\ Here(c) = BlocksPerXcd)
    <3>1. CASE Aborted
      BY <1>3, <3>1 DEF Enter, AllIn
    <3>2. CASE ~Aborted
      BY <1>1, <1>3, <2>1, <3>2 DEF IInv, Checked, Enter, Aborted, TypeOK, AllIn
    <3> QED
      BY <3>1, <3>2
  <2>4. UNCHANGED <<place, counters, slot, abort>>
    BY <1>3 DEF Enter
  <2>5. Steady
    BY <1>1, <2>1, <2>2, <2>3, <2>4, MoveSteady DEF Steady, AllIn, Past
  <2> QED
    BY <1>1, <2>5, SteadyStep
<1>4. ASSUME NEW b \in Blocks, NEW w \in Waves, TestStop(b, w) PROVE IInv'
  <2>1. at[b][w] = "top" /\ UNCHANGED <<place, counters, abort, slot, entered>>
    BY <1>4 DEF TestStop
  <2>2. PICK to \in {"left", "pass", "passed"} : Move(b, w, to)
    BY <1>4 DEF TestStop, First
  <2>3. Steady
    BY <1>1, <2>1, <2>2, MoveSteady DEF Steady, AllIn, Past
  <2> QED
    BY <1>1, <2>3, SteadyStep
<1>5. CASE Returned \/ UNCHANGED vars
  <2>1. Steady
    BY <1>5 DEF Returned, vars, Steady, AllIn, counters
  <2> QED
    BY <1>1, <2>1, SteadyStep
<1> QED
  BY <1>2, <1>3, <1>4, <1>5 DEF Next, Wave

-----------------------------------------------------------------------------
LEMMA InvariantHolds == Spec => []IInv
  BY InitInvariant, NextInvariant, PTL DEF Spec

\* Types (claim_role, run_scheduler, fleet_decode_step).
THEOREM RoleTypes == Spec => []TypeOK
<1>1. IInv => TypeOK
  BY DEF IInv
<1> QED
  BY <1>1, InvariantHolds, PTL

\* Whoever acts in a role has one of its own: a ticket below kBlocksPerXCD
\* that nobody else on its chiplet holds, beside a scheduler (claim_role).
THEOREM RolesHandedOutAreReal == Spec => []RolesAreReal
<1>1. IInv => RolesAreReal
  <2> SUFFICES ASSUME IInv, NEW b \in Blocks, entered[b] # {}
               PROVE  /\ slot[b] < BlocksPerXcd
                      /\ \A c \in Blocks \ {b} :
                           entered[c] # {} /\ place[c] = place[b] => slot[c] # slot[b]
                      /\ \E c \in Blocks : place[c] = place[b] /\ IsScheduler(c) /\ at[c][0] # "ticket"
    BY DEF RolesAreReal
  <2>1. AllIn /\ Here(b) = BlocksPerXcd /\ place[b] \in Xcds
    BY DEF IInv, Checked, TypeOK
  <2>2. \A c \in Blocks : at[c][0] # "ticket"
    BY <2>1 DEF AllIn
  <2>3. xcd_arrivals[place[b]] # 0
    BY <2>1, RoleAssumption DEF Here
  <2>4. \E c \in Blocks : place[c] = place[b] /\ at[c][0] # "ticket" /\ slot[c] = 0
    BY <2>1, <2>3 DEF IInv, Tickets
  <2> QED
    BY <2>1, <2>2, <2>4 DEF IInv, Tickets, IsScheduler
<1> QED
  BY <1>1, InvariantHolds, PTL

\* However late a workgroup reads its chiplet's counter, a launch placed as
\* assumed is not refused for its placement (claim_role's distribution check).
THEOREM RightPlacementsPass == Spec => []NoSpuriousAbort
<1>1. IInv => NoSpuriousAbort
  BY DEF IInv
<1> QED
  BY <1>1, InvariantHolds, PTL

=============================================================================
