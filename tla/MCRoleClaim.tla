---------------------------- MODULE MCRoleClaim ----------------------------
(***************************************************************************)
(* RoleClaim with workgroups placed in order: workgroup numbers stand for  *)
(* nothing, so only how many each chiplet gets matters.                    *)
(***************************************************************************)
EXTENDS RoleClaim

CONSTANT Lopsided   \* TRUE: only placements that leave one chiplet right and others wrong

\* How many workgroups each chiplet gets.
MCDistributions == IF Lopsided THEN { <<2, 0, 1>> } ELSE { <<2, 2>>, <<3, 1>> }

MCXcds == IF Lopsided THEN 1 .. 3 ELSE 1 .. 2

Upto(d, x) == (IF x = 3 THEN d[3] ELSE 0) + (IF x >= 2 THEN d[2] ELSE 0) + d[1]

MCPlacements ==
  { [b \in Blocks |-> CHOOSE x \in MCXcds :
        /\ b <= Upto(d, x)
        /\ \A y \in MCXcds : b <= Upto(d, y) => x <= y] : d \in MCDistributions }

=============================================================================
