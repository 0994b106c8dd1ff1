---------------------------- MODULE MCVisibility ----------------------------
(***************************************************************************)
(* Visibility on the graphs MCFleetRuntime builds, which comes first for   *)
(* the same reason as in the other modules that extend it.                 *)
(***************************************************************************)
EXTENDS MCFleetRuntime, Visibility, ConflictOrder

=============================================================================
