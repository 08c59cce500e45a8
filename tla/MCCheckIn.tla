----------------------------- MODULE MCCheckIn -----------------------------
(***************************************************************************)
(* CheckIn on small tables.                                                *)
(***************************************************************************)
EXTENDS CheckIn, TLC

\* No definition of CheckIn orders slots or keys.
Symmetry == Permutations(Scanner) \cup Permutations(RegId)
                \cup Permutations(CheckInId)

=============================================================================
