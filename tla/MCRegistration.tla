--------------------------- MODULE MCRegistration ---------------------------
(***************************************************************************)
(* Registration on small tables.                                           *)
(***************************************************************************)
EXTENDS Registration, TLC

\* Request slots, keys, users and intents are interchangeable: no definition
\* of Registration orders them.
Symmetry == Permutations(Request) \cup Permutations(RegId)
                \cup Permutations(User) \cup Permutations(Intent)

=============================================================================
