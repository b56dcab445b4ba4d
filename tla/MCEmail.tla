------------------------------- MODULE MCEmail -------------------------------
(***************************************************************************)
(* Access by email: two worker threads that keep apart (ApartSpec), or     *)
(* that do not, and the cleanup task beside them.                          *)
(***************************************************************************)
EXTENDS SignerProperties, TLC

Symmetry ==
  Permutations(Client) \cup Permutations(Email) \cup Permutations(Otp)
    \cup Permutations(Handler) \cup Permutations(Password)
=============================================================================
