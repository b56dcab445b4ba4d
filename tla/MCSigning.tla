------------------------------ MODULE MCSigning ------------------------------
(***************************************************************************)
(* Two worker threads, two clients, two nonces and two messages: enough    *)
(* for two completions to race for one commitment, for one client to name  *)
(* the other's commitment, and for a session to be replaced between the    *)
(* two rounds.                                                             *)
(***************************************************************************)
EXTENDS SignerProperties, TLC

MCMemberSets == {{1, 2}}
Symmetry == Permutations(Client) \cup Permutations(Handler) \cup Permutations(Hash) \cup Permutations(Nonce)
=============================================================================
