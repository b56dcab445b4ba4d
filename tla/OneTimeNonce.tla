----------------------------- MODULE OneTimeNonce -----------------------------
(***************************************************************************)
(* What the two-round protocol asks of a signer about its nonces: a nonce  *)
(* is drawn once, is open until it either signs or is lost, signs at most  *)
(* once, and once spent or lost stays so.                                  *)
(***************************************************************************)
CONSTANTS Nonce, Message

VARIABLES
  state,     \* where each nonce is in its life
  released   \* the messages each nonce has signed

vars == <<state, released>>

Init ==
  /\ state = [n \in Nonce |-> "fresh"]
  /\ released = [n \in Nonce |-> {}]

Draw(n) ==
  /\ state[n] = "fresh"
  /\ state' = [state EXCEPT ![n] = "open"]
  /\ UNCHANGED released

Sign(n, m) ==
  /\ state[n] = "open"
  /\ state' = [state EXCEPT ![n] = "spent"]
  /\ released' = [released EXCEPT ![n] = {m}]

(* Any number of open nonces at once: the signer may restart.              *)
Lose(lost) ==
  /\ \A n \in lost : state[n] = "open"
  /\ state' = [n \in Nonce |-> IF n \in lost THEN "lost" ELSE state[n]]
  /\ UNCHANGED released

Next ==
  \/ \E n \in Nonce : Draw(n)
  \/ \E n \in Nonce, m \in Message : Sign(n, m)
  \/ \E lost \in SUBSET Nonce : Lose(lost)

Spec == Init /\ [][Next]_vars
=============================================================================
