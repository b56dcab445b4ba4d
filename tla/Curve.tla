-------------------------------- MODULE Curve --------------------------------
(***************************************************************************)
(* The scalars and points frost-taproot computes with (ecc/).              *)
(*                                                                         *)
(* The scalars are those of a group of prime order Q in place of the order *)
(* of secp256k1, and a point is named by its discrete logarithm, which no  *)
(* definition below the header of this module looks at: it stands for the  *)
(* point.  So every equation between scalars or points that holds in the   *)
(* code for all values holds here, and a small Q only adds coincidences.   *)
(* Which of a point and its negative has the even Y coordinate is a        *)
(* constant, since no property may depend on it.                           *)
(*                                                                         *)
(* A function that returns Err is an operator of its value, and its        *)
(* callers' guards say when it returns Ok.  Encodings are left out, with   *)
(* two exceptions: the 32-byte form of a point loses its sign, and the     *)
(* identity has no 33-byte form (serialize_point panics).                  *)
(***************************************************************************)
EXTENDS Integers, FiniteSets, SequencesExt

CONSTANTS
  Q,        \* the order of the group
  EvenY     \* the points, by discrete logarithm, whose Y coordinate is even

ASSUME OrderAssumption ==
  /\ Q \in Nat /\ Q > 2
  /\ \A a \in 1..(Q - 1) : \E b \in 1..(Q - 1) : (a * b) % Q = 1
ASSUME ParityAssumption ==
  \A k \in 1..(Q - 1) : (k \in EvenY) # (Q - k \in EvenY)
ASSUME IdentityAssumption == EvenY \subseteq 1..(Q - 1)

-----------------------------------------------------------------------------
(* Scalars: reduced numbers.  Sums and products of them are reduced by     *)
(* mod_n where a result is formed.                                         *)

Scalar == 0..(Q - 1)

mod_n(k) == k % Q
scalar_neg(a) == (Q - a) % Q
scalar_invert(a) == CHOOSE b \in Scalar : mod_n(a * b) = 1
pow_n(base, exp) ==
  LET power[e \in Nat] == IF e = 0 THEN 1 ELSE mod_n(power[e - 1] * base) IN power[exp]

-----------------------------------------------------------------------------
(* Points.                                                                 *)

Point == [dlog : Scalar]

identity == [dlog |-> 0]
scalar_base_multi(k) == [dlog |-> k]
scalar_multi(a, k) == [dlog |-> mod_n(a.dlog * k)]
element_add(a, b) == [dlog |-> mod_n(a.dlog + b.dlog)]
element_add_many(elems) == FoldLeft(element_add, identity, elems)
negate_point(a) == [dlog |-> scalar_neg(a.dlog)]
has_even_y(a) == a.dlog \in EvenY

(* serialize_point has room for a 33-byte encoding only.                   *)
Serializable(a) == a # identity

(* The x-coordinate, and lift_x of its 32 bytes; lift_x of 33 bytes is the *)
(* point itself.                                                           *)
XOnly(a) == {a, negate_point(a)}
lift_x(x) == CHOOSE a \in x : has_even_y(a)

-----------------------------------------------------------------------------
(* A key under BIP340 tweaks: before each tweak is added the point is made *)
(* even, and state and tweak record what that does to the secret key.      *)

Parity(a) == IF has_even_y(a) THEN 1 ELSE scalar_neg(1)

(* Mutant: the point keeps its sign when a tweak is added.                 *)
TweakStepSigned(acc, t) ==
  LET parity == Parity(acc.point)
  IN  [point |-> element_add(acc.point, scalar_base_multi(t)),
       state |-> mod_n(acc.state * parity),
       tweak |-> mod_n(t + parity * acc.tweak)]

TweakStep(acc, t) ==
  LET parity == Parity(acc.point)
  IN  [point |-> element_add(scalar_multi(acc.point, parity), scalar_base_multi(t)),
       state |-> mod_n(acc.state * parity),
       tweak |-> mod_n(t + parity * acc.tweak)]

get_point_state(element, tweaks) ==
  FoldLeft(TweakStep, [point |-> element, state |-> 1, tweak |-> 0], tweaks)
=============================================================================
