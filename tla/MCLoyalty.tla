------------------------------ MODULE MCLoyalty ------------------------------
(* Instances of Loyalty for TLC. *)
EXTENDS Loyalty, TLC

CONSTANTS c1, c2, pr1, pr2, t1, t2

TwoUnits == [p \in Promotion |-> 2]
AnyTxOrCustomer == Permutations(Tx) \cup Permutations(Customer)
=============================================================================
