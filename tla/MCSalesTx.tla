------------------------------ MODULE MCSalesTx ------------------------------
(* Instances of SalesTx for TLC. *)
EXTENDS SalesTx, TLC

CONSTANTS p1, p2, p3, c1, b1, b2, t1, t2

\* The third product belongs to the second business.
TwoTenants == [x \in Product \cup Customer |-> IF x = p3 THEN b2 ELSE b1]
OneTenant == [x \in Product \cup Customer |-> b1]

\* The connections are alike; sound for the safety runs only.
AnyConnection == Permutations(Tx)
=============================================================================
