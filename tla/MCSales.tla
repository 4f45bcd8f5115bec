------------------------------- MODULE MCSales -------------------------------
(* Instances of Sales for TLC. *)
EXTENDS Sales

CONSTANTS p1, c1, b1, b2

OneTenant == [x \in Product \cup Customer |-> b1]

HalfCents == {1, 2, 3}      \* half a cent, one cent, one and a half
SomeTotals == {-1, 0, 1, 2} \* what pricing may arrive at; promotions may pass zero
=============================================================================
