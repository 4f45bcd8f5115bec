---------------------------- MODULE MCPromotions ----------------------------
(* Instances of Promotions for TLC: a 5-cent product, on which 10% is half a  *)
(* cent, and a 2-cent one, of different categories.                           *)
EXTENDS Promotions, TLC

CONSTANTS p1, p2, k1, k2, unknown

TwoCategories == p1 :> k1 @@ p2 :> k2
TwoPrices == p1 :> 5 @@ p2 :> 2

Promo(tipo, n, m, porcentaje, monto, cliente) ==
  [tipo |-> tipo, objetivo |-> n, beneficio |-> m, porcentaje |-> porcentaje,
   monto |-> monto, requiereCliente |-> cliente, activo |-> TRUE]

TwoPlusOne == Promo("COMPRA_N_LLEVA_M", 2, 1, 0, 0, FALSE)
TenPerCent == Promo("DESCUENTO_PORCENTAJE", 1, 0, 10, 0, FALSE)
ThreeCents == Promo("DESCUENTO_MONTO", 1, 0, 0, 3, TRUE)
Loyalty    == Promo("LEALTAD", 2, 0, 0, 0, TRUE)
Definitions == {TwoPlusOne, TenPerCent, ThreeCents, Loyalty}
SixtyPerCent == Promo("DESCUENTO_PORCENTAJE", 1, 0, 60, 0, FALSE)
TwoDiscounts == {SixtyPerCent, ThreeCents}

\* A sale changes nothing a later step reads: none is explored after one.
BeforeSale == sales = <<>>

SomeLists == {{}, {p2, k1}, {p1, unknown}}
OneLine == {{p1}}
TwoOrThree == {2, 3}
One == {1}
=============================================================================
