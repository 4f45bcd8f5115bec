------------------------------ MODULE Inventory ------------------------------
(***************************************************************************)
(* Stock of the products and its history, the table movimientos_inventario *)
(* (src/inventory/inventory.service.ts).  Every operation below is one     *)
(* database transaction that starts by locking the product row, so it is   *)
(* one step here; SalesTx.tla opens the transactions that are longer.      *)
(***************************************************************************)
EXTENDS Integers, Sequences

CONSTANTS Product,       \* products of every business
          MaxUnits,      \* largest quantity of one request
          StockLimit,    \* what the column stock_actual INT UNSIGNED holds
          MaxMovements   \* bound: rows of history kept for one product

ASSUME InventoryAssumption ==
  /\ MaxUnits \in Nat \ {0}
  /\ StockLimit \in Nat
  /\ MaxMovements \in Nat

VARIABLES stock,      \* stockActual of each product
          movements   \* the movements of each product, oldest first

inventoryVars == <<stock, movements>>

MovementType ==
  {"ENTRADA", "VENTA", "AJUSTE_POSITIVO", "AJUSTE_NEGATIVO", "CANCELACION_VENTA"}

\* referencia_id is the number of a sale, or 0 where the row has none.
InventoryMovement ==
  [tipo : MovementType, cantidad : Int, stockAnterior : 0..StockLimit,
   stockNuevo : 0..StockLimit, referencia : Nat]

InventoryInit ==
  /\ stock = [p \in Product |-> 0]
  /\ movements = [p \in Product |-> <<>>]

-----------------------------------------------------------------------------
(***************************************************************************)
(* change() locks the row, refuses a negative result and saves the product *)
(* and one movement.  A sale calls it once per line in one transaction, so *)
(* delta maps the products a transaction changes to their differences.     *)
(***************************************************************************)
Quantity == 1..MaxUnits

Shifted(delta) ==
  [p \in Product |-> IF p \in DOMAIN delta THEN stock[p] + delta[p] ELSE stock[p]]

\* Mutant: the row keeps the size of the change without its sign.
RecordedUnsigned(delta, tipo, referencia) ==
  [p \in Product |->
     IF p \in DOMAIN delta
     THEN Append(movements[p],
                 [tipo |-> tipo, cantidad |-> IF delta[p] < 0 THEN -delta[p] ELSE delta[p],
                  stockAnterior |-> stock[p], stockNuevo |-> stock[p] + delta[p],
                  referencia |-> referencia])
     ELSE movements[p]]

Recorded(delta, tipo, referencia) ==
  [p \in Product |->
     IF p \in DOMAIN delta
     THEN Append(movements[p],
                 [tipo |-> tipo, cantidad |-> delta[p], stockAnterior |-> stock[p],
                  stockNuevo |-> stock[p] + delta[p], referencia |-> referencia])
     ELSE movements[p]]

\* Mutant: nothing is checked of the result.
CanChangeUnchecked(delta) == \A p \in DOMAIN delta : Len(movements[p]) < MaxMovements

\* The result is neither negative (INSUFFICIENT_STOCK) nor out of the column's range.
CanChange(delta) ==
  \A p \in DOMAIN delta :
     /\ stock[p] + delta[p] \in 0..StockLimit
     /\ Len(movements[p]) < MaxMovements

Change(delta, tipo, referencia) ==
  /\ CanChange(delta)
  /\ stock' = Shifted(delta)
  /\ movements' = Recorded(delta, tipo, referencia)

Entry(p) ==
  \E cantidad \in Quantity : Change([x \in {p} |-> cantidad], "ENTRADA", 0)

\* Mutant: the test is on the other word.
AdjustmentDeltaByNegative(tipo, cantidad) == IF tipo = "NEGATIVO" THEN -cantidad ELSE cantidad

\* Any tipo that is not "POSITIVO" is a negative adjustment: the request only
\* asks for a string.  A quantity of zero is accepted.
AdjustmentDelta(tipo, cantidad) == IF tipo = "POSITIVO" THEN cantidad ELSE -cantidad

Adjustment(p) ==
  \E tipo \in {"POSITIVO", "NEGATIVO", "otro"}, cantidad \in Quantity \cup {0} :
     Change([x \in {p} |-> AdjustmentDelta(tipo, cantidad)],
            IF tipo = "POSITIVO" THEN "AJUSTE_POSITIVO" ELSE "AJUSTE_NEGATIVO", 0)

-----------------------------------------------------------------------------
InventoryTypeOK ==
  /\ stock \in [Product -> 0..StockLimit]
  /\ movements \in [Product -> Seq(InventoryMovement)]

\* The stock before the i-th movement of p: none, or what the row before left.
StockBefore(p, i) == IF i = 1 THEN 0 ELSE movements[p][i-1].stockNuevo

\* The history of a product explains its stock: the rows chain from zero, each
\* adds its quantity, and the last one leaves the stock the product has.  It is
\* about change() being the only writer of stockActual and movements.
StockFollowsMovements ==
  \A p \in Product :
     /\ \A i \in 1..Len(movements[p]) :
           /\ movements[p][i].stockAnterior = StockBefore(p, i)
           /\ movements[p][i].stockNuevo =
                movements[p][i].stockAnterior + movements[p][i].cantidad
     /\ stock[p] = StockBefore(p, Len(movements[p]) + 1)

\* The direction in which each kind of movement moves the stock.
Directed(tipo, cantidad) ==
  CASE tipo \in {"ENTRADA", "CANCELACION_VENTA"} -> cantidad > 0
    [] tipo = "VENTA"                            -> cantidad < 0
    [] tipo = "AJUSTE_POSITIVO"                  -> cantidad >= 0
    [] tipo = "AJUSTE_NEGATIVO"                  -> cantidad <= 0

\* The kind of a movement fixes the direction in which it moves the stock,
\* whichever caller of change() wrote it.
MovementDirection ==
  \A p \in Product : \A i \in 1..Len(movements[p]) :
     Directed(movements[p][i].tipo, movements[p][i].cantidad)
=============================================================================
