-------------------------------- MODULE Sales --------------------------------
(***************************************************************************)
(* The sale, composed with the stock it takes and the debt it creates      *)
(* (src/sales/sales.service.ts over the inventory and accounts services).  *)
(* Each operation is one database transaction and one step here: this is   *)
(* what the system promises.  SalesTx.tla has the same state with the      *)
(* transactions taken apart into their reads, locks and writes.            *)
(***************************************************************************)
EXTENDS Inventory, Accounts, FiniteSets, Functions

CONSTANTS Business,     \* the tenants
          BusinessOf,   \* the tenant each product and each customer belongs to
          NoCustomer,   \* a walk-in sale's customer
          Totals,       \* totals pricing may arrive at, in cents
          MaxSales      \* bound: sales ever made

ASSUME SalesAssumption ==
  /\ BusinessOf \in [Product \cup Customer -> Business]
  /\ NoCustomer \notin Customer
  /\ Totals \subseteq Int
  /\ MaxSales \in Nat

VARIABLES productActive,  \* activo of each product
          sales           \* every sale, in the order their ids were given

salesVars == <<productActive, sales>>
vars == <<inventoryVars, accountsVars, salesVars>>

PaymentType == {"CONTADO", "CREDITO", "MIXTO"}

\* The quantities a sale can be about: repeated lines of a product are merged
\* into one before anything is read.
Quantities == UNION {[S -> Quantity] : S \in (SUBSET Product) \ {{}}}

Sale ==
  [business : Business, folio : Nat, customer : Customer \cup {NoCustomer},
   details : Quantities, total : Nat, pagoInicial : Nat, saldoPendiente : Nat,
   estatus : {"COMPLETADA", "CANCELADA"}]

Init ==
  /\ InventoryInit
  /\ AccountsInit
  /\ productActive = [p \in Product |-> TRUE]
  /\ sales = <<>>

-----------------------------------------------------------------------------
SalesOf(b) == {s \in DOMAIN sales : sales[s].business = b}

\* nextFolio() counts the sales of the business; the year it prints is left out.
NextFolio(b) == Cardinality(SalesOf(b)) + 1

Initial(tipoPago, total, pagoInicial) ==
  CASE tipoPago = "MIXTO"   -> pagoInicial
    [] tipoPago = "CONTADO" -> total
    [] tipoPago = "CREDITO" -> 0

\* A sale on credit needs a customer and the first payment must fit the total.
ValidPayment(c, tipoPago, total, inicial) ==
  /\ tipoPago # "CONTADO" => c # NoCustomer
  /\ inicial \in 0..total
  /\ tipoPago = "MIXTO" => inicial # 0

CustomerFound(b, c) ==
  c # NoCustomer => BusinessOf[c] = b /\ customers[c] = "activo"

\* Mutant: the products are found whoever they belong to.
ProductsFoundAnywhere(b, quantities) ==
  \A p \in DOMAIN quantities : productActive[p] /\ quantities[p] <= stock[p]

ProductsFound(b, quantities) ==
  \A p \in DOMAIN quantities :
     BusinessOf[p] = b /\ productActive[p] /\ quantities[p] <= stock[p]

NewSale(b, c, quantities, total, inicial, folio) ==
  [business |-> b, folio |-> folio, customer |-> c, details |-> quantities,
   total |-> total, pagoInicial |-> inicial, saldoPendiente |-> total - inicial,
   estatus |-> "COMPLETADA"]

Taken(quantities) == [p \in DOMAIN quantities |-> -quantities[p]]

\* What is not paid at once is charged to the customer's account.
ChargePending(c, pendiente, id) ==
  IF pendiente # 0
  THEN AddMovement(c, "VENTA_CREDITO", pendiente, 0, id) /\ UNCHANGED <<customers, payments>>
  ELSE UNCHANGED accountsVars

\* create(): business b sells the quantities to c; the total is what pricing
\* and the promotions arrive at, a negative one included.
Create(b, c, quantities) ==
  \E total \in Totals, tipoPago \in PaymentType, pagoInicial \in Totals :
     LET inicial == Initial(tipoPago, total, pagoInicial)
         id == Len(sales) + 1
     IN /\ Len(sales) < MaxSales
        /\ tipoPago # "MIXTO" => pagoInicial = total   \* not read otherwise
        /\ CustomerFound(b, c)
        /\ ProductsFound(b, quantities)
        /\ ValidPayment(c, tipoPago, total, inicial)
        /\ sales' = Append(sales, NewSale(b, c, quantities, total, inicial, NextFolio(b)))
        /\ Change(Taken(quantities), "VENTA", id)
        /\ ChargePending(c, total - inicial, id)
        /\ UNCHANGED productActive

\* Mutant: no more than what is still owed is taken back.
CreditPendingOwed(s) ==
  LET c == sales[s].customer IN
  IF sales[s].saldoPendiente > 0
  THEN /\ AddMovement(c, "CANCELACION_VENTA", 0,
              IF balance[c] < sales[s].saldoPendiente THEN balance[c]
              ELSE sales[s].saldoPendiente, s)
       /\ UNCHANGED <<customers, payments>>
  ELSE UNCHANGED accountsVars

\* What was charged comes off the account; the customer must still be active
\* and still owe it.
CreditPending(s) ==
  IF sales[s].saldoPendiente > 0
  THEN /\ AddMovement(sales[s].customer, "CANCELACION_VENTA", 0, sales[s].saldoPendiente, s)
       /\ UNCHANGED <<customers, payments>>
  ELSE UNCHANGED accountsVars

\* Mutant: a sale may be cancelled again.
CancelAgain(s) ==
  /\ CreditPending(s)
  /\ sales' = [sales EXCEPT ![s].estatus = "CANCELADA"]
  /\ Change(sales[s].details, "CANCELACION_VENTA", s)
  /\ UNCHANGED productActive

\* cancel(): the sale's units go back whether or not the products are active.
Cancel(s) ==
  /\ sales[s].estatus # "CANCELADA"
  /\ CreditPending(s)
  /\ sales' = [sales EXCEPT ![s].estatus = "CANCELADA"]
  /\ Change(sales[s].details, "CANCELACION_VENTA", s)
  /\ UNCHANGED productActive

\* updateProduct() and statusProduct(), as far as the sale can tell.
StatusProduct(p) ==
  /\ productActive' = [productActive EXCEPT ![p] = ~ @]
  /\ UNCHANGED <<inventoryVars, accountsVars, sales>>

InventoryStep(p) == (Entry(p) \/ Adjustment(p)) /\ UNCHANGED <<accountsVars, salesVars>>

CustomerStep(c) ==
  /\ \/ CreatePayment(c)
     \/ \E activo \in BOOLEAN : UpdateCustomer(c, activo)
     \/ DeleteCustomer(c)
  /\ UNCHANGED <<inventoryVars, salesVars>>

PaymentStep(i) == CancelPayment(i) /\ UNCHANGED <<inventoryVars, salesVars>>

Next ==
  \/ \E b \in Business, c \in Customer \cup {NoCustomer}, quantities \in Quantities :
        Create(b, c, quantities)
  \/ \E s \in DOMAIN sales : Cancel(s)
  \/ \E p \in Product : StatusProduct(p) \/ InventoryStep(p)
  \/ \E c \in Customer : CustomerStep(c)
  \/ \E i \in DOMAIN payments : PaymentStep(i)

Spec == Init /\ [][Next]_vars

-----------------------------------------------------------------------------
SalesTypeOK ==
  /\ productActive \in [Product -> BOOLEAN]
  /\ sales \in Seq(Sale)

TypeOK == InventoryTypeOK /\ AccountsTypeOK /\ SalesTypeOK

MovementsOf(p, tipo, s) ==
  {i \in 1..Len(movements[p]) :
     movements[p][i].tipo = tipo /\ movements[p][i].referencia = s}

\* Sale s and the stock history of p tell the same story: one VENTA row with the
\* quantity sold, if s sold any of p, and one CANCELACION_VENTA row with the same
\* quantity if it is cancelled; nothing else.
SaleTold(p, s) ==
  LET sold == s <= Len(sales) /\ p \in DOMAIN sales[s].details
      returned == sold /\ sales[s].estatus = "CANCELADA"
      Once(tipo, cantidad) ==
        \E k \in MovementsOf(p, tipo, s) :
           /\ MovementsOf(p, tipo, s) = {k}
           /\ movements[p][k].cantidad = cantidad
  IN /\ IF sold THEN Once("VENTA", -sales[s].details[p])
                ELSE MovementsOf(p, "VENTA", s) = {}
     /\ IF returned THEN Once("CANCELACION_VENTA", sales[s].details[p])
                    ELSE MovementsOf(p, "CANCELACION_VENTA", s) = {}

\* Every sale is in the stock history once, and out of it once exactly when it is
\* cancelled; no row names a sale that does not exist or a product it did not sell.
SaleInMovements == \A p \in Product, s \in 1..(Len(sales) + 1) : SaleTold(p, s)

\* Sale s and the account of c tell the same story: what it left unpaid is charged
\* once, and taken back once if it is cancelled.
SaleCharged(c, s) ==
  LET owed == s <= Len(sales) /\ sales[s].customer = c /\ sales[s].saldoPendiente > 0
      returned == owed /\ sales[s].estatus = "CANCELADA"
  IN /\ IF owed
        THEN \E k \in Rows(c, "VENTA_CREDITO", s) :
                /\ Rows(c, "VENTA_CREDITO", s) = {k}
                /\ account[c][k].cargo = sales[s].saldoPendiente
        ELSE Rows(c, "VENTA_CREDITO", s) = {}
     /\ IF returned
        THEN \E k \in Rows(c, "CANCELACION_VENTA", s) :
                /\ Rows(c, "CANCELACION_VENTA", s) = {k}
                /\ account[c][k].abono = sales[s].saldoPendiente
        ELSE Rows(c, "CANCELACION_VENTA", s) = {}

\* Every debt of a sale is in its customer's account once and in no other, and its
\* return exactly when the sale is cancelled.
SaleInAccount == \A c \in Customer, s \in 1..(Len(sales) + 1) : SaleCharged(c, s)

\* What the sales in force left c to pay, the payments in force of c, and the
\* cents that rounding payments has cost or saved.
Charged(c) ==
  [s \in {s \in DOMAIN sales : sales[s].customer = c /\ sales[s].estatus = "COMPLETADA"}
     |-> sales[s].saldoPendiente]
Paid(c) ==
  [i \in {i \in DOMAIN payments : payments[i].customer = c /\ ~ payments[i].cancelado}
     |-> payments[i].monto]
Drift(c) == [k \in DOMAIN account[c] |-> RowDrift(account[c][k])]

\* What a customer owes is what the sales in force left unpaid, less the
\* payments in force, up to the cents that rounding payments has cost or saved.
\* Nothing in the code computes this sum: it is what the three tables mean.
DebtExplained ==
  \A c \in Customer :
     balance[c] = SumFunction(Charged(c)) - SumFunction(Paid(c)) + SumFunction(Drift(c))

\* The folios of each business are 1, 2, 3, ... in the order of its sales.
FoliosGapless ==
  \A s \in DOMAIN sales :
     sales[s].folio = Cardinality({r \in SalesOf(sales[s].business) : r <= s})

\* A sale never reaches outside its tenant: its customer, its products and the
\* account rows that name it belong to the business that made it.
TenantIsolation ==
  \A s \in DOMAIN sales :
     /\ sales[s].customer # NoCustomer => BusinessOf[sales[s].customer] = sales[s].business
     /\ \A p \in Product : MovementsOf(p, "VENTA", s) # {} => BusinessOf[p] = sales[s].business
     /\ \A c \in Customer :
          Rows(c, "VENTA_CREDITO", s) # {} => BusinessOf[c] = sales[s].business

\* History is append-only, a sale changes only by being cancelled and a payment
\* only by being cancelled, each once and for good.
HistoryStep ==
  /\ \A p \in Product : \E n \in 0..1 :
        /\ Len(movements'[p]) = Len(movements[p]) + n
        /\ SubSeq(movements'[p], 1, Len(movements[p])) = movements[p]
  /\ \A c \in Customer : \E n \in 0..1 :
        /\ Len(account'[c]) = Len(account[c]) + n
        /\ SubSeq(account'[c], 1, Len(account[c])) = account[c]
  /\ \A s \in DOMAIN sales :
        sales'[s] \in {sales[s], [sales[s] EXCEPT !.estatus = "CANCELADA"]}
  /\ \A i \in DOMAIN payments :
        payments'[i] \in {payments[i], [payments[i] EXCEPT !.cancelado = TRUE]}

HistoryImmutable == [][HistoryStep]_vars
=============================================================================
