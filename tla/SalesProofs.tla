----------------------------- MODULE SalesProofs -----------------------------
(***************************************************************************)
(* Theorems about Sales for every set of products, customers and tenants   *)
(* and every bound.  The lemmas on Change and Move are about one           *)
(* transaction's effect on the stock and on an account; every action of    *)
(* Sales goes through them.                                                *)
(***************************************************************************)
EXTENDS Sales, SequenceTheorems, FiniteSetTheorems, TLAPS

-----------------------------------------------------------------------------
\* What change() is about to write, for every product it is called with, has its type.
LEMMA RecordedTyped ==
  ASSUME NEW S \in SUBSET Product, NEW delta \in [S -> Int],
         NEW tipo \in MovementType, NEW referencia \in Nat,
         InventoryTypeOK, CanChange(delta)
  PROVE  /\ Shifted(delta) \in [Product -> 0..StockLimit]
         /\ Recorded(delta, tipo, referencia) \in [Product -> Seq(InventoryMovement)]
<1>1. Shifted(delta) \in [Product -> 0..StockLimit]
  BY DEF InventoryTypeOK, CanChange, Shifted
<1>2. ASSUME NEW p \in Product
      PROVE  Recorded(delta, tipo, referencia)[p] \in Seq(InventoryMovement)
  <2>1. CASE p \in DOMAIN delta
    <3> DEFINE row == [tipo |-> tipo, cantidad |-> delta[p], stockAnterior |-> stock[p],
                       stockNuevo |-> stock[p] + delta[p], referencia |-> referencia]
    <3>1. row \in InventoryMovement
      BY <2>1 DEF InventoryTypeOK, CanChange, InventoryMovement
    <3>2. Append(movements[p], row) \in Seq(InventoryMovement)
      BY <3>1, AppendProperties DEF InventoryTypeOK
    <3> QED BY <2>1, <3>2 DEF Recorded
  <2>2. CASE p \notin DOMAIN delta
    BY <2>2 DEF InventoryTypeOK, Recorded
  <2> QED BY <2>1, <2>2
<1>3. Recorded(delta, tipo, referencia) \in [Product -> Seq(InventoryMovement)]
  BY <1>2 DEF Recorded
<1> QED BY <1>1, <1>3

\* change() keeps the type of the stock and of its history.
LEMMA ChangeTyped ==
  ASSUME NEW S \in SUBSET Product, NEW delta \in [S -> Int],
         NEW tipo \in MovementType, NEW referencia \in Nat,
         InventoryTypeOK, Change(delta, tipo, referencia)
  PROVE  InventoryTypeOK'
BY RecordedTyped DEF InventoryTypeOK, Change

\* change() keeps the stock equal to what its history adds up to: the row it
\* appends starts from the stock it read under the lock.
LEMMA ChangeFollowed ==
  ASSUME NEW S \in SUBSET Product, NEW delta \in [S -> Int],
         NEW tipo \in MovementType, NEW referencia \in Nat,
         InventoryTypeOK, StockFollowsMovements, Change(delta, tipo, referencia)
  PROVE  StockFollowsMovements'
<1> SUFFICES ASSUME NEW p \in Product
             PROVE  /\ \A i \in 1..Len(movements'[p]) :
                          /\ movements'[p][i].stockAnterior = StockBefore(p, i)'
                          /\ movements'[p][i].stockNuevo =
                               movements'[p][i].stockAnterior + movements'[p][i].cantidad
                    /\ stock'[p] = StockBefore(p, Len(movements[p]) + 1)'
  BY DEF StockFollowsMovements
<1>1. /\ movements[p] \in Seq(InventoryMovement)
      /\ Len(movements[p]) \in Nat
  BY DEF InventoryTypeOK
<1>2. CASE p \notin DOMAIN delta
  <2>1. movements'[p] = movements[p] /\ stock'[p] = stock[p]
    BY <1>2 DEF Change, Recorded, Shifted, InventoryTypeOK
  <2> QED BY <2>1 DEF StockFollowsMovements, StockBefore
<1>3. CASE p \in DOMAIN delta
  <2> DEFINE n == Len(movements[p])
             row == [tipo |-> tipo, cantidad |-> delta[p], stockAnterior |-> stock[p],
                     stockNuevo |-> stock[p] + delta[p], referencia |-> referencia]
  <2>1. row \in InventoryMovement
    BY <1>3 DEF InventoryTypeOK, Change, CanChange, InventoryMovement
  <2>2. movements'[p] = Append(movements[p], row) /\ stock'[p] = stock[p] + delta[p]
    BY <1>3 DEF Change, Recorded, Shifted
  <2>3. /\ Len(movements'[p]) = n + 1
        /\ movements'[p][n + 1] = row
        /\ \A i \in 1..n : movements'[p][i] = movements[p][i]
    BY <1>1, <2>1, <2>2, AppendProperties
  <2>4. \A i \in 1..(n + 1) : StockBefore(p, i)' = StockBefore(p, i)
    BY <1>1, <2>3, SMTT(60) DEF StockBefore
  <2>5. StockBefore(p, Len(movements[p]) + 1)' = stock'[p]
    BY <1>1, <2>2, <2>3 DEF StockBefore
  <2>6. stock[p] = StockBefore(p, n + 1)
    BY DEF StockFollowsMovements
  <2>7. ASSUME NEW i \in 1..Len(movements'[p])
        PROVE  /\ movements'[p][i].stockAnterior = StockBefore(p, i)'
               /\ movements'[p][i].stockNuevo =
                    movements'[p][i].stockAnterior + movements'[p][i].cantidad
    <3>1. CASE i = n + 1
      BY <3>1, <1>1, <2>3, <2>4, <2>6
    <3>2. CASE i \in 1..n
      BY <3>2, <1>1, <2>3, <2>4 DEF StockFollowsMovements
    <3> QED BY <1>1, <2>3, <3>1, <3>2
  <2> QED BY <2>5, <2>7
<1> QED BY <1>2, <1>3

-----------------------------------------------------------------------------
\* The row addMovement() is about to write has its type, and so has the account with it.
LEMMA AccountRowTyped ==
  ASSUME NEW c \in Customer, NEW tipo \in AccountMovementType, NEW cargo \in Nat,
         NEW abono \in Nat, NEW nuevo \in Int, NEW referencia \in Nat,
         AccountsTypeOK, CanMove(c, nuevo)
  PROVE  /\ AccountRow(c, tipo, cargo, abono, nuevo, referencia) \in AccountMovement
         /\ [account EXCEPT ![c] = Append(@, AccountRow(c, tipo, cargo, abono, nuevo, referencia))]
              \in [Customer -> Seq(AccountMovement)]
<1>1. AccountRow(c, tipo, cargo, abono, nuevo, referencia) \in AccountMovement
  BY DEF AccountsTypeOK, CanMove, AccountRow, AccountMovement
<1>2. Append(account[c], AccountRow(c, tipo, cargo, abono, nuevo, referencia))
        \in Seq(AccountMovement)
  BY <1>1, AppendProperties DEF AccountsTypeOK
<1> QED BY <1>1, <1>2 DEF AccountsTypeOK

\* addMovement() keeps the type of the balances and of their history.
LEMMA MoveTyped ==
  ASSUME NEW c \in Customer, NEW tipo \in AccountMovementType, NEW cargo \in Nat,
         NEW abono \in Nat, NEW nuevo \in Int, NEW referencia \in Nat,
         AccountsTypeOK, Move(c, tipo, cargo, abono, nuevo, referencia)
  PROVE  /\ balance' \in [Customer -> 0..BalanceLimit]
         /\ account' \in [Customer -> Seq(AccountMovement)]
         /\ AccountRow(c, tipo, cargo, abono, nuevo, referencia) \in AccountMovement
<1>1. CanMove(c, nuevo)
  BY DEF Move
<1>2. balance' \in [Customer -> 0..BalanceLimit]
  BY DEF AccountsTypeOK, Move, CanMove
<1> QED BY <1>1, <1>2, AccountRowTyped DEF Move

\* addMovement() keeps the balance equal to what its history adds up to, when the
\* row it appends is off by no more than its type allows.
LEMMA MoveFollowed ==
  ASSUME NEW c \in Customer, NEW tipo \in AccountMovementType, NEW cargo \in Nat,
         NEW abono \in Nat, NEW nuevo \in Int, NEW referencia \in Nat,
         AccountsTypeOK, BalanceFollowsAccount,
         Move(c, tipo, cargo, abono, nuevo, referencia),
         RowDrift(AccountRow(c, tipo, cargo, abono, nuevo, referencia)) \in
           IF tipo = "ABONO" THEN -1..1 ELSE {0}
  PROVE  BalanceFollowsAccount'
<1> DEFINE row == AccountRow(c, tipo, cargo, abono, nuevo, referencia)
<1>1. row \in AccountMovement /\ row.tipo = tipo /\ row.saldoAnterior = balance[c]
      /\ row.saldoNuevo = nuevo
  BY MoveTyped DEF AccountRow
<1> HIDE DEF row
<1> SUFFICES ASSUME NEW d \in Customer
             PROVE  /\ \A i \in 1..Len(account'[d]) :
                          /\ account'[d][i].saldoAnterior = BalanceBefore(d, i)'
                          /\ RowDrift(account'[d][i]) \in
                               IF account'[d][i].tipo = "ABONO" THEN -1..1 ELSE {0}
                    /\ balance'[d] = BalanceBefore(d, Len(account[d]) + 1)'
  BY DEF BalanceFollowsAccount, RowDrift
<1>2. account[d] \in Seq(AccountMovement) /\ Len(account[d]) \in Nat
  BY DEF AccountsTypeOK
<1>3. CASE d # c
  <2>1. account'[d] = account[d] /\ balance'[d] = balance[d]
    BY <1>3 DEF Move, AccountsTypeOK
  <2> QED BY <2>1 DEF BalanceFollowsAccount, BalanceBefore
<1>4. CASE d = c
  <2> DEFINE n == Len(account[d])
  <2>1. account'[d] = Append(account[d], row) /\ balance'[d] = nuevo
    BY <1>4 DEF Move, AccountsTypeOK, row
  <2>2. /\ Len(account'[d]) = n + 1
        /\ account'[d][n + 1] = row
        /\ \A i \in 1..n : account'[d][i] = account[d][i]
    BY <1>1, <1>2, <2>1, AppendProperties
  <2>3. ASSUME NEW i \in 1..(n + 1) PROVE BalanceBefore(d, i)' = BalanceBefore(d, i)
    <3>1. CASE i = 1
      BY <3>1 DEF BalanceBefore
    <3>2. CASE i # 1
      <4>1. i - 1 \in 1..n
        BY <1>2, <3>2
      <4>2. account'[d][i - 1] = account[d][i - 1]
        BY <2>2, <4>1
      <4> QED BY <3>2, <4>2 DEF BalanceBefore
    <3> QED BY <3>1, <3>2
  <2>4. BalanceBefore(d, Len(account[d]) + 1)' = balance'[d]
    BY <1>1, <1>2, <2>1, <2>2 DEF BalanceBefore
  <2>5. balance[d] = BalanceBefore(d, n + 1)
    BY DEF BalanceFollowsAccount
  <2>6. ASSUME NEW i \in 1..Len(account'[d])
        PROVE  /\ account'[d][i].saldoAnterior = BalanceBefore(d, i)'
               /\ RowDrift(account'[d][i]) \in
                    IF account'[d][i].tipo = "ABONO" THEN -1..1 ELSE {0}
    <3>1. CASE i = n + 1
      <4>1. account'[d][i] = row
        BY <2>2, <3>1
      <4>2. RowDrift(row) \in IF row.tipo = "ABONO" THEN -1..1 ELSE {0}
        BY <1>1 DEF row
      <4> QED BY <1>1, <1>2, <1>4, <2>3, <2>5, <3>1, <4>1, <4>2
    <3>2. CASE i \in 1..n
      BY <3>2, <1>2, <2>2, <2>3 DEF BalanceFollowsAccount
    <3> QED BY <1>2, <2>2, <3>1, <3>2
  <2> QED BY <2>4, <2>6
<1> QED BY <1>3, <1>4

\* The two roundings of a payment, of the amount and of what is left, disagree
\* by at most one cent, and a whole number of cents makes them agree.
LEMMA RoundedApart ==
  ASSUME NEW half \in Nat, NEW b \in Nat,
         NEW monto \in Rounded(half), NEW nuevo \in Rounded(2 * b - half)
  PROVE  /\ monto \in Nat
         /\ nuevo \in Int
         /\ nuevo - (b + 0 - monto) \in -1..1
  BY DEF Rounded

-----------------------------------------------------------------------------
(***************************************************************************)
(* The inductive invariant.  cancel() takes back what a sale left unpaid   *)
(* from the account of its customer, so the types alone are not inductive: *)
(* they need that a sale with debt has a customer.                         *)
(***************************************************************************)
CreditHasCustomer ==
  \A s \in DOMAIN sales : sales[s].saldoPendiente > 0 => sales[s].customer \in Customer

IInv == TypeOK /\ CreditHasCustomer /\ StockFollowsMovements /\ BalanceFollowsAccount

\* What a sale takes and what its cancellation returns are differences of a set of
\* products.
LEMMA QuantitiesTyped ==
  ASSUME NEW q \in Quantities
  PROVE  \E S \in SUBSET Product : q \in [S -> Int] /\ Taken(q) \in [S -> Int]
<1>1. PICK S \in (SUBSET Product) \ {{}} : q \in [S -> Quantity]
  BY DEF Quantities
<1>2. Quantity \subseteq Int
  BY InventoryAssumption DEF Quantity
<1>3. q \in [S -> Int]
  BY <1>1, <1>2
<1>4. Taken(q) \in [S -> Int]
  BY <1>3 DEF Taken
<1> QED BY <1>1, <1>3, <1>4

\* Counting the sales of a business gives a number.
LEMMA FolioTyped ==
  ASSUME SalesTypeOK, NEW b \in Business
  PROVE  NextFolio(b) \in Nat
<1>1. DOMAIN sales = 1..Len(sales) /\ Len(sales) \in Nat
  BY DEF SalesTypeOK
<1>2. IsFiniteSet(1..Len(sales))
  BY <1>1, FS_Interval
<1>3. IsFiniteSet(SalesOf(b))
  BY <1>1, <1>2, FS_Subset DEF SalesOf
<1> QED BY <1>3, FS_CardinalityType DEF NextFolio

LEMMA InitHolds == Init => IInv
<1> SUFFICES ASSUME Init PROVE IInv
  OBVIOUS
<1>1. InventoryTypeOK /\ StockFollowsMovements
  BY InventoryAssumption, EmptySeq
  DEF Init, InventoryInit, InventoryTypeOK, StockFollowsMovements, StockBefore
<1>2. AccountsTypeOK /\ BalanceFollowsAccount
  BY AccountsAssumption, EmptySeq
  DEF Init, AccountsInit, AccountsTypeOK, BalanceFollowsAccount, BalanceBefore, CustomerState
<1>3. SalesTypeOK /\ CreditHasCustomer
  BY EmptySeq DEF Init, SalesTypeOK, CreditHasCustomer
<1> QED BY <1>1, <1>2, <1>3 DEF IInv, TypeOK

\* The parts of the invariant that read variables a step leaves alone.
LEMMA InventoryStays ==
  ASSUME InventoryTypeOK, StockFollowsMovements, UNCHANGED inventoryVars
  PROVE  InventoryTypeOK' /\ StockFollowsMovements'
  BY DEF inventoryVars, InventoryTypeOK, StockFollowsMovements, StockBefore

LEMMA AccountsStay ==
  ASSUME AccountsTypeOK, BalanceFollowsAccount, UNCHANGED accountsVars
  PROVE  AccountsTypeOK' /\ BalanceFollowsAccount'
  BY DEF accountsVars, AccountsTypeOK, BalanceFollowsAccount, BalanceBefore

LEMMA SalesStay ==
  ASSUME SalesTypeOK, CreditHasCustomer, UNCHANGED salesVars
  PROVE  SalesTypeOK' /\ CreditHasCustomer'
  BY DEF salesVars, SalesTypeOK, CreditHasCustomer

\* addMovement() of whole cents, with its type and its chain at once.
LEMMA AddMovementHolds ==
  ASSUME NEW c \in Customer, NEW tipo \in AccountMovementType, NEW cargo \in Nat,
         NEW abono \in Nat, NEW referencia \in Nat,
         AccountsTypeOK, BalanceFollowsAccount,
         AddMovement(c, tipo, cargo, abono, referencia)
  PROVE  /\ balance' \in [Customer -> 0..BalanceLimit]
         /\ account' \in [Customer -> Seq(AccountMovement)]
         /\ BalanceFollowsAccount'
<1> DEFINE nuevo == balance[c] + cargo - abono
<1>1. balance[c] \in Int /\ nuevo \in Int
  BY AccountsAssumption DEF AccountsTypeOK
<1>2. Move(c, tipo, cargo, abono, nuevo, referencia)
  BY DEF AddMovement
<1>3. RowDrift(AccountRow(c, tipo, cargo, abono, nuevo, referencia)) = 0
  BY <1>1 DEF RowDrift, AccountRow
<1> HIDE DEF nuevo
<1>4. RowDrift(AccountRow(c, tipo, cargo, abono, nuevo, referencia)) \in
        IF tipo = "ABONO" THEN -1..1 ELSE {0}
  BY <1>3
<1>5. BalanceFollowsAccount'
  BY <1>1, <1>2, <1>4, MoveFollowed
<1>6. /\ balance' \in [Customer -> 0..BalanceLimit]
      /\ account' \in [Customer -> Seq(AccountMovement)]
  BY <1>1, <1>2, MoveTyped
<1> QED BY <1>5, <1>6

-----------------------------------------------------------------------------
\* create() keeps the invariant: its sale has a customer if it leaves a debt, its
\* products move once each and the debt is charged once.
LEMMA CreateHolds ==
  ASSUME IInv, NEW b \in Business, NEW c \in Customer \cup {NoCustomer},
         NEW quantities \in Quantities, Create(b, c, quantities)
  PROVE  IInv'
<1> USE DEF IInv, TypeOK
<1>1. PICK total \in Totals, tipoPago \in PaymentType, pagoInicial \in Totals :
        LET inicial == Initial(tipoPago, total, pagoInicial)
            id == Len(sales) + 1
        IN /\ ValidPayment(c, tipoPago, total, inicial)
           /\ sales' = Append(sales, NewSale(b, c, quantities, total, inicial, NextFolio(b)))
           /\ Change(Taken(quantities), "VENTA", id)
           /\ ChargePending(c, total - inicial, id)
           /\ UNCHANGED productActive
  BY DEF Create
<1> DEFINE inicial == Initial(tipoPago, total, pagoInicial)
           new == NewSale(b, c, quantities, total, inicial, NextFolio(b))
<1>2. total \in Nat /\ inicial \in Nat /\ total - inicial \in Nat
  BY <1>1, SalesAssumption DEF ValidPayment
<1>3. total - inicial # 0 => c \in Customer
  BY <1>1, <1>2 DEF ValidPayment, Initial, PaymentType
<1>4. Len(sales) + 1 \in Nat
  BY DEF SalesTypeOK
<1>5. /\ ValidPayment(c, tipoPago, total, inicial)
      /\ sales' = Append(sales, new)
      /\ Change(Taken(quantities), "VENTA", Len(sales) + 1)
      /\ ChargePending(c, total - inicial, Len(sales) + 1)
      /\ UNCHANGED productActive
  BY <1>1
<1> HIDE DEF inicial
<1>6. InventoryTypeOK' /\ StockFollowsMovements'
  <2>1. PICK S \in SUBSET Product : Taken(quantities) \in [S -> Int]
    BY QuantitiesTyped
  <2>2. "VENTA" \in MovementType
    BY DEF MovementType
  <2> QED BY <1>4, <1>5, <2>1, <2>2, ChangeTyped, ChangeFollowed
<1>7. AccountsTypeOK' /\ BalanceFollowsAccount'
  <2>1. CASE total - inicial = 0
    BY <1>5, <2>1, AccountsStay DEF ChargePending
  <2>2. CASE total - inicial # 0
    <3>1. /\ AddMovement(c, "VENTA_CREDITO", total - inicial, 0, Len(sales) + 1)
          /\ UNCHANGED <<customers, payments>>
      BY <1>5, <2>2 DEF ChargePending
    <3>2. "VENTA_CREDITO" \in AccountMovementType
      BY DEF AccountMovementType
    <3>3. /\ balance' \in [Customer -> 0..BalanceLimit]
          /\ account' \in [Customer -> Seq(AccountMovement)]
          /\ BalanceFollowsAccount'
      BY <1>2, <1>3, <1>4, <2>2, <3>1, <3>2, AddMovementHolds
    <3> QED BY <3>1, <3>3 DEF AccountsTypeOK
  <2> QED BY <2>1, <2>2
<1>8. SalesTypeOK' /\ CreditHasCustomer'
  <2>1. new \in Sale
    BY <1>2, FolioTyped DEF NewSale, Sale
  <2>2. sales' \in Seq(Sale)
    BY <1>5, <2>1, AppendProperties DEF SalesTypeOK
  <2>3. new.saldoPendiente > 0 => new.customer \in Customer
    BY <1>2, <1>3 DEF NewSale
  <2> HIDE DEF new
  <2>4. /\ Len(sales) \in Nat /\ DOMAIN sales = 1..Len(sales)
        /\ DOMAIN sales' = 1..(Len(sales) + 1)
        /\ sales'[Len(sales) + 1] = new
        /\ \A s \in 1..Len(sales) : sales'[s] = sales[s]
    BY <1>5, <2>1, <2>2, AppendProperties DEF SalesTypeOK
  <2>5. CreditHasCustomer'
    BY <2>3, <2>4 DEF CreditHasCustomer
  <2> QED BY <1>5, <2>2, <2>5 DEF SalesTypeOK
<1> QED BY <1>6, <1>7, <1>8

\* cancel() keeps the invariant: the debt it takes back is its customer's.
LEMMA CancelHolds ==
  ASSUME IInv, NEW s \in DOMAIN sales, Cancel(s)
  PROVE  IInv'
<1> USE DEF IInv, TypeOK
<1>1. s \in Nat /\ sales[s] \in Sale
  BY DEF SalesTypeOK
<1>2. InventoryTypeOK' /\ StockFollowsMovements'
  <2>1. PICK S \in SUBSET Product : sales[s].details \in [S -> Int]
    BY <1>1, QuantitiesTyped DEF Sale
  <2>2. "CANCELACION_VENTA" \in MovementType
    BY DEF MovementType
  <2>3. Change(sales[s].details, "CANCELACION_VENTA", s)
    BY DEF Cancel
  <2> QED BY <1>1, <2>1, <2>2, <2>3, ChangeTyped, ChangeFollowed
<1>3. AccountsTypeOK' /\ BalanceFollowsAccount'
  <2>1. CreditPending(s)
    BY DEF Cancel
  <2>2. CASE ~ sales[s].saldoPendiente > 0
    BY <2>1, <2>2, AccountsStay DEF CreditPending
  <2>3. CASE sales[s].saldoPendiente > 0
    <3>1. /\ AddMovement(sales[s].customer, "CANCELACION_VENTA", 0,
                         sales[s].saldoPendiente, s)
          /\ UNCHANGED <<customers, payments>>
      BY <2>1, <2>3 DEF CreditPending
    <3>2. "CANCELACION_VENTA" \in AccountMovementType /\ sales[s].customer \in Customer
      BY <2>3 DEF AccountMovementType, CreditHasCustomer
    <3>3. /\ balance' \in [Customer -> 0..BalanceLimit]
          /\ account' \in [Customer -> Seq(AccountMovement)]
          /\ BalanceFollowsAccount'
      BY <1>1, <3>1, <3>2, AddMovementHolds DEF Sale
    <3> QED BY <3>1, <3>3 DEF AccountsTypeOK
  <2> QED BY <2>2, <2>3
<1>4. SalesTypeOK' /\ CreditHasCustomer'
  <2>1. sales' = [sales EXCEPT ![s].estatus = "CANCELADA"] /\ UNCHANGED productActive
    BY DEF Cancel
  <2>2. [sales[s] EXCEPT !.estatus = "CANCELADA"] \in Sale
    BY <1>1 DEF Sale
  <2>3. sales' \in Seq(Sale)
    BY <2>1, <2>2, ExceptSeq DEF SalesTypeOK
  <2>4. CreditHasCustomer'
    BY <1>1, <2>1 DEF CreditHasCustomer, SalesTypeOK, Sale
  <2> QED BY <2>1, <2>3, <2>4 DEF SalesTypeOK
<1> QED BY <1>2, <1>3, <1>4

\* createPayment() and cancelPayment() keep the invariant; a payment is the one
\* row that may be a cent off.
LEMMA CreatePaymentHolds ==
  ASSUME IInv, NEW c \in Customer, CreatePayment(c)
  PROVE  AccountsTypeOK' /\ BalanceFollowsAccount'
<1> USE DEF IInv, TypeOK
<1>1. PICK half \in PaymentAmounts :
      \E monto \in Rounded(half), nuevo \in Rounded(2 * balance[c] - half) :
        /\ Move(c, "ABONO", 0, monto, nuevo, Len(payments) + 1)
        /\ payments' = Append(payments, [customer |-> c, monto |-> monto, cancelado |-> FALSE])
        /\ UNCHANGED customers
  BY DEF CreatePayment
<1>2. PICK monto \in Rounded(half), nuevo \in Rounded(2 * balance[c] - half) :
        /\ Move(c, "ABONO", 0, monto, nuevo, Len(payments) + 1)
        /\ payments' = Append(payments, [customer |-> c, monto |-> monto, cancelado |-> FALSE])
        /\ UNCHANGED customers
  BY <1>1
<1>3. half \in Nat /\ balance[c] \in Nat
  BY AccountsAssumption DEF AccountsTypeOK
<1>4. monto \in Nat /\ nuevo \in Int /\ nuevo - (balance[c] + 0 - monto) \in -1..1
  BY <1>3, RoundedApart
<1>5. "ABONO" \in AccountMovementType /\ Len(payments) + 1 \in Nat
  BY DEF AccountMovementType, AccountsTypeOK
<1>6. RowDrift(AccountRow(c, "ABONO", 0, monto, nuevo, Len(payments) + 1)) \in
        IF "ABONO" = "ABONO" THEN -1..1 ELSE {0}
  BY <1>4 DEF RowDrift, AccountRow
<1>7. BalanceFollowsAccount'
  BY <1>2, <1>4, <1>5, <1>6, MoveFollowed
<1>8. /\ balance' \in [Customer -> 0..BalanceLimit]
      /\ account' \in [Customer -> Seq(AccountMovement)]
  BY <1>2, <1>4, <1>5, MoveTyped
<1>9. payments' \in Seq(CustomerPayment)
  <2>1. [customer |-> c, monto |-> monto, cancelado |-> FALSE] \in CustomerPayment
    BY <1>4 DEF CustomerPayment
  <2> QED BY <1>2, <2>1, AppendProperties DEF AccountsTypeOK
<1> QED BY <1>2, <1>7, <1>8, <1>9 DEF AccountsTypeOK

LEMMA CancelPaymentHolds ==
  ASSUME IInv, NEW i \in DOMAIN payments, CancelPayment(i)
  PROVE  AccountsTypeOK' /\ BalanceFollowsAccount'
<1> USE DEF IInv, TypeOK
<1>1. i \in Nat /\ payments[i] \in CustomerPayment
  BY DEF AccountsTypeOK
<1>2. /\ AddMovement(payments[i].customer, "CANCELACION_ABONO", payments[i].monto, 0, i)
      /\ payments' = [payments EXCEPT ![i].cancelado = TRUE]
      /\ UNCHANGED customers
  BY DEF CancelPayment
<1>3. /\ balance' \in [Customer -> 0..BalanceLimit]
      /\ account' \in [Customer -> Seq(AccountMovement)]
      /\ BalanceFollowsAccount'
  <2>1. "CANCELACION_ABONO" \in AccountMovementType
    BY DEF AccountMovementType
  <2> QED BY <1>1, <1>2, <2>1, AddMovementHolds DEF CustomerPayment
<1>4. payments' \in Seq(CustomerPayment)
  <2>1. [payments[i] EXCEPT !.cancelado = TRUE] \in CustomerPayment
    BY <1>1 DEF CustomerPayment
  <2> QED BY <1>2, <2>1, ExceptSeq DEF AccountsTypeOK
<1> QED BY <1>2, <1>3, <1>4 DEF AccountsTypeOK

\* An entry and an adjustment keep the stock and its history together.
LEMMA InventoryHolds ==
  ASSUME IInv, NEW p \in Product, Entry(p) \/ Adjustment(p)
  PROVE  InventoryTypeOK' /\ StockFollowsMovements'
<1> USE DEF IInv, TypeOK
<1>1. Quantity \subseteq Int
  BY InventoryAssumption DEF Quantity
<1>2. PICK d \in Int, tipo \in MovementType : Change([x \in {p} |-> d], tipo, 0)
  <2>1. CASE Entry(p)
    BY <1>1, <2>1 DEF Entry, MovementType
  <2>2. CASE Adjustment(p)
    <3>1. PICK word \in {"POSITIVO", "NEGATIVO", "otro"}, cantidad \in Quantity \cup {0} :
            Change([x \in {p} |-> AdjustmentDelta(word, cantidad)],
                   IF word = "POSITIVO" THEN "AJUSTE_POSITIVO" ELSE "AJUSTE_NEGATIVO", 0)
      BY <2>2 DEF Adjustment
    <3>2. AdjustmentDelta(word, cantidad) \in Int
      BY <1>1 DEF AdjustmentDelta
    <3>3. (IF word = "POSITIVO" THEN "AJUSTE_POSITIVO" ELSE "AJUSTE_NEGATIVO") \in MovementType
      BY DEF MovementType
    <3> QED BY <3>1, <3>2, <3>3
  <2> QED BY <2>1, <2>2
<1>3. [x \in {p} |-> d] \in [{p} -> Int] /\ {p} \in SUBSET Product /\ 0 \in Nat
  OBVIOUS
<1> QED BY <1>2, <1>3, ChangeTyped, ChangeFollowed

\* What updateCustomer() and deleteCustomer() change is no part of the accounts.
LEMMA CustomerHolds ==
  ASSUME IInv, NEW c \in Customer,
         (\E activo \in BOOLEAN : UpdateCustomer(c, activo)) \/ DeleteCustomer(c)
  PROVE  AccountsTypeOK' /\ BalanceFollowsAccount'
<1> USE DEF IInv, TypeOK
<1>1. /\ customers' \in [Customer -> CustomerState]
      /\ UNCHANGED <<balance, account, payments>>
  BY DEF UpdateCustomer, DeleteCustomer, AccountsTypeOK, CustomerState
<1> QED BY <1>1 DEF AccountsTypeOK, BalanceFollowsAccount, BalanceBefore

LEMMA NextHolds ==
  ASSUME IInv, [Next]_vars
  PROVE  IInv'
<1>1. CASE UNCHANGED vars
  BY <1>1, InventoryStays, AccountsStay, SalesStay DEF IInv, TypeOK, vars
<1>2. ASSUME NEW b \in Business, NEW c \in Customer \cup {NoCustomer},
             NEW quantities \in Quantities, Create(b, c, quantities)
      PROVE  IInv'
  BY <1>2, CreateHolds
<1>3. ASSUME NEW s \in DOMAIN sales, Cancel(s) PROVE IInv'
  BY <1>3, CancelHolds
<1>4. ASSUME NEW p \in Product, StatusProduct(p) PROVE IInv'
  <2>1. SalesTypeOK' /\ CreditHasCustomer'
    BY <1>4 DEF IInv, TypeOK, StatusProduct, SalesTypeOK, CreditHasCustomer
  <2> QED BY <1>4, <2>1, InventoryStays, AccountsStay DEF IInv, TypeOK, StatusProduct
<1>5. ASSUME NEW p \in Product, InventoryStep(p) PROVE IInv'
  BY <1>5, InventoryHolds, AccountsStay, SalesStay DEF IInv, TypeOK, InventoryStep
<1>6. ASSUME NEW c \in Customer, CustomerStep(c) PROVE IInv'
  BY <1>6, CreatePaymentHolds, CustomerHolds, InventoryStays, SalesStay
  DEF IInv, TypeOK, CustomerStep
<1>7. ASSUME NEW i \in DOMAIN payments, PaymentStep(i) PROVE IInv'
  BY <1>7, CancelPaymentHolds, InventoryStays, SalesStay DEF IInv, TypeOK, PaymentStep
<1> QED BY <1>1, <1>2, <1>3, <1>4, <1>5, <1>6, <1>7 DEF Next

-----------------------------------------------------------------------------
\* The invariant holds in every state of every behaviour of Sales.
THEOREM InvariantHolds == Spec => []IInv
<1>1. Init => IInv
  BY InitHolds
<1>2. IInv /\ [Next]_vars => IInv'
  BY NextHolds
<1> QED BY <1>1, <1>2, PTL DEF Spec

\* Stock, histories, balances, payments and sales keep their types: no stock and
\* no balance is ever negative or out of its column's range.
THEOREM TypesHold == Spec => []TypeOK
<1>1. IInv => TypeOK
  BY DEF IInv
<1> QED BY <1>1, InvariantHolds, PTL

\* The stock of a product is what its movements add up to.
THEOREM StockHolds == Spec => []StockFollowsMovements
<1>1. IInv => StockFollowsMovements
  BY DEF IInv
<1> QED BY <1>1, InvariantHolds, PTL

\* The balance of a customer is what its account adds up to, each payment within
\* a cent.
THEOREM BalanceHolds == Spec => []BalanceFollowsAccount
<1>1. IInv => BalanceFollowsAccount
  BY DEF IInv
<1> QED BY <1>1, InvariantHolds, PTL
=============================================================================
