---------------------------- MODULE LedgerProofs ----------------------------
(***************************************************************************)
(* The four tables of Sales tell one story: every sale is in the history   *)
(* of stock and in its customer's account, every payment is in the account *)
(* and what a customer owes is what these tables add up to.  The lemmas    *)
(* are about the rows one transaction adds, whoever decides when it        *)
(* commits: SalesTxProofs uses them for the transactions taken apart.      *)
(***************************************************************************)
EXTENDS SalesProofs, SumProofs

SalesTold == \A p \in Product, s \in Nat \ {0} : SaleTold(p, s)
SalesCharged == \A c \in Customer, s \in Nat \ {0} : SaleCharged(c, s)
PaymentsTold == \A c \in Customer, i \in Nat \ {0} : PaymentTold(c, i)

\* What a sale names belongs to the business that made it.
SalesOfTenant ==
  \A s \in DOMAIN sales :
     /\ sales[s].customer # NoCustomer => BusinessOf[sales[s].customer] = sales[s].business
     /\ \A p \in DOMAIN sales[s].details : BusinessOf[p] = sales[s].business

-----------------------------------------------------------------------------
\* The rows of one kind and reference after one row more.
LEMMA MovementAdded ==
  ASSUME InventoryTypeOK, NEW p \in Product, NEW row \in InventoryMovement,
         movements'[p] = Append(movements[p], row), NEW tipo \in MovementType, NEW s \in Nat
  PROVE  /\ row.tipo = tipo /\ row.referencia = s =>
              MovementsOf(p, tipo, s)' = MovementsOf(p, tipo, s) \cup {Len(movements[p]) + 1}
         /\ row.tipo # tipo \/ row.referencia # s =>
              MovementsOf(p, tipo, s)' = MovementsOf(p, tipo, s)
         /\ movements'[p][Len(movements[p]) + 1] = row
<1>1. movements[p] \in Seq(InventoryMovement) /\ Len(movements[p]) \in Nat
  BY DEF InventoryTypeOK
<1>2. /\ Len(movements'[p]) = Len(movements[p]) + 1
      /\ movements'[p][Len(movements[p]) + 1] = row
      /\ \A k \in 1..Len(movements[p]) : movements'[p][k] = movements[p][k]
  BY <1>1, AppendProperties
<1>3. 1..(Len(movements[p]) + 1) = 1..Len(movements[p]) \cup {Len(movements[p]) + 1}
  BY <1>1
<1> QED BY <1>1, <1>2, <1>3 DEF MovementsOf

\* The movements that were there are still what they were.
LEMMA MovementStays ==
  ASSUME InventoryTypeOK, NEW p \in Product, NEW row \in InventoryMovement,
         movements'[p] = Append(movements[p], row),
         NEW tipo, NEW s, NEW k \in MovementsOf(p, tipo, s)
  PROVE  movements'[p][k] = movements[p][k]
<1>1. movements[p] \in Seq(InventoryMovement)
  BY DEF InventoryTypeOK
<1> QED BY <1>1, AppendProperties DEF MovementsOf

\* A history without a new movement has the movements it had.
LEMMA MovementsKept ==
  ASSUME NEW p \in Product, movements'[p] = movements[p], NEW tipo, NEW s
  PROVE  MovementsOf(p, tipo, s)' = MovementsOf(p, tipo, s)
BY DEF MovementsOf

\* One row more for each product of S, with its difference, and none for the others.
RowsAdded(S, delta, tipo, referencia) ==
  \A p \in Product :
     IF p \in S
     THEN \E row \in InventoryMovement :
             /\ movements'[p] = Append(movements[p], row)
             /\ row.tipo = tipo /\ row.cantidad = delta[p] /\ row.referencia = referencia
     ELSE movements'[p] = movements[p]

\* It is what change() does for all the products of one transaction.
LEMMA ChangeAddsRows ==
  ASSUME InventoryTypeOK, NEW S \in SUBSET Product, NEW delta \in [S -> Int],
         NEW tipo \in MovementType, NEW referencia \in Nat,
         CanChange(delta), movements' = Recorded(delta, tipo, referencia)
  PROVE  RowsAdded(S, delta, tipo, referencia)
<1> SUFFICES ASSUME NEW p \in Product
             PROVE  IF p \in S
                    THEN \E row \in InventoryMovement :
                            /\ movements'[p] = Append(movements[p], row)
                            /\ row.tipo = tipo /\ row.cantidad = delta[p]
                            /\ row.referencia = referencia
                    ELSE movements'[p] = movements[p]
  BY DEF RowsAdded
<1>1. CASE p \notin S
  BY <1>1 DEF Recorded
<1>2. CASE p \in S
  <2> DEFINE row == [tipo |-> tipo, cantidad |-> delta[p], stockAnterior |-> stock[p],
                     stockNuevo |-> stock[p] + delta[p], referencia |-> referencia]
  <2>1. row \in InventoryMovement
    BY <1>2 DEF InventoryTypeOK, CanChange, InventoryMovement
  <2>2. movements'[p] = Append(movements[p], row)
    BY <1>2 DEF Recorded
  <2> QED BY <1>2, <2>1, <2>2
<1> QED BY <1>1, <1>2

\* A cancelled sale is the same sale with another status.
LEMMA SaleCancelled ==
  ASSUME SalesTypeOK, NEW r \in DOMAIN sales,
         sales' = [sales EXCEPT ![r].estatus = "CANCELADA"]
  PROVE  /\ r \in 1..Len(sales) /\ sales[r] \in Sale /\ Len(sales) \in Nat
         /\ sales' \in Seq(Sale) /\ Len(sales') = Len(sales)
         /\ sales'[r] = [sales[r] EXCEPT !.estatus = "CANCELADA"]
         /\ sales'[r].estatus = "CANCELADA"
         /\ sales'[r].details = sales[r].details
         /\ sales'[r].customer = sales[r].customer
         /\ sales'[r].business = sales[r].business
         /\ sales'[r].folio = sales[r].folio
         /\ sales'[r].saldoPendiente = sales[r].saldoPendiente
         /\ \A x \in 1..Len(sales) : x # r => sales'[x] = sales[x]
<1> DEFINE new == [sales[r] EXCEPT !.estatus = "CANCELADA"]
<1>1. r \in 1..Len(sales) /\ sales[r] \in Sale /\ Len(sales) \in Nat
  BY DEF SalesTypeOK
<1>2. /\ new \in Sale /\ new.estatus = "CANCELADA"
      /\ new.details = sales[r].details /\ new.customer = sales[r].customer
      /\ new.business = sales[r].business /\ new.saldoPendiente = sales[r].saldoPendiente
      /\ new.folio = sales[r].folio
  BY <1>1 DEF Sale
<1>3. sales' = [sales EXCEPT ![r] = new]
  OBVIOUS
<1> HIDE DEF new
<1>4. /\ sales' \in Seq(Sale) /\ Len(sales') = Len(sales) /\ sales'[r] = new
      /\ \A x \in 1..Len(sales) : x # r => sales'[x] = sales[x]
  BY <1>1, <1>2, <1>3, ExceptSeq DEF SalesTypeOK
<1> QED BY <1>1, <1>2, <1>4 DEF new

\* A step that adds no row of a sale and changes no sale.
LEMMA ToldKept ==
  ASSUME InventoryTypeOK, SalesTold, UNCHANGED sales,
         \A p \in Product :
            \/ movements'[p] = movements[p]
            \/ \E row \in InventoryMovement :
                  /\ movements'[p] = Append(movements[p], row)
                  /\ row.tipo \notin {"VENTA", "CANCELACION_VENTA"}
  PROVE  SalesTold'
<1> SUFFICES ASSUME NEW p \in Product, NEW s \in Nat \ {0}
             PROVE  SaleTold(p, s)'
  BY DEF SalesTold
<1>1. SaleTold(p, s)
  BY DEF SalesTold
<1>2. /\ MovementsOf(p, "VENTA", s)' = MovementsOf(p, "VENTA", s)
      /\ MovementsOf(p, "CANCELACION_VENTA", s)' = MovementsOf(p, "CANCELACION_VENTA", s)
      /\ \A k \in MovementsOf(p, "VENTA", s) \cup MovementsOf(p, "CANCELACION_VENTA", s) :
            movements'[p][k] = movements[p][k]
  <2>1. CASE movements'[p] = movements[p]
    BY <2>1, MovementsKept
  <2>2. ASSUME NEW row \in InventoryMovement, movements'[p] = Append(movements[p], row),
               row.tipo \notin {"VENTA", "CANCELACION_VENTA"}
        PROVE  /\ MovementsOf(p, "VENTA", s)' = MovementsOf(p, "VENTA", s)
               /\ MovementsOf(p, "CANCELACION_VENTA", s)' = MovementsOf(p, "CANCELACION_VENTA", s)
               /\ \A k \in MovementsOf(p, "VENTA", s) \cup MovementsOf(p, "CANCELACION_VENTA", s) :
                     movements'[p][k] = movements[p][k]
    <3>1. "VENTA" \in MovementType /\ "CANCELACION_VENTA" \in MovementType /\ s \in Nat
      BY DEF MovementType
    <3>2. /\ MovementsOf(p, "VENTA", s)' = MovementsOf(p, "VENTA", s)
          /\ MovementsOf(p, "CANCELACION_VENTA", s)' = MovementsOf(p, "CANCELACION_VENTA", s)
      BY <2>2, <3>1, MovementAdded
    <3> QED BY <2>2, <3>2, MovementStays, ZenonT(60)
  <2> QED BY <2>1, <2>2
<1> QED BY <1>1, <1>2 DEF SaleTold

\* The rows of a new sale are the only ones that name it.
LEMMA ToldOfNew ==
  ASSUME InventoryTypeOK, SalesTypeOK, SalesTold, NEW q \in Quantities,
         NEW new \in Sale, new.details = q, new.estatus = "COMPLETADA",
         sales' = Append(sales, new),
         NEW id \in Nat, id = Len(sales) + 1,
         NEW S \in SUBSET Product, q \in [S -> Int], RowsAdded(S, Taken(q), "VENTA", id)
  PROVE  SalesTold'
<1> SUFFICES ASSUME NEW p \in Product, NEW s \in Nat \ {0}
             PROVE  SaleTold(p, s)'
  BY DEF SalesTold
<1> DEFINE V == MovementsOf(p, "VENTA", s)
           C == MovementsOf(p, "CANCELACION_VENTA", s)
           n == Len(sales)
<1>1. SaleTold(p, s)
  BY DEF SalesTold
<1>2. /\ n \in Nat /\ Len(sales') = n + 1 /\ sales'[n + 1] = new
      /\ \A r \in 1..n : sales'[r] = sales[r]
  BY AppendProperties DEF SalesTypeOK
<1>4. "VENTA" \in MovementType /\ "CANCELACION_VENTA" \in MovementType /\ id \in Nat
  BY <1>2 DEF MovementType
<1>5. CASE p \notin S
  <2>1. V' = V /\ C' = C /\ movements'[p] = movements[p]
    <3>1. movements'[p] = movements[p]
      BY <1>5 DEF RowsAdded
    <3> QED BY <3>1, MovementsKept
  <2>2. p \notin DOMAIN new.details
    BY <1>5
  <2>3. s <= Len(sales') /\ p \in DOMAIN sales'[s].details
          <=> s <= n /\ p \in DOMAIN sales[s].details
    BY <1>2, <2>2
  <2>4. s <= n => sales'[s] = sales[s]
    BY <1>2
  <2> QED BY <1>1, <1>2, <2>1, <2>2, <2>3, <2>4 DEF SaleTold
<1>6. CASE p \in S
  <2>1. PICK row \in InventoryMovement :
          /\ movements'[p] = Append(movements[p], row)
          /\ row.tipo = "VENTA" /\ row.cantidad = Taken(q)[p] /\ row.referencia = id
    BY <1>6 DEF RowsAdded
  <2> DEFINE m == Len(movements[p]) + 1
  <2>2. /\ V' = V \cup (IF s = n + 1 THEN {m} ELSE {})
        /\ C' = C
        /\ movements'[p][m].cantidad = Taken(q)[p]
        /\ \A k \in V \cup C : movements'[p][k] = movements[p][k]
    <3>1. /\ V' = V \cup (IF s = id THEN {m} ELSE {})
          /\ movements'[p][m] = row
      BY <1>4, <2>1, MovementAdded
    <3>2. C' = C
      BY <1>4, <2>1, MovementAdded
    <3>3. \A k \in V \cup C : movements'[p][k] = movements[p][k]
      BY <2>1, MovementStays, ZenonT(60)
    <3> QED BY <2>1, <3>1, <3>2, <3>3
  <2>3. CASE s = n + 1
    <3>1. V = {} /\ C = {}
      BY <1>1, <1>2, <2>3 DEF SaleTold
    <3>2. p \in DOMAIN q /\ Taken(q)[p] = - q[p]
      BY <1>6 DEF Taken
    <3>3. V' = {m} /\ C' = {} /\ movements'[p][m].cantidad = - q[p]
      BY <2>2, <2>3, <3>1, <3>2
    <3>4. s <= Len(sales') /\ sales'[s] = new
      BY <1>2, <2>3
    <3> QED BY <3>2, <3>3, <3>4 DEF SaleTold
  <2>4. CASE s # n + 1
    <3>1. s <= Len(sales') <=> s <= n
      BY <1>2, <2>4
    <3>2. s <= n => sales'[s] = sales[s]
      BY <1>2
    <3> QED BY <1>1, <2>2, <2>4, <3>1, <3>2 DEF SaleTold
  <2> QED BY <2>3, <2>4
<1> QED BY <1>5, <1>6

\* The rows that return a sale's units are as many as those that took them.
LEMMA ToldOfCancelled ==
  ASSUME InventoryTypeOK, SalesTypeOK, SalesTold, NEW r \in DOMAIN sales,
         sales[r].estatus # "CANCELADA",
         sales' = [sales EXCEPT ![r].estatus = "CANCELADA"],
         NEW S \in SUBSET Product, sales[r].details \in [S -> Int],
         RowsAdded(S, sales[r].details, "CANCELACION_VENTA", r)
  PROVE  SalesTold'
<1> SUFFICES ASSUME NEW p \in Product, NEW s \in Nat \ {0}
             PROVE  SaleTold(p, s)'
  BY DEF SalesTold
<1> DEFINE V == MovementsOf(p, "VENTA", s)
           C == MovementsOf(p, "CANCELACION_VENTA", s)
           q == sales[r].details
<1>1. SaleTold(p, s)
  BY DEF SalesTold
<1>2. /\ r \in 1..Len(sales) /\ sales[r] \in Sale /\ Len(sales) \in Nat
      /\ Len(sales') = Len(sales)
      /\ sales'[r].details = q /\ sales'[r].estatus = "CANCELADA"
      /\ \A x \in 1..Len(sales) : x # r => sales'[x] = sales[x]
  BY SaleCancelled
<1>4. "VENTA" \in MovementType /\ "CANCELACION_VENTA" \in MovementType /\ r \in Nat
  BY <1>2 DEF MovementType
<1>5. CASE p \notin S
  <2>1. V' = V /\ C' = C /\ movements'[p] = movements[p]
    <3>1. movements'[p] = movements[p]
      BY <1>5 DEF RowsAdded
    <3> QED BY <3>1, MovementsKept
  <2>2. p \notin DOMAIN q
    BY <1>5
  <2>3. CASE s = r
    BY <1>1, <1>2, <2>1, <2>2, <2>3 DEF SaleTold
  <2>4. CASE s # r
    <3>1. s <= Len(sales) => sales'[s] = sales[s]
      BY <1>2, <2>4
    <3> QED BY <1>1, <1>2, <2>1, <3>1 DEF SaleTold
  <2> QED BY <2>3, <2>4
<1>6. CASE p \in S
  <2>1. PICK row \in InventoryMovement :
          /\ movements'[p] = Append(movements[p], row)
          /\ row.tipo = "CANCELACION_VENTA" /\ row.cantidad = q[p] /\ row.referencia = r
    BY <1>6 DEF RowsAdded
  <2> DEFINE m == Len(movements[p]) + 1
  <2>2. /\ C' = C \cup (IF s = r THEN {m} ELSE {})
        /\ V' = V
        /\ movements'[p][m].cantidad = q[p]
        /\ \A k \in V \cup C : movements'[p][k] = movements[p][k]
    <3>1. /\ V' = V
          /\ movements'[p][m] = row
      BY <1>4, <2>1, MovementAdded
    <3>2. C' = C \cup (IF s = r THEN {m} ELSE {})
      BY <1>4, <2>1, MovementAdded
    <3>3. ASSUME NEW k \in V \cup C PROVE movements'[p][k] = movements[p][k]
      <4>1. movements[p] \in Seq(InventoryMovement) /\ k \in 1..Len(movements[p])
        BY DEF InventoryTypeOK, MovementsOf
      <4> QED BY <2>1, <4>1, AppendProperties
    <3> QED BY <2>1, <3>1, <3>2, <3>3
  <2>3. CASE s = r
    <3>1. p \in DOMAIN q
      BY <1>6
    <3>2. C = {}
      BY <1>1, <2>3 DEF SaleTold
    <3>3. C' = {m}
      BY <2>2, <2>3, <3>2
    <3> QED BY <1>1, <1>2, <2>2, <2>3, <3>1, <3>3, SMTT(60) DEF SaleTold
  <2>4. CASE s # r
    <3>1. s <= Len(sales) => sales'[s] = sales[s]
      BY <1>2, <2>4
    <3> QED BY <1>1, <1>2, <2>2, <2>4, <3>1 DEF SaleTold
  <2> QED BY <2>3, <2>4
<1> QED BY <1>5, <1>6

-----------------------------------------------------------------------------
\* The rows of an account of one kind and reference after one row more.
LEMMA RowAdded ==
  ASSUME AccountsTypeOK, NEW c \in Customer, NEW row \in AccountMovement,
         account'[c] = Append(account[c], row), NEW tipo \in AccountMovementType, NEW i \in Nat
  PROVE  /\ row.tipo = tipo /\ row.referencia = i =>
              Rows(c, tipo, i)' = Rows(c, tipo, i) \cup {Len(account[c]) + 1}
         /\ row.tipo # tipo \/ row.referencia # i => Rows(c, tipo, i)' = Rows(c, tipo, i)
         /\ account'[c][Len(account[c]) + 1] = row
<1>1. account[c] \in Seq(AccountMovement) /\ Len(account[c]) \in Nat
  BY DEF AccountsTypeOK
<1>2. /\ Len(account'[c]) = Len(account[c]) + 1
      /\ account'[c][Len(account[c]) + 1] = row
      /\ \A k \in 1..Len(account[c]) : account'[c][k] = account[c][k]
  BY <1>1, AppendProperties
<1>3. 1..(Len(account[c]) + 1) = 1..Len(account[c]) \cup {Len(account[c]) + 1}
  BY <1>1
<1> QED BY <1>1, <1>2, <1>3 DEF Rows

\* The rows that were there are still what they were.
LEMMA RowStays ==
  ASSUME AccountsTypeOK, NEW c \in Customer, NEW row \in AccountMovement,
         account'[c] = Append(account[c], row),
         NEW tipo, NEW i, NEW k \in Rows(c, tipo, i)
  PROVE  account'[c][k] = account[c][k]
<1>1. account[c] \in Seq(AccountMovement)
  BY DEF AccountsTypeOK
<1> QED BY <1>1, AppendProperties DEF Rows

\* An account without a new row has the rows it had.
LEMMA RowsKept ==
  ASSUME NEW c \in Customer, account'[c] = account[c], NEW tipo, NEW i
  PROVE  Rows(c, tipo, i)' = Rows(c, tipo, i)
BY DEF Rows

\* One row more in the account of c0, and none in the others.
RowWritten(c0, tipo, cargo, abono, referencia) ==
  \A c \in Customer :
     IF c = c0
     THEN \E row \in AccountMovement :
             /\ account'[c] = Append(account[c], row)
             /\ row.tipo = tipo /\ row.cargo = cargo /\ row.abono = abono
             /\ row.referencia = referencia
     ELSE account'[c] = account[c]

\* It is what addMovement() does to the account, whatever it does to the balance.
LEMMA AppendWritesRow ==
  ASSUME AccountsTypeOK, NEW c0 \in Customer, NEW tipo \in AccountMovementType,
         NEW cargo \in Nat, NEW abono \in Nat, NEW nuevo \in Int, NEW referencia \in Nat,
         CanMove(c0, nuevo),
         account' = [account EXCEPT ![c0] =
                       Append(@, AccountRow(c0, tipo, cargo, abono, nuevo, referencia))]
  PROVE  RowWritten(c0, tipo, cargo, abono, referencia)
<1> DEFINE row == AccountRow(c0, tipo, cargo, abono, nuevo, referencia)
<1>1. row \in AccountMovement
  BY AccountRowTyped
<1>2. /\ row.tipo = tipo /\ row.cargo = cargo /\ row.abono = abono
      /\ row.referencia = referencia
  BY DEF AccountRow
<1>3. /\ account'[c0] = Append(account[c0], row)
      /\ \A c \in Customer : c # c0 => account'[c] = account[c]
  BY DEF AccountsTypeOK
<1> HIDE DEF row
<1> QED BY <1>1, <1>2, <1>3 DEF RowWritten

\* And what it does when it moves the balance too.
LEMMA MoveWritesRow ==
  ASSUME AccountsTypeOK, NEW c0 \in Customer, NEW tipo \in AccountMovementType,
         NEW cargo \in Nat, NEW abono \in Nat, NEW nuevo \in Int, NEW referencia \in Nat,
         Move(c0, tipo, cargo, abono, nuevo, referencia)
  PROVE  RowWritten(c0, tipo, cargo, abono, referencia)
BY AppendWritesRow DEF Move

\* A step that writes at most one row, of another kind, and changes no sale.
LEMMA ChargedKept ==
  ASSUME AccountsTypeOK, SalesCharged, UNCHANGED sales,
         \/ UNCHANGED account
         \/ \E c0 \in Customer, tipo \in {"ABONO", "CANCELACION_ABONO"},
               cargo, abono, referencia \in Nat :
               RowWritten(c0, tipo, cargo, abono, referencia)
  PROVE  SalesCharged'
<1> SUFFICES ASSUME NEW c \in Customer, NEW s \in Nat \ {0}
             PROVE  SaleCharged(c, s)'
  BY DEF SalesCharged
<1> DEFINE V == Rows(c, "VENTA_CREDITO", s)
           C == Rows(c, "CANCELACION_VENTA", s)
<1>1. SaleCharged(c, s)
  BY DEF SalesCharged
<1>2. CASE account'[c] = account[c]
  <2>1. V' = V /\ C' = C
    BY <1>2, RowsKept
  <2> QED BY <1>1, <1>2, <2>1 DEF SaleCharged
<1>3. CASE account'[c] # account[c]
  <2>1. PICK c0 \in Customer, tipo \in {"ABONO", "CANCELACION_ABONO"},
               cargo \in Nat, abono \in Nat, referencia \in Nat :
               RowWritten(c0, tipo, cargo, abono, referencia)
    BY <1>3
  <2>2. PICK row \in AccountMovement : account'[c] = Append(account[c], row) /\ row.tipo = tipo
    BY <1>3, <2>1 DEF RowWritten
  <2>3. "VENTA_CREDITO" \in AccountMovementType /\ "CANCELACION_VENTA" \in AccountMovementType
    BY DEF AccountMovementType
  <2>4. V' = V /\ C' = C
    BY <2>2, <2>3, RowAdded
  <2>5. \A k \in V \cup C : account'[c][k] = account[c][k]
    BY <2>2, RowStays, ZenonT(60)
  <2> QED BY <1>1, <2>4, <2>5 DEF SaleCharged
<1> QED BY <1>2, <1>3

\* What a new sale leaves unpaid is the one row that names it.
LEMMA ChargedOfNew ==
  ASSUME AccountsTypeOK, SalesTypeOK, SalesCharged, NEW new \in Sale,
         new.estatus = "COMPLETADA", sales' = Append(sales, new),
         NEW id \in Nat, id = Len(sales) + 1,
         \/ new.saldoPendiente = 0 /\ UNCHANGED account
         \/ /\ new.saldoPendiente > 0
            /\ RowWritten(new.customer, "VENTA_CREDITO", new.saldoPendiente, 0, id)
  PROVE  SalesCharged'
<1> SUFFICES ASSUME NEW c \in Customer, NEW s \in Nat \ {0}
             PROVE  SaleCharged(c, s)'
  BY DEF SalesCharged
<1> DEFINE V == Rows(c, "VENTA_CREDITO", s)
           C == Rows(c, "CANCELACION_VENTA", s)
           n == Len(sales)
<1>1. SaleCharged(c, s)
  BY DEF SalesCharged
<1>2. /\ n \in Nat /\ Len(sales') = n + 1 /\ sales'[n + 1] = new
      /\ \A r \in 1..n : sales'[r] = sales[r]
  BY AppendProperties DEF SalesTypeOK
<1>3. s <= n => sales'[s] = sales[s]
  BY <1>2
<1>4. new.saldoPendiente \in Nat
  BY DEF Sale
<1>5. CASE ~ (new.customer = c /\ new.saldoPendiente > 0)
  <2>1. account'[c] = account[c]
    BY <1>5 DEF RowWritten
  <2>2. V' = V /\ C' = C
    BY <2>1, RowsKept
  <2>3. CASE s = n + 1
    <3>1. V = {} /\ C = {}
      BY <1>1, <1>2, <2>3 DEF SaleCharged
    <3>2. sales'[s] = new
      BY <1>2, <2>3
    <3> QED BY <1>5, <2>2, <3>1, <3>2 DEF SaleCharged
  <2>4. CASE s # n + 1
    <3>1. s <= Len(sales') <=> s <= n
      BY <1>2, <2>4
    <3> QED BY <1>1, <1>3, <2>1, <2>2, <3>1 DEF SaleCharged
  <2> QED BY <2>3, <2>4
<1>6. CASE new.customer = c /\ new.saldoPendiente > 0
  <2>1. PICK row \in AccountMovement :
          /\ account'[c] = Append(account[c], row)
          /\ row.tipo = "VENTA_CREDITO" /\ row.cargo = new.saldoPendiente
          /\ row.referencia = id
    BY <1>6 DEF RowWritten
  <2>2. /\ "VENTA_CREDITO" \in AccountMovementType
        /\ "CANCELACION_VENTA" \in AccountMovementType /\ s \in Nat
    BY DEF AccountMovementType
  <2> DEFINE m == Len(account[c]) + 1
  <2>3. /\ s = id => V' = V \cup {m}
        /\ s # id => V' = V
        /\ account'[c][m] = row
    BY <2>1, <2>2, RowAdded
  <2>4. C' = C
    BY <2>1, <2>2, RowAdded
  <2>5. ASSUME NEW k \in V \cup C PROVE account'[c][k] = account[c][k]
    BY <2>1, RowStays
  <2>6. CASE s = n + 1
    <3>1. V = {} /\ C = {}
      BY <1>1, <1>2, <2>6 DEF SaleCharged
    <3>2. V' = {m} /\ C' = {} /\ account'[c][m].cargo = new.saldoPendiente
      BY <2>1, <2>3, <2>4, <2>6, <3>1
    <3>3. s <= Len(sales') /\ sales'[s] = new
      BY <1>2, <2>6
    <3> QED BY <1>6, <3>2, <3>3 DEF SaleCharged
  <2>7. CASE s # n + 1
    <3>1. s <= Len(sales') <=> s <= n
      BY <1>2, <2>7
    <3>2. V' = V
      BY <2>3, <2>7
    <3> QED BY <1>1, <1>3, <2>4, <2>5, <3>1, <3>2 DEF SaleCharged
  <2> QED BY <2>6, <2>7
<1> QED BY <1>5, <1>6

\* What a cancelled sale had left unpaid comes off the account in one row.
LEMMA ChargedOfCancelled ==
  ASSUME AccountsTypeOK, SalesTypeOK, SalesCharged, NEW r \in DOMAIN sales,
         sales[r].estatus # "CANCELADA",
         sales' = [sales EXCEPT ![r].estatus = "CANCELADA"],
         \/ sales[r].saldoPendiente = 0 /\ UNCHANGED account
         \/ /\ sales[r].saldoPendiente > 0
            /\ RowWritten(sales[r].customer, "CANCELACION_VENTA", 0, sales[r].saldoPendiente, r)
  PROVE  SalesCharged'
<1> SUFFICES ASSUME NEW c \in Customer, NEW s \in Nat \ {0}
             PROVE  SaleCharged(c, s)'
  BY DEF SalesCharged
<1> DEFINE V == Rows(c, "VENTA_CREDITO", s)
           C == Rows(c, "CANCELACION_VENTA", s)
<1>1. SaleCharged(c, s)
  BY DEF SalesCharged
<1>2. /\ r \in 1..Len(sales) /\ sales[r] \in Sale /\ Len(sales) \in Nat
      /\ Len(sales') = Len(sales)
      /\ sales'[r].customer = sales[r].customer
      /\ sales'[r].saldoPendiente = sales[r].saldoPendiente
      /\ sales'[r].estatus = "CANCELADA"
      /\ \A x \in 1..Len(sales) : x # r => sales'[x] = sales[x]
  BY SaleCancelled
<1>3. s # r /\ s <= Len(sales) => sales'[s] = sales[s]
  BY <1>2
<1>4. sales[r].saldoPendiente \in Nat
  BY <1>2 DEF Sale
<1>5. CASE ~ (sales[r].customer = c /\ sales[r].saldoPendiente > 0)
  <2>1. account'[c] = account[c]
    BY <1>5 DEF RowWritten
  <2>2. V' = V /\ C' = C
    BY <2>1, RowsKept
  <2>3. CASE s = r
    BY <1>1, <1>2, <1>5, <2>2, <2>3 DEF SaleCharged
  <2>4. CASE s # r
    BY <1>1, <1>2, <1>3, <2>1, <2>2, <2>4 DEF SaleCharged
  <2> QED BY <2>3, <2>4
<1>6. CASE sales[r].customer = c /\ sales[r].saldoPendiente > 0
  <2>1. PICK row \in AccountMovement :
          /\ account'[c] = Append(account[c], row)
          /\ row.tipo = "CANCELACION_VENTA" /\ row.abono = sales[r].saldoPendiente
          /\ row.referencia = r
    BY <1>6 DEF RowWritten
  <2>2. /\ "VENTA_CREDITO" \in AccountMovementType
        /\ "CANCELACION_VENTA" \in AccountMovementType /\ s \in Nat
    BY DEF AccountMovementType
  <2> DEFINE m == Len(account[c]) + 1
  <2>3. /\ s = r => C' = C \cup {m}
        /\ s # r => C' = C
        /\ account'[c][m] = row
    BY <2>1, <2>2, RowAdded
  <2>4. V' = V
    BY <2>1, <2>2, RowAdded
  <2>5. ASSUME NEW k \in V \cup C PROVE account'[c][k] = account[c][k]
    <3>1. account[c] \in Seq(AccountMovement) /\ k \in 1..Len(account[c])
      BY DEF AccountsTypeOK, Rows
    <3> QED BY <2>1, <3>1, AppendProperties
  <2>6. CASE s = r
    <3>1. C = {}
      BY <1>1, <2>6 DEF SaleCharged
    <3>2. C' = {m} /\ account'[c][m].abono = sales[r].saldoPendiente
      BY <2>1, <2>3, <2>6, <3>1
    <3> QED BY <1>1, <1>2, <1>6, <2>4, <2>5, <2>6, <3>2 DEF SaleCharged
  <2>7. CASE s # r
    <3>1. C' = C
      BY <2>3, <2>7
    <3> QED BY <1>1, <1>2, <1>3, <2>4, <2>5, <2>7, <3>1 DEF SaleCharged
  <2> QED BY <2>6, <2>7
<1> QED BY <1>5, <1>6

\* A step that writes at most one row, of a sale, and changes no payment.
LEMMA PaymentsKept ==
  ASSUME AccountsTypeOK, PaymentsTold, UNCHANGED payments,
         \/ UNCHANGED account
         \/ \E c0 \in Customer, tipo \in {"VENTA_CREDITO", "CANCELACION_VENTA"},
               cargo, abono, referencia \in Nat :
               RowWritten(c0, tipo, cargo, abono, referencia)
  PROVE  PaymentsTold'
<1> SUFFICES ASSUME NEW c \in Customer, NEW i \in Nat \ {0}
             PROVE  PaymentTold(c, i)'
  BY DEF PaymentsTold
<1> DEFINE A == Rows(c, "ABONO", i)
           C == Rows(c, "CANCELACION_ABONO", i)
<1>1. PaymentTold(c, i)
  BY DEF PaymentsTold
<1>2. CASE account'[c] = account[c]
  <2>1. A' = A /\ C' = C
    BY <1>2, RowsKept
  <2> QED BY <1>1, <1>2, <2>1 DEF PaymentTold
<1>3. CASE account'[c] # account[c]
  <2>1. PICK c0 \in Customer, tipo \in {"VENTA_CREDITO", "CANCELACION_VENTA"},
               cargo \in Nat, abono \in Nat, referencia \in Nat :
               RowWritten(c0, tipo, cargo, abono, referencia)
    BY <1>3
  <2>2. PICK row \in AccountMovement : account'[c] = Append(account[c], row) /\ row.tipo = tipo
    BY <1>3, <2>1 DEF RowWritten
  <2>3. "ABONO" \in AccountMovementType /\ "CANCELACION_ABONO" \in AccountMovementType
    BY DEF AccountMovementType
  <2>4. A' = A /\ C' = C
    BY <2>2, <2>3, RowAdded
  <2>5. \A k \in A \cup C : account'[c][k] = account[c][k]
    BY <2>2, RowStays, ZenonT(60)
  <2> QED BY <1>1, <2>4, <2>5 DEF PaymentTold
<1> QED BY <1>2, <1>3

\* A new payment is in the account of its customer, once, with its amount.
LEMMA PaymentsOfNew ==
  ASSUME AccountsTypeOK, PaymentsTold, NEW new \in CustomerPayment, ~ new.cancelado,
         payments' = Append(payments, new),
         NEW id \in Nat, id = Len(payments) + 1,
         RowWritten(new.customer, "ABONO", 0, new.monto, id)
  PROVE  PaymentsTold'
<1> SUFFICES ASSUME NEW c \in Customer, NEW i \in Nat \ {0}
             PROVE  PaymentTold(c, i)'
  BY DEF PaymentsTold
<1> DEFINE A == Rows(c, "ABONO", i)
           C == Rows(c, "CANCELACION_ABONO", i)
           n == Len(payments)
<1>1. PaymentTold(c, i)
  BY DEF PaymentsTold
<1>2. /\ n \in Nat /\ Len(payments') = n + 1 /\ payments'[n + 1] = new
      /\ \A x \in 1..n : payments'[x] = payments[x]
  BY AppendProperties DEF AccountsTypeOK
<1>3. i <= n => payments'[i] = payments[i]
  BY <1>2
<1>4. i # n + 1 => (i <= Len(payments') <=> i <= n)
  BY <1>2
<1>5. CASE new.customer # c
  <2>1. account'[c] = account[c]
    BY <1>5 DEF RowWritten
  <2>2. A' = A /\ C' = C
    BY <2>1, RowsKept
  <2>3. CASE i = n + 1
    <3>1. A = {} /\ C = {}
      BY <1>1, <1>2, <2>3 DEF PaymentTold
    <3>2. payments'[i] = new
      BY <1>2, <2>3
    <3> QED BY <1>5, <2>2, <3>1, <3>2 DEF PaymentTold
  <2>4. CASE i # n + 1
    BY <1>1, <1>3, <1>4, <2>1, <2>2, <2>4 DEF PaymentTold
  <2> QED BY <2>3, <2>4
<1>6. CASE new.customer = c
  <2>1. PICK row \in AccountMovement :
          /\ account'[c] = Append(account[c], row)
          /\ row.tipo = "ABONO" /\ row.abono = new.monto /\ row.referencia = id
    BY <1>6 DEF RowWritten
  <2>2. /\ "ABONO" \in AccountMovementType
        /\ "CANCELACION_ABONO" \in AccountMovementType /\ i \in Nat
    BY DEF AccountMovementType
  <2> DEFINE m == Len(account[c]) + 1
  <2>3. /\ i = id => A' = A \cup {m}
        /\ i # id => A' = A
        /\ account'[c][m] = row
    BY <2>1, <2>2, RowAdded
  <2>4. C' = C
    BY <2>1, <2>2, RowAdded
  <2>5. ASSUME NEW k \in A \cup C PROVE account'[c][k] = account[c][k]
    BY <2>1, RowStays
  <2>6. CASE i = n + 1
    <3>1. A = {} /\ C = {}
      BY <1>1, <1>2, <2>6 DEF PaymentTold
    <3>2. A' = {m} /\ C' = {} /\ account'[c][m].abono = new.monto
      BY <2>1, <2>3, <2>4, <2>6, <3>1
    <3>3. i <= Len(payments') /\ payments'[i] = new
      BY <1>2, <2>6
    <3> QED BY <1>6, <3>2, <3>3 DEF PaymentTold
  <2>7. CASE i # n + 1
    <3>1. A' = A
      BY <2>3, <2>7
    <3> QED BY <1>1, <1>3, <1>4, <2>4, <2>5, <2>7, <3>1 DEF PaymentTold
  <2> QED BY <2>6, <2>7
<1> QED BY <1>5, <1>6

\* A cancelled payment is the same payment, marked.
LEMMA PaymentCancelled ==
  ASSUME AccountsTypeOK, NEW r \in DOMAIN payments,
         payments' = [payments EXCEPT ![r].cancelado = TRUE]
  PROVE  /\ r \in 1..Len(payments) /\ payments[r] \in CustomerPayment /\ Len(payments) \in Nat
         /\ payments' \in Seq(CustomerPayment) /\ Len(payments') = Len(payments)
         /\ payments'[r] = [payments[r] EXCEPT !.cancelado = TRUE]
         /\ payments'[r].cancelado
         /\ payments'[r].customer = payments[r].customer
         /\ payments'[r].monto = payments[r].monto
         /\ \A x \in 1..Len(payments) : x # r => payments'[x] = payments[x]
<1> DEFINE new == [payments[r] EXCEPT !.cancelado = TRUE]
<1>1. r \in 1..Len(payments) /\ payments[r] \in CustomerPayment /\ Len(payments) \in Nat
  BY DEF AccountsTypeOK
<1>2. /\ new \in CustomerPayment /\ new.cancelado
      /\ new.customer = payments[r].customer /\ new.monto = payments[r].monto
  BY <1>1 DEF CustomerPayment
<1>3. payments' = [payments EXCEPT ![r] = new]
  OBVIOUS
<1> HIDE DEF new
<1>4. /\ payments' \in Seq(CustomerPayment) /\ Len(payments') = Len(payments)
      /\ payments'[r] = new
      /\ \A x \in 1..Len(payments) : x # r => payments'[x] = payments[x]
  <2>1. payments \in Seq(CustomerPayment) /\ new \in CustomerPayment
    BY <1>2 DEF AccountsTypeOK
  <2> DEFINE except == [payments EXCEPT ![r] = new]
  <2>2. except \in Seq(CustomerPayment) /\ Len(except) = Len(payments)
    BY <1>1, <2>1, ExceptSeq
  <2>3. except[r] = new /\ \A x \in 1..Len(payments) : x # r => except[x] = payments[x]
    BY <1>1, <2>1, ExceptSeq
  <2> QED BY <1>3, <2>2, <2>3
<1> QED BY <1>1, <1>2, <1>4 DEF new

\* A cancelled payment is charged back, once, with what it had paid.
LEMMA PaymentsOfCancelled ==
  ASSUME AccountsTypeOK, PaymentsTold, NEW r \in DOMAIN payments,
         ~ payments[r].cancelado,
         payments' = [payments EXCEPT ![r].cancelado = TRUE],
         RowWritten(payments[r].customer, "CANCELACION_ABONO", payments[r].monto, 0, r)
  PROVE  PaymentsTold'
<1> SUFFICES ASSUME NEW c \in Customer, NEW i \in Nat \ {0}
             PROVE  PaymentTold(c, i)'
  BY DEF PaymentsTold
<1> DEFINE A == Rows(c, "ABONO", i)
           C == Rows(c, "CANCELACION_ABONO", i)
<1>1. PaymentTold(c, i)
  BY DEF PaymentsTold
<1>2. /\ r \in 1..Len(payments) /\ payments[r] \in CustomerPayment /\ Len(payments) \in Nat
      /\ Len(payments') = Len(payments)
      /\ payments'[r].customer = payments[r].customer
      /\ payments'[r].monto = payments[r].monto
      /\ payments'[r].cancelado
      /\ \A x \in 1..Len(payments) : x # r => payments'[x] = payments[x]
  BY PaymentCancelled
<1>3. i # r /\ i <= Len(payments) => payments'[i] = payments[i]
  BY <1>2
<1>4. CASE payments[r].customer # c
  <2>1. account'[c] = account[c]
    BY <1>4 DEF RowWritten
  <2>2. A' = A /\ C' = C
    BY <2>1, RowsKept
  <2>3. CASE i = r
    BY <1>1, <1>2, <1>4, <2>2, <2>3 DEF PaymentTold
  <2>4. CASE i # r
    BY <1>1, <1>2, <1>3, <2>1, <2>2, <2>4 DEF PaymentTold
  <2> QED BY <2>3, <2>4
<1>5. CASE payments[r].customer = c
  <2>1. PICK row \in AccountMovement :
          /\ account'[c] = Append(account[c], row)
          /\ row.tipo = "CANCELACION_ABONO" /\ row.cargo = payments[r].monto
          /\ row.referencia = r
    BY <1>5 DEF RowWritten
  <2>2. /\ "ABONO" \in AccountMovementType
        /\ "CANCELACION_ABONO" \in AccountMovementType /\ i \in Nat
    BY DEF AccountMovementType
  <2> DEFINE m == Len(account[c]) + 1
  <2>3. /\ i = r => C' = C \cup {m}
        /\ i # r => C' = C
        /\ account'[c][m] = row
    BY <2>1, <2>2, RowAdded
  <2>4. A' = A
    BY <2>1, <2>2, RowAdded
  <2>5. ASSUME NEW k \in A \cup C PROVE account'[c][k] = account[c][k]
    <3>1. account[c] \in Seq(AccountMovement) /\ k \in 1..Len(account[c])
      BY DEF AccountsTypeOK, Rows
    <3> QED BY <2>1, <3>1, AppendProperties
  <2>6. CASE i = r
    <3>1. C = {}
      BY <1>1, <2>6 DEF PaymentTold
    <3>2. C' = {m} /\ account'[c][m].cargo = payments[r].monto
      BY <2>1, <2>3, <2>6, <3>1
    <3>3. i <= Len(payments) /\ i <= Len(payments')
      BY <1>2, <2>6
    <3>4. PICK k \in A : A = {k} /\ account[c][k].abono = payments[i].monto
      BY <1>1, <1>5, <2>6, <3>3 DEF PaymentTold
    <3>5. A' = {k} /\ account'[c][k].abono = payments'[i].monto
      BY <1>2, <2>4, <2>5, <2>6, <3>4
    <3> QED BY <1>2, <1>5, <2>6, <3>2, <3>3, <3>5 DEF PaymentTold
  <2>7. CASE i # r
    <3>1. C' = C
      BY <2>3, <2>7
    <3> QED BY <1>1, <1>2, <1>3, <2>4, <2>5, <2>7, <3>1 DEF PaymentTold
  <2> QED BY <2>6, <2>7
<1> QED BY <1>4, <1>5

-----------------------------------------------------------------------------
\* A row whose quantity goes the way of its kind keeps the directions.
LEMMA DirectionKept ==
  ASSUME InventoryTypeOK, MovementDirection,
         \A p \in Product :
            \/ movements'[p] = movements[p]
            \/ \E row \in InventoryMovement :
                  /\ movements'[p] = Append(movements[p], row)
                  /\ Directed(row.tipo, row.cantidad)
  PROVE  MovementDirection'
<1> SUFFICES ASSUME NEW p \in Product, NEW i \in 1..Len(movements'[p])
             PROVE  Directed(movements'[p][i].tipo, movements'[p][i].cantidad)
  BY DEF MovementDirection, Directed
<1>1. \A k \in 1..Len(movements[p]) : Directed(movements[p][k].tipo, movements[p][k].cantidad)
  BY DEF MovementDirection
<1>2. CASE movements'[p] = movements[p]
  BY <1>1, <1>2
<1>3. CASE movements'[p] # movements[p]
  <2>1. PICK row \in InventoryMovement :
          movements'[p] = Append(movements[p], row) /\ Directed(row.tipo, row.cantidad)
    BY <1>3
  <2>2. movements[p] \in Seq(InventoryMovement) /\ Len(movements[p]) \in Nat
    BY DEF InventoryTypeOK
  <2>3. /\ Len(movements'[p]) = Len(movements[p]) + 1
        /\ movements'[p][Len(movements[p]) + 1] = row
        /\ \A k \in 1..Len(movements[p]) : movements'[p][k] = movements[p][k]
    BY <2>1, <2>2, AppendProperties
  <2>4. CASE i = Len(movements[p]) + 1
    BY <2>1, <2>3, <2>4
  <2>5. CASE i # Len(movements[p]) + 1
    <3>1. i \in 1..Len(movements[p])
      BY <2>2, <2>3, <2>5
    <3> QED BY <1>1, <2>3, <3>1
  <2> QED BY <2>4, <2>5
<1> QED BY <1>2, <1>3

-----------------------------------------------------------------------------
\* The sales of a business up to some sale are finitely many.
LEMMA SalesOfFinite ==
  ASSUME SalesTypeOK, NEW b
  PROVE  /\ SalesOf(b) \subseteq 1..Len(sales) /\ Len(sales) \in Nat
         /\ IsFiniteSet(SalesOf(b))
<1>1. SalesOf(b) \subseteq 1..Len(sales) /\ Len(sales) \in Nat
  BY DEF SalesTypeOK, SalesOf
<1>2. IsFiniteSet(1..Len(sales))
  BY <1>1, FS_Interval
<1> QED BY <1>1, <1>2, FS_Subset

\* A new sale that counts the sales of its business keeps the folios gapless.
LEMMA FoliosOfNew ==
  ASSUME SalesTypeOK, FoliosGapless, NEW new \in Sale, sales' = Append(sales, new),
         new.folio = Cardinality(SalesOf(new.business)) + 1
  PROVE  FoliosGapless'
<1> DEFINE n == Len(sales)
           Before(s) == {r \in SalesOf(sales[s].business) : r <= s}
<1>1. /\ n \in Nat /\ DOMAIN sales = 1..n /\ DOMAIN sales' = 1..(n + 1)
      /\ sales'[n + 1] = new
      /\ \A r \in 1..n : sales'[r] = sales[r]
  BY AppendProperties DEF SalesTypeOK
<1> SUFFICES ASSUME NEW s \in 1..(n + 1)
             PROVE  sales'[s].folio = Cardinality(Before(s)')
  BY <1>1 DEF FoliosGapless
<1>2. CASE s \in 1..n
  <2>1. Before(s)' = Before(s)
    BY <1>1, <1>2 DEF SalesOf
  <2> HIDE DEF Before
  <2>2. sales[s].folio = Cardinality(Before(s))
    BY <1>1, <1>2 DEF FoliosGapless, Before
  <2> QED BY <1>1, <1>2, <2>1, <2>2
<1>3. CASE s = n + 1
  <2>1. Before(s)' = SalesOf(new.business) \cup {n + 1}
    BY <1>1, <1>3 DEF SalesOf
  <2>2. IsFiniteSet(SalesOf(new.business)) /\ n + 1 \notin SalesOf(new.business)
    BY <1>1, SalesOfFinite
  <2>3. Cardinality(SalesOf(new.business) \cup {n + 1}) = Cardinality(SalesOf(new.business)) + 1
    BY <2>2, FS_AddElement
  <2>4. sales'[s].folio = Cardinality(SalesOf(new.business)) + 1
    BY <1>1, <1>3
  <2> HIDE DEF Before
  <2> QED BY <2>1, <2>3, <2>4
<1>4. s \in 1..n \/ s = n + 1
  BY <1>1
<1> QED BY <1>2, <1>3, <1>4

\* Cancelling a sale leaves its folio and its business alone.
LEMMA FoliosOfCancelled ==
  ASSUME SalesTypeOK, FoliosGapless, NEW r \in DOMAIN sales,
         sales' = [sales EXCEPT ![r].estatus = "CANCELADA"]
  PROVE  FoliosGapless'
<1> DEFINE Before(s) == {x \in SalesOf(sales[s].business) : x <= s}
<1>1. /\ sales' \in Seq(Sale) /\ Len(sales) \in Nat /\ Len(sales') = Len(sales)
      /\ sales'[r].business = sales[r].business
      /\ sales'[r].folio = sales[r].folio
      /\ \A x \in 1..Len(sales) : x # r => sales'[x] = sales[x]
  BY SaleCancelled
<1>2. DOMAIN sales = 1..Len(sales) /\ DOMAIN sales' = 1..Len(sales)
  BY <1>1 DEF SalesTypeOK
<1>3. \A x \in DOMAIN sales : sales'[x].business = sales[x].business /\ sales'[x].folio = sales[x].folio
  BY <1>1, <1>2
<1> SUFFICES ASSUME NEW s \in DOMAIN sales
             PROVE  sales'[s].folio = Cardinality(Before(s)')
  BY <1>1 DEF FoliosGapless
<1>4. Before(s)' = Before(s)
  BY <1>1, <1>3 DEF SalesOf
<1> HIDE DEF Before
<1>5. sales[s].folio = Cardinality(Before(s))
  BY DEF FoliosGapless, Before
<1> QED BY <1>3, <1>4, <1>5

-----------------------------------------------------------------------------
\* A new sale whose customer and products are of its business keeps the tenants apart.
LEMMA TenantOfNew ==
  ASSUME SalesTypeOK, SalesOfTenant, NEW new \in Sale, sales' = Append(sales, new),
         new.customer # NoCustomer => BusinessOf[new.customer] = new.business,
         \A p \in DOMAIN new.details : BusinessOf[p] = new.business
  PROVE  SalesOfTenant'
<1>1. /\ Len(sales) \in Nat /\ DOMAIN sales = 1..Len(sales)
      /\ DOMAIN sales' = 1..(Len(sales) + 1)
      /\ sales'[Len(sales) + 1] = new
      /\ \A r \in 1..Len(sales) : sales'[r] = sales[r]
  BY AppendProperties DEF SalesTypeOK
<1> QED BY <1>1 DEF SalesOfTenant

\* A cancelled sale stays in its tenant.
LEMMA TenantOfCancelled ==
  ASSUME SalesTypeOK, SalesOfTenant, NEW r \in DOMAIN sales,
         sales' = [sales EXCEPT ![r].estatus = "CANCELADA"]
  PROVE  SalesOfTenant'
<1>1. /\ sales' \in Seq(Sale) /\ Len(sales') = Len(sales)
      /\ sales'[r].details = sales[r].details
      /\ sales'[r].customer = sales[r].customer
      /\ sales'[r].business = sales[r].business
      /\ \A x \in 1..Len(sales) : x # r => sales'[x] = sales[x]
  BY SaleCancelled
<1>2. DOMAIN sales = 1..Len(sales) /\ DOMAIN sales' = 1..Len(sales)
  BY <1>1 DEF SalesTypeOK
<1> QED BY <1>1, <1>2 DEF SalesOfTenant

\* The rows that name a sale are then in its tenant too.
LEMMA TenantFollows ==
  ASSUME SalesTypeOK, SalesTold, SalesCharged, SalesOfTenant
  PROVE  TenantIsolation
<1> SUFFICES ASSUME NEW s \in DOMAIN sales
             PROVE  /\ sales[s].customer # NoCustomer
                         => BusinessOf[sales[s].customer] = sales[s].business
                    /\ \A p \in Product : MovementsOf(p, "VENTA", s) # {}
                         => BusinessOf[p] = sales[s].business
                    /\ \A c \in Customer : Rows(c, "VENTA_CREDITO", s) # {}
                         => BusinessOf[c] = sales[s].business
  BY DEF TenantIsolation
<1>1. s \in Nat \ {0}
  BY DEF SalesTypeOK
<1>2. ASSUME NEW p \in Product, MovementsOf(p, "VENTA", s) # {}
      PROVE  BusinessOf[p] = sales[s].business
  <2>1. SaleTold(p, s)
    BY <1>1 DEF SalesTold
  <2>2. p \in DOMAIN sales[s].details
    BY <1>2, <2>1 DEF SaleTold
  <2> QED BY <2>2 DEF SalesOfTenant
<1>3. ASSUME NEW c \in Customer, Rows(c, "VENTA_CREDITO", s) # {}
      PROVE  BusinessOf[c] = sales[s].business
  <2>1. SaleCharged(c, s)
    BY <1>1 DEF SalesCharged
  <2>2. sales[s].customer = c
    BY <1>3, <2>1 DEF SaleCharged
  <2> QED BY <2>2, SalesAssumption DEF SalesOfTenant
<1> QED BY <1>2, <1>3 DEF SalesOfTenant

-----------------------------------------------------------------------------
\* A history that is kept, or has one row more, is a prefix of what it becomes.
LEMMA OneRowMore ==
  ASSUME NEW S, NEW old \in Seq(S), NEW row \in S, NEW new,
         new = old \/ new = Append(old, row)
  PROVE  \E n \in 0..1 : Len(new) = Len(old) + n /\ SubSeq(new, 1, Len(old)) = old
<1>1. Len(old) \in Nat
  OBVIOUS
<1>2. CASE new = old
  BY <1>1, <1>2, SubSeqFull
<1>3. CASE new = Append(old, row)
  <2>1. /\ new \in Seq(S) /\ Len(new) = Len(old) + 1
        /\ \A i \in 1..Len(old) : new[i] = old[i]
    BY <1>3, AppendProperties
  <2> DEFINE sub == SubSeq(new, 1, Len(old))
  <2>2. sub \in Seq(S) /\ Len(sub) = Len(old) /\ \A i \in 1..Len(old) : sub[i] = new[i]
    <3>1. \A i \in 1..Len(old) : new[i] \in S
      BY <1>1, <2>1
    <3>2. /\ sub \in Seq(S)
          /\ Len(sub) = IF 1 <= Len(old) THEN Len(old) - 1 + 1 ELSE 0
          /\ \A i \in 1..(Len(old) - 1 + 1) : sub[i] = new[1 + i - 1]
      BY <1>1, <3>1, SubSeqProperties
    <3> QED BY <1>1, <3>2
  <2>3. sub = old
    <3> HIDE DEF sub
    <3>1. \A i \in 1..Len(sub) : sub[i] = old[i]
      BY <2>1, <2>2
    <3> QED BY <2>2, <3>1, SeqEqual
  <2> WITNESS 1 \in 0..1
  <2> QED BY <2>1, <2>3
<1> QED BY <1>2, <1>3

-----------------------------------------------------------------------------
(***************************************************************************)
(* What a customer owes.  Each of the three sums changes by one term, and  *)
(* the balance by what that term is: the rounding of a payment stays in    *)
(* the row that records it.                                                *)
(***************************************************************************)
\* The three sums are over finitely many integers.
LEMMA SumsFinite ==
  ASSUME AccountsTypeOK, SalesTypeOK, NEW c \in Customer
  PROVE  /\ IsFiniteSet(DOMAIN Charged(c)) /\ \A s \in DOMAIN Charged(c) : Charged(c)[s] \in Int
         /\ IsFiniteSet(DOMAIN Paid(c)) /\ \A i \in DOMAIN Paid(c) : Paid(c)[i] \in Int
         /\ IsFiniteSet(DOMAIN Drift(c)) /\ \A k \in DOMAIN Drift(c) : Drift(c)[k] \in Int
         /\ SumFunction(Charged(c)) \in Int
         /\ SumFunction(Paid(c)) \in Int
         /\ SumFunction(Drift(c)) \in Int
<1>1. IsFiniteSet(DOMAIN Charged(c)) /\ \A s \in DOMAIN Charged(c) : Charged(c)[s] \in Int
  <2>1. DOMAIN Charged(c) \subseteq 1..Len(sales) /\ Len(sales) \in Nat
    BY DEF Charged, SalesTypeOK
  <2>2. \A s \in DOMAIN Charged(c) : sales[s] \in Sale /\ Charged(c)[s] = sales[s].saldoPendiente
    BY <2>1 DEF Charged, SalesTypeOK
  <2>3. \A s \in DOMAIN Charged(c) : Charged(c)[s] \in Int
    BY <2>2 DEF Sale
  <2>4. IsFiniteSet(1..Len(sales))
    BY <2>1, FS_Interval
  <2>5. IsFiniteSet(DOMAIN Charged(c))
    BY <2>1, <2>4, FS_Subset
  <2> QED BY <2>3, <2>5
<1>2. IsFiniteSet(DOMAIN Paid(c)) /\ \A i \in DOMAIN Paid(c) : Paid(c)[i] \in Int
  <2>1. DOMAIN Paid(c) \subseteq 1..Len(payments) /\ Len(payments) \in Nat
    BY DEF Paid, AccountsTypeOK
  <2>2. \A i \in DOMAIN Paid(c) : payments[i] \in CustomerPayment /\ Paid(c)[i] = payments[i].monto
    BY <2>1 DEF Paid, AccountsTypeOK
  <2>3. \A i \in DOMAIN Paid(c) : Paid(c)[i] \in Int
    BY <2>2 DEF CustomerPayment
  <2>4. IsFiniteSet(1..Len(payments))
    BY <2>1, FS_Interval
  <2>5. IsFiniteSet(DOMAIN Paid(c))
    BY <2>1, <2>4, FS_Subset
  <2> QED BY <2>3, <2>5
<1>3. IsFiniteSet(DOMAIN Drift(c)) /\ \A k \in DOMAIN Drift(c) : Drift(c)[k] \in Int
  <2>1. DOMAIN Drift(c) = 1..Len(account[c]) /\ Len(account[c]) \in Nat
    BY DEF Drift, AccountsTypeOK
  <2>2. \A k \in DOMAIN Drift(c) : account[c][k] \in AccountMovement
    BY <2>1 DEF AccountsTypeOK
  <2>3. \A k \in DOMAIN Drift(c) : Drift(c)[k] \in Int
    BY <2>2, AccountsAssumption DEF Drift, RowDrift, AccountMovement
  <2> QED BY <2>1, <2>3, FS_Interval, FS_Subset
<1>4. /\ SumFunction(Charged(c)) \in Int
      /\ SumFunction(Paid(c)) \in Int
      /\ SumFunction(Drift(c)) \in Int
  BY <1>1, <1>2, <1>3, SumTyped DEF SumFunction
<1> QED BY <1>1, <1>2, <1>3, <1>4

\* So are the sums of the next state.
LEMMA ChargedNextTyped ==
  ASSUME SalesTypeOK', NEW c \in Customer
  PROVE  SumFunction(Charged(c)') \in Int
<1>1. sales' \in Seq(Sale) /\ Len(sales') \in Nat /\ DOMAIN sales' = 1..Len(sales')
  BY DEF SalesTypeOK
<1>2. /\ DOMAIN Charged(c)' \subseteq 1..Len(sales')
      /\ \A s \in DOMAIN Charged(c)' : sales'[s] \in Sale /\ Charged(c)'[s] = sales'[s].saldoPendiente
  BY <1>1 DEF Charged
<1>3. \A s \in DOMAIN Charged(c)' : Charged(c)'[s] \in Int
  BY <1>2 DEF Sale
<1>4. IsFiniteSet(1..Len(sales'))
  BY <1>1, FS_Interval
<1>5. IsFiniteSet(DOMAIN Charged(c)')
  BY <1>2, <1>4, FS_Subset
<1> QED BY <1>3, <1>5, SumTyped DEF SumFunction

\* And what the payments in force add up to in the next state.
LEMMA PaidNextTyped ==
  ASSUME payments' \in Seq(CustomerPayment), NEW c \in Customer
  PROVE  SumFunction(Paid(c)') \in Int
<1>1. Len(payments') \in Nat /\ DOMAIN payments' = 1..Len(payments')
  OBVIOUS
<1>2. /\ DOMAIN Paid(c)' \subseteq 1..Len(payments')
      /\ \A i \in DOMAIN Paid(c)' : payments'[i] \in CustomerPayment /\ Paid(c)'[i] = payments'[i].monto
  BY <1>1 DEF Paid
<1>3. \A i \in DOMAIN Paid(c)' : Paid(c)'[i] \in Int
  BY <1>2 DEF CustomerPayment
<1>4. IsFiniteSet(1..Len(payments'))
  BY <1>1, FS_Interval
<1>5. IsFiniteSet(DOMAIN Paid(c)')
  BY <1>2, <1>4, FS_Subset
<1> QED BY <1>3, <1>5, SumTyped DEF SumFunction

\* What a new sale of c leaves unpaid is one term more of what c was charged.
LEMMA ChargedMore ==
  ASSUME AccountsTypeOK, SalesTypeOK, NEW new \in Sale, new.estatus = "COMPLETADA",
         sales' = Append(sales, new), NEW c \in Customer
  PROVE  SumFunction(Charged(c)') =
           SumFunction(Charged(c)) + (IF new.customer = c THEN new.saldoPendiente ELSE 0)
<1> DEFINE n == Len(sales)
<1>1. /\ n \in Nat /\ DOMAIN sales = 1..n /\ DOMAIN sales' = 1..(n + 1)
      /\ sales'[n + 1] = new
      /\ \A r \in 1..n : sales'[r] = sales[r]
  BY AppendProperties DEF SalesTypeOK
<1>2. IsFiniteSet(DOMAIN Charged(c)) /\ \A s \in DOMAIN Charged(c) : Charged(c)[s] \in Int
  BY SumsFinite
<1>3. SumFunction(Charged(c)) \in Int
  BY SumsFinite
<1>4. CASE new.customer # c
  <2>1. Charged(c)' = Charged(c)
    BY <1>1, <1>4 DEF Charged
  <2> QED BY <1>3, <1>4, <2>1
<1>5. CASE new.customer = c
  <2>1. /\ n + 1 \notin DOMAIN Charged(c)
        /\ DOMAIN Charged(c)' = DOMAIN Charged(c) \cup {n + 1}
        /\ \A s \in DOMAIN Charged(c) : Charged(c)'[s] = Charged(c)[s]
        /\ Charged(c)'[n + 1] = new.saldoPendiente
    BY <1>1, <1>5 DEF Charged
  <2>2. new.saldoPendiente \in Int
    BY DEF Sale
  <2> QED BY <1>2, <1>5, <2>1, <2>2, SumWithOneMore
<1> QED BY <1>4, <1>5

\* A sale of c that is cancelled is one term less.
LEMMA ChargedLess ==
  ASSUME AccountsTypeOK, SalesTypeOK, NEW r \in DOMAIN sales,
         sales[r].estatus # "CANCELADA",
         sales' = [sales EXCEPT ![r].estatus = "CANCELADA"], SalesTypeOK', NEW c \in Customer
  PROVE  SumFunction(Charged(c)) =
           SumFunction(Charged(c)') + (IF sales[r].customer = c THEN sales[r].saldoPendiente ELSE 0)
<1>1. /\ sales' \in Seq(Sale) /\ Len(sales) \in Nat /\ Len(sales') = Len(sales)
      /\ r \in 1..Len(sales) /\ sales[r] \in Sale
      /\ sales'[r].customer = sales[r].customer
      /\ sales'[r].estatus = "CANCELADA"
      /\ \A x \in 1..Len(sales) : x # r => sales'[x] = sales[x]
  BY SaleCancelled
<1>2. DOMAIN sales = 1..Len(sales) /\ DOMAIN sales' = 1..Len(sales)
  BY <1>1 DEF SalesTypeOK
<1>3. IsFiniteSet(DOMAIN Charged(c)) /\ \A s \in DOMAIN Charged(c) : Charged(c)[s] \in Int
  BY SumsFinite
<1>4. SumFunction(Charged(c)) \in Int
  BY SumsFinite
<1>5. sales[r].estatus = "COMPLETADA" /\ sales[r].saldoPendiente \in Int
  BY <1>1 DEF Sale
<1>6. CASE sales[r].customer # c
  <2>1. Charged(c)' = Charged(c)
    BY <1>1, <1>2, <1>6 DEF Charged
  <2> QED BY <1>4, <1>6, <2>1
<1>7. CASE sales[r].customer = c
  <2>1. /\ r \notin DOMAIN Charged(c)'
        /\ DOMAIN Charged(c) = DOMAIN Charged(c)' \cup {r}
        /\ \A s \in DOMAIN Charged(c)' : Charged(c)'[s] = Charged(c)[s]
        /\ Charged(c)[r] = sales[r].saldoPendiente
    BY <1>1, <1>2, <1>5, <1>7 DEF Charged
  <2>2. IsFiniteSet(DOMAIN Charged(c)')
    BY <1>3, <2>1, FS_Subset
  <2>3. \A s \in DOMAIN Charged(c)' : Charged(c)'[s] \in Int
    BY <1>3, <2>1
  <2> QED BY <1>5, <1>7, <2>1, <2>2, <2>3, SumWithOneMore
<1> QED BY <1>6, <1>7

\* A new payment of c is one term more of what c has paid.
LEMMA PaidMore ==
  ASSUME AccountsTypeOK, SalesTypeOK, NEW new \in CustomerPayment, ~ new.cancelado,
         payments' = Append(payments, new), NEW c \in Customer
  PROVE  SumFunction(Paid(c)') =
           SumFunction(Paid(c)) + (IF new.customer = c THEN new.monto ELSE 0)
<1> DEFINE n == Len(payments)
<1>1. /\ n \in Nat /\ DOMAIN payments = 1..n /\ DOMAIN payments' = 1..(n + 1)
      /\ payments'[n + 1] = new
      /\ \A r \in 1..n : payments'[r] = payments[r]
  BY AppendProperties DEF AccountsTypeOK
<1>2. IsFiniteSet(DOMAIN Paid(c)) /\ \A i \in DOMAIN Paid(c) : Paid(c)[i] \in Int
  BY SumsFinite
<1>3. SumFunction(Paid(c)) \in Int
  BY SumsFinite
<1>4. CASE new.customer # c
  <2>1. Paid(c)' = Paid(c)
    BY <1>1, <1>4 DEF Paid
  <2> QED BY <1>3, <1>4, <2>1
<1>5. CASE new.customer = c
  <2>1. /\ n + 1 \notin DOMAIN Paid(c)
        /\ DOMAIN Paid(c)' = DOMAIN Paid(c) \cup {n + 1}
        /\ \A i \in DOMAIN Paid(c) : Paid(c)'[i] = Paid(c)[i]
        /\ Paid(c)'[n + 1] = new.monto
    BY <1>1, <1>5 DEF Paid
  <2>2. new.monto \in Int
    BY DEF CustomerPayment
  <2> QED BY <1>2, <1>5, <2>1, <2>2, SumWithOneMore
<1> QED BY <1>4, <1>5

\* A payment of c that is cancelled is one term less.
LEMMA PaidLess ==
  ASSUME AccountsTypeOK, SalesTypeOK, NEW r \in DOMAIN payments, ~ payments[r].cancelado,
         payments' = [payments EXCEPT ![r].cancelado = TRUE], NEW c \in Customer
  PROVE  SumFunction(Paid(c)) =
           SumFunction(Paid(c)') + (IF payments[r].customer = c THEN payments[r].monto ELSE 0)
<1>1. /\ payments' \in Seq(CustomerPayment) /\ Len(payments) \in Nat
      /\ Len(payments') = Len(payments)
      /\ r \in 1..Len(payments) /\ payments[r] \in CustomerPayment
      /\ payments'[r].customer = payments[r].customer
      /\ payments'[r].cancelado
      /\ \A x \in 1..Len(payments) : x # r => payments'[x] = payments[x]
  BY PaymentCancelled
<1>2. DOMAIN payments = 1..Len(payments) /\ DOMAIN payments' = 1..Len(payments)
  BY <1>1 DEF AccountsTypeOK
<1>3. IsFiniteSet(DOMAIN Paid(c)) /\ \A i \in DOMAIN Paid(c) : Paid(c)[i] \in Int
  BY SumsFinite
<1>4. SumFunction(Paid(c)) \in Int
  BY SumsFinite
<1>5. payments[r].monto \in Int
  BY <1>1 DEF CustomerPayment
<1>6. CASE payments[r].customer # c
  <2>1. Paid(c)' = Paid(c)
    BY <1>1, <1>2, <1>6 DEF Paid
  <2> QED BY <1>4, <1>6, <2>1
<1>7. CASE payments[r].customer = c
  <2>1. /\ r \notin DOMAIN Paid(c)'
        /\ DOMAIN Paid(c) = DOMAIN Paid(c)' \cup {r}
        /\ \A i \in DOMAIN Paid(c)' : Paid(c)'[i] = Paid(c)[i]
        /\ Paid(c)[r] = payments[r].monto
    BY <1>1, <1>2, <1>7 DEF Paid
  <2>2. IsFiniteSet(DOMAIN Paid(c)')
    BY <1>3, <2>1, FS_Subset
  <2>3. \A i \in DOMAIN Paid(c)' : Paid(c)'[i] \in Int
    BY <1>3, <2>1
  <2> QED BY <1>5, <1>7, <2>1, <2>2, <2>3, SumWithOneMore
<1> QED BY <1>6, <1>7

\* addMovement() moves the balance of one customer by its charge and its payment,
\* and by what its row is off; no other customer's.
LEMMA DriftMoved ==
  ASSUME AccountsTypeOK, SalesTypeOK, NEW c0 \in Customer, NEW tipo \in AccountMovementType,
         NEW cargo \in Nat, NEW abono \in Nat, NEW nuevo \in Int, NEW referencia \in Nat,
         Move(c0, tipo, cargo, abono, nuevo, referencia), NEW c \in Customer
  PROVE  /\ SumFunction(Drift(c)') \in Int
         /\ balance'[c] - SumFunction(Drift(c)') =
              balance[c] - SumFunction(Drift(c)) + (IF c = c0 THEN cargo - abono ELSE 0)
<1> DEFINE row == AccountRow(c0, tipo, cargo, abono, nuevo, referencia)
           n == Len(account[c])
<1>1. row \in AccountMovement
  BY MoveTyped
<1>2. RowDrift(row) = nuevo - (balance[c0] + cargo - abono)
  BY DEF AccountRow, RowDrift
<1>3. account[c] \in Seq(AccountMovement) /\ n \in Nat /\ balance[c] \in Int
  BY AccountsAssumption DEF AccountsTypeOK
<1>4. IsFiniteSet(DOMAIN Drift(c)) /\ \A k \in DOMAIN Drift(c) : Drift(c)[k] \in Int
  BY SumsFinite
<1>5. SumFunction(Drift(c)) \in Int
  BY SumsFinite
<1>6. CASE c # c0
  <2>1. account'[c] = account[c] /\ balance'[c] = balance[c]
    BY <1>6 DEF Move, AccountsTypeOK
  <2>2. Drift(c)' = Drift(c)
    BY <2>1 DEF Drift, RowDrift
  <2> QED BY <1>3, <1>5, <1>6, <2>1, <2>2
<1>7. CASE c = c0
  <2>1. account'[c] = Append(account[c], row) /\ balance'[c] = nuevo
    BY <1>7 DEF Move, AccountsTypeOK
  <2> HIDE DEF row
  <2>2. /\ account'[c] \in Seq(AccountMovement)
        /\ Len(account'[c]) = n + 1 /\ account'[c][n + 1] = row
        /\ \A k \in 1..n : account'[c][k] = account[c][k]
    BY <1>1, <1>3, <2>1, AppendProperties
  <2>3. DOMAIN account[c] = 1..n /\ DOMAIN account'[c] = 1..(n + 1)
    BY <1>3, <2>2
  <2>4. /\ n + 1 \notin DOMAIN Drift(c)
        /\ DOMAIN Drift(c)' = DOMAIN Drift(c) \cup {n + 1}
        /\ \A k \in DOMAIN Drift(c) : Drift(c)'[k] = Drift(c)[k]
        /\ Drift(c)'[n + 1] = RowDrift(row)
    BY <1>3, <2>2, <2>3, SMTT(60) DEF Drift, RowDrift
  <2>5. RowDrift(row) \in Int
    BY <1>2, <1>3, <1>7
  <2>6. SumFunction(Drift(c)') = SumFunction(Drift(c)) + RowDrift(row)
    BY <1>4, <2>4, <2>5, SumWithOneMore
  <2> QED BY <1>2, <1>3, <1>5, <1>7, <2>1, <2>5, <2>6, SMTT(60)
<1> QED BY <1>6, <1>7

-----------------------------------------------------------------------------
\* The directions hold if the differences of a transaction go the way of its kind.
LEMMA DirectionOfRows ==
  ASSUME InventoryTypeOK, MovementDirection, NEW S \in SUBSET Product, NEW delta,
         NEW tipo \in MovementType, NEW referencia \in Nat,
         RowsAdded(S, delta, tipo, referencia),
         \A p \in S : Directed(tipo, delta[p])
  PROVE  MovementDirection'
<1>1. ASSUME NEW p \in Product
      PROVE  \/ movements'[p] = movements[p]
             \/ \E row \in InventoryMovement :
                   /\ movements'[p] = Append(movements[p], row)
                   /\ Directed(row.tipo, row.cantidad)
  <2>1. CASE p \in S
    <3>1. PICK row \in InventoryMovement :
            /\ movements'[p] = Append(movements[p], row)
            /\ row.tipo = tipo /\ row.cantidad = delta[p]
      BY <2>1 DEF RowsAdded
    <3>2. Directed(row.tipo, row.cantidad)
      BY <2>1, <3>1
    <3> QED BY <3>1, <3>2
  <2>2. CASE p \notin S
    BY <2>2 DEF RowsAdded
  <2> QED BY <2>1, <2>2
<1> QED BY <1>1, DirectionKept

\* The quantities of a sale go out when it is made and come back when it is cancelled.
LEMMA QuantitiesDirected ==
  ASSUME NEW q \in Quantities
  PROVE  \E S \in SUBSET Product :
            /\ q \in [S -> Int] /\ Taken(q) \in [S -> Int]
            /\ \A p \in S : Directed("VENTA", Taken(q)[p])
            /\ \A p \in S : Directed("CANCELACION_VENTA", q[p])
<1>1. PICK S \in (SUBSET Product) \ {{}} : q \in [S -> Quantity]
  BY DEF Quantities
<1>2. \A n \in Quantity : n \in Int /\ n > 0
  BY InventoryAssumption DEF Quantity
<1>3. q \in [S -> Int] /\ \A p \in S : q[p] \in Int /\ q[p] > 0
  BY <1>1, <1>2
<1>4. Taken(q) \in [S -> Int] /\ \A p \in S : Taken(q)[p] = - q[p]
  BY <1>3 DEF Taken
<1>5. \A p \in S : Directed("VENTA", Taken(q)[p])
  BY <1>3, <1>4 DEF Directed
<1>6. \A p \in S : Directed("CANCELACION_VENTA", q[p])
  BY <1>3 DEF Directed
<1> QED BY <1>1, <1>3, <1>4, <1>5, <1>6

\* What create() does, with the sale it makes.
Sold(new) ==
  /\ new \in Sale
  /\ new.estatus = "COMPLETADA"
  /\ new.folio = Cardinality(SalesOf(new.business)) + 1
  /\ new.details \in Quantities
  /\ new.customer # NoCustomer => BusinessOf[new.customer] = new.business
  /\ \A p \in DOMAIN new.details : BusinessOf[p] = new.business
  /\ sales' = Append(sales, new)
  /\ Change(Taken(new.details), "VENTA", Len(sales) + 1)
  /\ \/ new.saldoPendiente = 0 /\ UNCHANGED accountsVars
     \/ /\ new.saldoPendiente > 0
        /\ new.customer \in Customer
        /\ AddMovement(new.customer, "VENTA_CREDITO", new.saldoPendiente, 0, Len(sales) + 1)
        /\ UNCHANGED <<customers, payments>>

\* create() makes such a sale.
LEMMA CreateSells ==
  ASSUME SalesTypeOK, NEW b \in Business, NEW c \in Customer \cup {NoCustomer},
         NEW q \in Quantities, Create(b, c, q)
  PROVE  \E new : Sold(new)
<1>1. PICK total \in Totals, tipoPago \in PaymentType, pagoInicial \in Totals :
        LET inicial == Initial(tipoPago, total, pagoInicial)
            id == Len(sales) + 1
        IN /\ CustomerFound(b, c)
           /\ ProductsFound(b, q)
           /\ ValidPayment(c, tipoPago, total, inicial)
           /\ sales' = Append(sales, NewSale(b, c, q, total, inicial, NextFolio(b)))
           /\ Change(Taken(q), "VENTA", id)
           /\ ChargePending(c, total - inicial, id)
  BY DEF Create
<1> DEFINE inicial == Initial(tipoPago, total, pagoInicial)
           new == NewSale(b, c, q, total, inicial, NextFolio(b))
<1>2. total \in Nat /\ inicial \in Nat /\ total - inicial \in Nat
  BY <1>1, SalesAssumption DEF ValidPayment
<1>3. total - inicial # 0 => c \in Customer
  BY <1>1, <1>2 DEF ValidPayment, Initial, PaymentType
<1>4. /\ CustomerFound(b, c)
      /\ ProductsFound(b, q)
      /\ sales' = Append(sales, new)
      /\ Change(Taken(q), "VENTA", Len(sales) + 1)
      /\ ChargePending(c, total - inicial, Len(sales) + 1)
  BY <1>1
<1> HIDE DEF inicial
<1>5. new \in Sale
  BY <1>2, FolioTyped DEF NewSale, Sale
<1>6. /\ new.estatus = "COMPLETADA" /\ new.folio = NextFolio(b) /\ new.business = b
      /\ new.details = q /\ new.customer = c /\ new.saldoPendiente = total - inicial
  BY DEF NewSale
<1> HIDE DEF new
<1>7. /\ new.customer # NoCustomer => BusinessOf[new.customer] = new.business
      /\ \A p \in DOMAIN new.details : BusinessOf[p] = new.business
  BY <1>4, <1>6 DEF CustomerFound, ProductsFound
<1>8. new.folio = Cardinality(SalesOf(new.business)) + 1
  BY <1>6 DEF NextFolio
<1>9. CASE new.saldoPendiente = 0
  <2>1. UNCHANGED accountsVars
    BY <1>4, <1>6, <1>9 DEF ChargePending
  <2> QED BY <1>4, <1>5, <1>6, <1>7, <1>8, <1>9, <2>1 DEF Sold
<1>10. CASE new.saldoPendiente # 0
  <2>1. /\ AddMovement(new.customer, "VENTA_CREDITO", new.saldoPendiente, 0, Len(sales) + 1)
        /\ UNCHANGED <<customers, payments>>
    BY <1>4, <1>6, <1>10 DEF ChargePending
  <2>2. new.saldoPendiente > 0 /\ new.customer \in Customer
    BY <1>2, <1>3, <1>6, <1>10
  <2> QED BY <1>4, <1>5, <1>6, <1>7, <1>8, <2>1, <2>2 DEF Sold
<1> QED BY <1>9, <1>10

-----------------------------------------------------------------------------
(***************************************************************************)
(* The inductive invariant of the ledger.  The three "told" properties are *)
(* about every number a sale or a payment may ever get, so that no row     *)
(* waits for a sale that is still to come; SalesOfTenant is what the       *)
(* isolation of the rows follows from.                                     *)
(***************************************************************************)
LInv ==
  /\ IInv
  /\ SalesTold /\ SalesCharged /\ PaymentsTold
  /\ SalesOfTenant /\ FoliosGapless /\ MovementDirection /\ DebtExplained

\* Nothing is recorded at first, and nothing is owed.
LEMMA LedgerInit == Init => LInv
<1> SUFFICES ASSUME Init PROVE LInv
  OBVIOUS
<1>1. IInv
  BY InitHolds
<1>2. /\ \A p \in Product : movements[p] = <<>> /\ Len(movements[p]) = 0
      /\ \A c \in Customer : account[c] = <<>> /\ Len(account[c]) = 0 /\ balance[c] = 0
      /\ sales = <<>> /\ Len(sales) = 0 /\ DOMAIN sales = {}
      /\ payments = <<>> /\ Len(payments) = 0 /\ DOMAIN payments = {}
  BY EmptySeq DEF Init, InventoryInit, AccountsInit
<1>3. SalesTold
  <2>1. \A p \in Product : \A tipo, s : MovementsOf(p, tipo, s) = {}
    BY <1>2 DEF MovementsOf
  <2> QED BY <1>2, <2>1 DEF SalesTold, SaleTold
<1>4. SalesCharged /\ PaymentsTold
  <2>1. \A c \in Customer : \A tipo, s : Rows(c, tipo, s) = {}
    BY <1>2 DEF Rows
  <2> QED BY <1>2, <2>1 DEF SalesCharged, SaleCharged, PaymentsTold, PaymentTold
<1>5. SalesOfTenant /\ FoliosGapless /\ MovementDirection
  BY <1>2 DEF SalesOfTenant, FoliosGapless, MovementDirection
<1>6. DebtExplained
  <2> SUFFICES ASSUME NEW c \in Customer
               PROVE  balance[c] = SumFunction(Charged(c)) - SumFunction(Paid(c))
                                     + SumFunction(Drift(c))
    BY DEF DebtExplained
  <2>1. DOMAIN Charged(c) = {} /\ DOMAIN Paid(c) = {} /\ DOMAIN Drift(c) = {}
    BY <1>2 DEF Charged, Paid, Drift
  <2>2. SumFunction(Charged(c)) = 0 /\ SumFunction(Paid(c)) = 0 /\ SumFunction(Drift(c)) = 0
    BY <2>1, SumEmpty DEF SumFunction
  <2> QED BY <1>2, <2>2
<1> QED BY <1>1, <1>3, <1>4, <1>5, <1>6 DEF LInv

\* addMovement() leaves every balance a number.
LEMMA BalancesStayNumbers ==
  ASSUME NEW c, NEW tipo, NEW cargo, NEW abono, NEW nuevo, NEW referencia,
         AccountsTypeOK, Move(c, tipo, cargo, abono, nuevo, referencia)
  PROVE  \A x \in Customer : balance'[x] \in Int
<1>1. balance \in [Customer -> 0..BalanceLimit] /\ nuevo \in 0..BalanceLimit
      /\ balance' = [balance EXCEPT ![c] = nuevo]
  BY DEF AccountsTypeOK, Move, CanMove
<1>2. balance' \in [Customer -> 0..BalanceLimit]
  BY <1>1
<1> QED BY <1>2, AccountsAssumption

\* create() keeps the ledger.
LEMMA LedgerOfNew ==
  ASSUME LInv, NEW new, Sold(new)
  PROVE  /\ SalesTold' /\ SalesCharged' /\ PaymentsTold'
         /\ SalesOfTenant' /\ FoliosGapless' /\ MovementDirection' /\ DebtExplained'
<1> USE DEF LInv, IInv, TypeOK
<1>1. /\ new \in Sale /\ new.estatus = "COMPLETADA" /\ new.details \in Quantities
      /\ new.saldoPendiente \in Nat /\ sales' = Append(sales, new)
  BY DEF Sold, Sale
<1>2. Len(sales) + 1 \in Nat
  BY DEF SalesTypeOK
<1>3. PICK S \in SUBSET Product :
        /\ new.details \in [S -> Int] /\ Taken(new.details) \in [S -> Int]
        /\ \A p \in S : Directed("VENTA", Taken(new.details)[p])
  BY <1>1, QuantitiesDirected
<1>4. RowsAdded(S, Taken(new.details), "VENTA", Len(sales) + 1)
  <2>1. "VENTA" \in MovementType
    BY DEF MovementType
  <2>2. /\ CanChange(Taken(new.details))
        /\ movements' = Recorded(Taken(new.details), "VENTA", Len(sales) + 1)
    BY DEF Sold, Change
  <2> QED BY <1>2, <1>3, <2>1, <2>2, ChangeAddsRows
<1>5. SalesTold'
  BY <1>1, <1>2, <1>3, <1>4, ToldOfNew
<1>6. MovementDirection'
  BY <1>2, <1>3, <1>4, DirectionOfRows DEF MovementType
<1>7. FoliosGapless'
  BY <1>1, FoliosOfNew DEF Sold
<1>8. SalesOfTenant'
  BY <1>1, TenantOfNew DEF Sold
<1>9. UNCHANGED payments
  BY DEF Sold, accountsVars
<1>10. CASE new.saldoPendiente = 0 /\ UNCHANGED accountsVars
  <2>1. UNCHANGED <<balance, account, payments>>
    BY <1>10 DEF accountsVars
  <2>2. SalesCharged'
    BY <1>1, <1>2, <1>10, <2>1, ChargedOfNew
  <2>3. PaymentsTold'
    BY <2>1, PaymentsKept
  <2>4. ASSUME NEW c \in Customer
        PROVE  balance'[c] = SumFunction(Charged(c)') - SumFunction(Paid(c)')
                               + SumFunction(Drift(c)')
    <3>1. SumFunction(Charged(c)') = SumFunction(Charged(c)) + 0
      BY <1>1, <1>10, ChargedMore
    <3>2. Paid(c)' = Paid(c) /\ Drift(c)' = Drift(c)
      BY <2>1 DEF Paid, Drift, RowDrift
    <3>3. SumFunction(Charged(c)) \in Int
      BY SumsFinite
    <3> QED BY <2>1, <3>1, <3>2, <3>3 DEF DebtExplained
  <2> QED BY <1>5, <1>6, <1>7, <1>8, <2>2, <2>3, <2>4 DEF DebtExplained
<1>11. CASE /\ new.saldoPendiente > 0
            /\ new.customer \in Customer
            /\ AddMovement(new.customer, "VENTA_CREDITO", new.saldoPendiente, 0, Len(sales) + 1)
  <2> DEFINE c0 == new.customer
             debt == new.saldoPendiente
             nuevo == balance[c0] + debt - 0
  <2>1. /\ Move(c0, "VENTA_CREDITO", debt, 0, nuevo, Len(sales) + 1)
        /\ nuevo \in Int /\ debt \in Nat /\ 0 \in Nat /\ c0 \in Customer
        /\ "VENTA_CREDITO" \in AccountMovementType
    BY <1>1, <1>11, AccountsAssumption DEF AddMovement, AccountsTypeOK, AccountMovementType
  <2> HIDE DEF nuevo
  <2>2. RowWritten(c0, "VENTA_CREDITO", debt, 0, Len(sales) + 1)
    BY <1>2, <2>1, MoveWritesRow
  <2>3. SalesCharged'
    BY <1>1, <1>2, <1>11, <2>2, ChargedOfNew
  <2>4. PaymentsTold'
    BY <1>2, <1>9, <2>1, <2>2, PaymentsKept
  <2>5. ASSUME NEW c \in Customer
        PROVE  balance'[c] = SumFunction(Charged(c)') - SumFunction(Paid(c)')
                               + SumFunction(Drift(c)')
    <3>1. SumFunction(Charged(c)') = SumFunction(Charged(c)) + (IF c0 = c THEN debt ELSE 0)
      BY <1>1, ChargedMore
    <3>2. /\ SumFunction(Drift(c)') \in Int
          /\ balance'[c] - SumFunction(Drift(c)') =
               balance[c] - SumFunction(Drift(c)) + (IF c = c0 THEN debt - 0 ELSE 0)
      BY <1>2, <2>1, DriftMoved
    <3>3. Paid(c)' = Paid(c)
      BY <1>9 DEF Paid
    <3>4. /\ SumFunction(Charged(c)) \in Int /\ SumFunction(Paid(c)) \in Int
          /\ SumFunction(Drift(c)) \in Int
      BY SumsFinite
    <3>5. balance[c] = SumFunction(Charged(c)) - SumFunction(Paid(c)) + SumFunction(Drift(c))
      BY DEF DebtExplained
    <3>6. balance'[c] \in Int
      BY <2>1, BalancesStayNumbers
    <3> QED BY <2>1, <3>1, <3>2, <3>3, <3>4, <3>5, <3>6, SMTT(60)
  <2> QED BY <1>5, <1>6, <1>7, <1>8, <2>3, <2>4, <2>5 DEF DebtExplained
<1> QED BY <1>10, <1>11 DEF Sold

\* cancel() keeps the ledger.
LEMMA LedgerOfCancelled ==
  ASSUME LInv, NEW r \in DOMAIN sales, Cancel(r)
  PROVE  /\ SalesTold' /\ SalesCharged' /\ PaymentsTold'
         /\ SalesOfTenant' /\ FoliosGapless' /\ MovementDirection' /\ DebtExplained'
<1> USE DEF LInv, IInv, TypeOK
<1>1. /\ sales[r].estatus # "CANCELADA"
      /\ sales' = [sales EXCEPT ![r].estatus = "CANCELADA"]
      /\ Change(sales[r].details, "CANCELACION_VENTA", r)
      /\ CreditPending(r)
  BY DEF Cancel
<1>2. /\ r \in Nat /\ sales[r] \in Sale /\ sales[r].details \in Quantities
      /\ sales[r].saldoPendiente \in Nat
  <2>1. r \in Nat /\ sales[r] \in Sale
    BY DEF SalesTypeOK
  <2> QED BY <2>1 DEF Sale
<1>3. PICK S \in SUBSET Product :
        /\ sales[r].details \in [S -> Int]
        /\ \A p \in S : Directed("CANCELACION_VENTA", sales[r].details[p])
  BY <1>2, QuantitiesDirected
<1>4. RowsAdded(S, sales[r].details, "CANCELACION_VENTA", r)
  <2>1. "CANCELACION_VENTA" \in MovementType
    BY DEF MovementType
  <2>2. /\ CanChange(sales[r].details)
        /\ movements' = Recorded(sales[r].details, "CANCELACION_VENTA", r)
    BY <1>1 DEF Change
  <2> QED BY <1>2, <1>3, <2>1, <2>2, ChangeAddsRows
<1>5. SalesTold'
  BY <1>1, <1>3, <1>4, ToldOfCancelled
<1>6. MovementDirection'
  BY <1>2, <1>3, <1>4, DirectionOfRows DEF MovementType
<1>7. FoliosGapless'
  BY <1>1, FoliosOfCancelled
<1>8. SalesOfTenant'
  BY <1>1, TenantOfCancelled
<1>9. UNCHANGED payments /\ SalesTypeOK'
  <2>1. sales' \in Seq(Sale)
    BY <1>1, SaleCancelled
  <2> QED BY <1>1, <2>1 DEF CreditPending, accountsVars, Cancel, SalesTypeOK
<1>10. CASE ~ sales[r].saldoPendiente > 0
  <2>1. UNCHANGED <<balance, account, payments>> /\ sales[r].saldoPendiente = 0
    BY <1>1, <1>2, <1>10 DEF accountsVars, CreditPending
  <2>2. SalesCharged'
    BY <1>1, <2>1, ChargedOfCancelled
  <2>3. PaymentsTold'
    BY <2>1, PaymentsKept
  <2>4. ASSUME NEW c \in Customer
        PROVE  balance'[c] = SumFunction(Charged(c)') - SumFunction(Paid(c)')
                               + SumFunction(Drift(c)')
    <3>1. SumFunction(Charged(c)) =
            SumFunction(Charged(c)') + (IF sales[r].customer = c THEN sales[r].saldoPendiente ELSE 0)
      BY <1>1, <1>9, ChargedLess
    <3>2. Paid(c)' = Paid(c) /\ Drift(c)' = Drift(c)
      BY <2>1 DEF Paid, Drift, RowDrift
    <3>3. SumFunction(Charged(c)') \in Int
      BY <1>9, ChargedNextTyped
    <3> QED BY <2>1, <3>1, <3>2, <3>3 DEF DebtExplained
  <2> QED BY <1>5, <1>6, <1>7, <1>8, <2>2, <2>3, <2>4 DEF DebtExplained
<1>11. CASE sales[r].saldoPendiente > 0
  <2> DEFINE c0 == sales[r].customer
             debt == sales[r].saldoPendiente
             nuevo == balance[c0] + 0 - debt
  <2>1. /\ Move(c0, "CANCELACION_VENTA", 0, debt, nuevo, r)
        /\ nuevo \in Int /\ debt \in Nat /\ 0 \in Nat /\ c0 \in Customer
        /\ "CANCELACION_VENTA" \in AccountMovementType
    BY <1>1, <1>2, <1>11, AccountsAssumption
    DEF CreditPending, AddMovement, AccountsTypeOK, AccountMovementType, CreditHasCustomer
  <2> HIDE DEF nuevo
  <2>2. RowWritten(c0, "CANCELACION_VENTA", 0, debt, r)
    BY <1>2, <2>1, MoveWritesRow
  <2>3. SalesCharged'
    BY <1>1, <1>11, <2>2, ChargedOfCancelled
  <2>4. PaymentsTold'
    BY <1>2, <1>9, <2>1, <2>2, PaymentsKept
  <2>5. ASSUME NEW c \in Customer
        PROVE  balance'[c] = SumFunction(Charged(c)') - SumFunction(Paid(c)')
                               + SumFunction(Drift(c)')
    <3>1. SumFunction(Charged(c)) = SumFunction(Charged(c)') + (IF c0 = c THEN debt ELSE 0)
      BY <1>1, <1>9, ChargedLess
    <3>2. /\ SumFunction(Drift(c)') \in Int
          /\ balance'[c] - SumFunction(Drift(c)') =
               balance[c] - SumFunction(Drift(c)) + (IF c = c0 THEN 0 - debt ELSE 0)
      BY <1>2, <2>1, DriftMoved
    <3>3. Paid(c)' = Paid(c)
      BY <1>9 DEF Paid
    <3>4. /\ SumFunction(Charged(c)) \in Int /\ SumFunction(Paid(c)) \in Int
          /\ SumFunction(Drift(c)) \in Int /\ SumFunction(Charged(c)') \in Int
      BY <1>9, SumsFinite, ChargedNextTyped
    <3>5. balance[c] = SumFunction(Charged(c)) - SumFunction(Paid(c)) + SumFunction(Drift(c))
      BY DEF DebtExplained
    <3>6. balance'[c] \in Int
      BY <1>2, <2>1, BalancesStayNumbers
    <3> QED BY <2>1, <3>1, <3>2, <3>3, <3>4, <3>5, <3>6
  <2> QED BY <1>5, <1>6, <1>7, <1>8, <2>3, <2>4, <2>5 DEF DebtExplained
<1> QED BY <1>10, <1>11

\* A step that leaves the sales and the stock alone leaves these parts alone.
LEMMA LedgerOfSalesStays ==
  ASSUME LInv, UNCHANGED <<movements, sales>>
  PROVE  SalesTold' /\ SalesOfTenant' /\ FoliosGapless' /\ MovementDirection'
<1>1. SalesTold'
  BY ToldKept DEF LInv, IInv, TypeOK
<1>2. SalesOfTenant' /\ FoliosGapless'
  BY DEF LInv, SalesOfTenant, FoliosGapless, SalesOf
<1>3. MovementDirection'
  BY DEF LInv, MovementDirection, Directed
<1> QED BY <1>1, <1>2, <1>3

\* An entry and an adjustment change one product's stock by some difference.
LEMMA InventoryChanges ==
  ASSUME NEW p \in Product, Entry(p) \/ Adjustment(p)
  PROVE  \E d \in Int, tipo \in MovementType :
            /\ Change([x \in {p} |-> d], tipo, 0)
            /\ tipo \notin {"VENTA", "CANCELACION_VENTA"}
            /\ Directed(tipo, d)
<1>1. \A n \in Quantity : n \in Int /\ n > 0
  BY InventoryAssumption DEF Quantity
<1>2. CASE Entry(p)
  <2>1. PICK n \in Quantity : Change([x \in {p} |-> n], "ENTRADA", 0)
    BY <1>2 DEF Entry
  <2>2. Directed("ENTRADA", n) /\ n \in Int
    BY <1>1 DEF Directed
  <2> QED BY <2>1, <2>2 DEF MovementType
<1>3. CASE Adjustment(p)
  <2>1. PICK word \in {"POSITIVO", "NEGATIVO", "otro"}, n \in Quantity \cup {0} :
          Change([x \in {p} |-> AdjustmentDelta(word, n)],
                 IF word = "POSITIVO" THEN "AJUSTE_POSITIVO" ELSE "AJUSTE_NEGATIVO", 0)
    BY <1>3 DEF Adjustment
  <2>2. n \in Int /\ n >= 0
    BY <1>1
  <2>3. CASE word = "POSITIVO"
    <3>1. Change([x \in {p} |-> n], "AJUSTE_POSITIVO", 0)
      BY <2>1, <2>3 DEF AdjustmentDelta
    <3>2. Directed("AJUSTE_POSITIVO", n)
      BY <2>2 DEF Directed
    <3> QED BY <2>2, <3>1, <3>2 DEF MovementType
  <2>4. CASE word # "POSITIVO"
    <3>1. Change([x \in {p} |-> -n], "AJUSTE_NEGATIVO", 0)
      BY <2>1, <2>4 DEF AdjustmentDelta
    <3>2. -n \in Int /\ Directed("AJUSTE_NEGATIVO", -n)
      BY <2>2 DEF Directed
    <3> QED BY <3>1, <3>2 DEF MovementType
  <2> QED BY <2>3, <2>4
<1> QED BY <1>2, <1>3

\* createPayment() moves the balance and records the payment.
LEMMA PaymentMoves ==
  ASSUME AccountsTypeOK, NEW c \in Customer, CreatePayment(c)
  PROVE  \E monto \in Nat, nuevo \in Int :
            /\ Move(c, "ABONO", 0, monto, nuevo, Len(payments) + 1)
            /\ payments' = Append(payments, [customer |-> c, monto |-> monto, cancelado |-> FALSE])
<1>1. PICK half \in PaymentAmounts :
      \E monto \in Rounded(half), nuevo \in Rounded(2 * balance[c] - half) :
        /\ Move(c, "ABONO", 0, monto, nuevo, Len(payments) + 1)
        /\ payments' = Append(payments, [customer |-> c, monto |-> monto, cancelado |-> FALSE])
  BY DEF CreatePayment
<1>2. PICK monto \in Rounded(half), nuevo \in Rounded(2 * balance[c] - half) :
        /\ Move(c, "ABONO", 0, monto, nuevo, Len(payments) + 1)
        /\ payments' = Append(payments, [customer |-> c, monto |-> monto, cancelado |-> FALSE])
  BY <1>1
<1>3. half \in Nat /\ balance[c] \in Nat
  BY AccountsAssumption DEF AccountsTypeOK
<1>4. monto \in Nat /\ nuevo \in Int
  BY <1>3, RoundedApart
<1> QED BY <1>2, <1>4

\* createPayment() records the payment in the account, and no sale there.
LEMMA PaymentRecorded ==
  ASSUME AccountsTypeOK, SalesCharged, PaymentsTold, UNCHANGED sales,
         NEW c \in Customer, NEW monto \in Nat, NEW nuevo \in Int,
         Move(c, "ABONO", 0, monto, nuevo, Len(payments) + 1),
         payments' = Append(payments, [customer |-> c, monto |-> monto, cancelado |-> FALSE])
  PROVE  /\ RowWritten(c, "ABONO", 0, monto, Len(payments) + 1)
         /\ [customer |-> c, monto |-> monto, cancelado |-> FALSE] \in CustomerPayment
         /\ SalesCharged' /\ PaymentsTold'
<1>1. /\ "ABONO" \in AccountMovementType /\ Len(payments) + 1 \in Nat /\ 0 \in Nat
      /\ "ABONO" \in {"ABONO", "CANCELACION_ABONO"}
  BY DEF AccountMovementType, AccountsTypeOK
<1> DEFINE new == [customer |-> c, monto |-> monto, cancelado |-> FALSE]
<1>2. /\ new \in CustomerPayment /\ ~ new.cancelado /\ new.customer = c /\ new.monto = monto
  BY DEF CustomerPayment
<1>3. payments' = Append(payments, new)
  OBVIOUS
<1> HIDE DEF new
<1>4. RowWritten(c, "ABONO", 0, monto, Len(payments) + 1)
  BY <1>1, MoveWritesRow
<1>5. SalesCharged'
  BY <1>1, <1>4, ChargedKept
<1>6. PaymentsTold'
  BY <1>1, <1>2, <1>3, <1>4, PaymentsOfNew
<1> QED BY <1>2, <1>4, <1>5, <1>6 DEF new

\* cancelPayment() records the return of the payment, and no sale.
LEMMA CancelledPaymentRecorded ==
  ASSUME AccountsTypeOK, SalesCharged, PaymentsTold, UNCHANGED sales,
         NEW r \in DOMAIN payments, CancelPayment(r)
  PROVE  /\ r \in Nat /\ payments[r].customer \in Customer /\ payments[r].monto \in Nat
         /\ Move(payments[r].customer, "CANCELACION_ABONO", payments[r].monto, 0,
                 balance[payments[r].customer] + payments[r].monto - 0, r)
         /\ balance[payments[r].customer] + payments[r].monto - 0 \in Int
         /\ RowWritten(payments[r].customer, "CANCELACION_ABONO", payments[r].monto, 0, r)
         /\ payments' = [payments EXCEPT ![r].cancelado = TRUE]
         /\ payments' \in Seq(CustomerPayment)
         /\ SalesCharged' /\ PaymentsTold'
<1> DEFINE c0 == payments[r].customer
           monto == payments[r].monto
           nuevo == balance[c0] + monto - 0
<1>1. /\ ~ payments[r].cancelado
      /\ payments' = [payments EXCEPT ![r].cancelado = TRUE]
      /\ AddMovement(c0, "CANCELACION_ABONO", monto, 0, r)
  BY DEF CancelPayment
<1>2. r \in Nat /\ c0 \in Customer /\ monto \in Nat
  <2>1. r \in Nat /\ payments[r] \in CustomerPayment
    BY DEF AccountsTypeOK
  <2> QED BY <2>1 DEF CustomerPayment
<1>3. /\ Move(c0, "CANCELACION_ABONO", monto, 0, nuevo, r)
      /\ nuevo \in Int /\ 0 \in Nat
      /\ "CANCELACION_ABONO" \in AccountMovementType
      /\ "CANCELACION_ABONO" \in {"ABONO", "CANCELACION_ABONO"}
  BY <1>1, <1>2, AccountsAssumption DEF AddMovement, AccountsTypeOK, AccountMovementType
<1> HIDE DEF nuevo
<1>4. RowWritten(c0, "CANCELACION_ABONO", monto, 0, r)
  BY <1>2, <1>3, MoveWritesRow
<1>5. SalesCharged'
  BY <1>2, <1>3, <1>4, ChargedKept
<1>6. PaymentsTold'
  BY <1>1, <1>4, PaymentsOfCancelled
<1>7. payments' \in Seq(CustomerPayment)
  BY <1>1, PaymentCancelled
<1> QED BY <1>1, <1>2, <1>3, <1>4, <1>5, <1>6, <1>7 DEF nuevo

\* createPayment() keeps the ledger: what its two roundings disagree by is in the
\* drift of its row.
LEMMA LedgerOfPayment ==
  ASSUME LInv, NEW c0 \in Customer, CreatePayment(c0), UNCHANGED <<movements, sales>>
  PROVE  SalesCharged' /\ PaymentsTold' /\ DebtExplained'
<1> USE DEF LInv, IInv, TypeOK
<1>1. PICK monto \in Nat, nuevo \in Int :
        /\ Move(c0, "ABONO", 0, monto, nuevo, Len(payments) + 1)
        /\ payments' = Append(payments, [customer |-> c0, monto |-> monto, cancelado |-> FALSE])
  BY PaymentMoves
<1>2. "ABONO" \in AccountMovementType /\ Len(payments) + 1 \in Nat /\ 0 \in Nat
  BY DEF AccountMovementType, AccountsTypeOK
<1> DEFINE new == [customer |-> c0, monto |-> monto, cancelado |-> FALSE]
<1>3. SalesCharged' /\ PaymentsTold' /\ new \in CustomerPayment
  BY <1>1, PaymentRecorded
<1>4. ~ new.cancelado /\ new.customer = c0 /\ new.monto = monto
  OBVIOUS
<1>5. payments' = Append(payments, new)
  BY <1>1
<1> HIDE DEF new
<1>6. ASSUME NEW c \in Customer
      PROVE  balance'[c] = SumFunction(Charged(c)') - SumFunction(Paid(c)')
                             + SumFunction(Drift(c)')
  <2>1. SumFunction(Paid(c)') = SumFunction(Paid(c)) + (IF c0 = c THEN monto ELSE 0)
    <3>1. SumFunction(Paid(c)') = SumFunction(Paid(c)) + (IF new.customer = c THEN new.monto ELSE 0)
      BY <1>3, <1>4, <1>5, PaidMore
    <3> QED BY <1>4, <3>1
  <2>2. /\ SumFunction(Drift(c)') \in Int
        /\ balance'[c] - SumFunction(Drift(c)') =
             balance[c] - SumFunction(Drift(c)) + (IF c = c0 THEN 0 - monto ELSE 0)
    BY <1>1, <1>2, DriftMoved
  <2>3. Charged(c)' = Charged(c)
    BY DEF Charged
  <2>4. /\ SumFunction(Charged(c)) \in Int /\ SumFunction(Paid(c)) \in Int
        /\ SumFunction(Drift(c)) \in Int
    BY SumsFinite
  <2>5. balance[c] = SumFunction(Charged(c)) - SumFunction(Paid(c)) + SumFunction(Drift(c))
    BY DEF DebtExplained
  <2>6. balance'[c] \in Int
    BY <1>1, <1>2, BalancesStayNumbers
  <2> QED BY <2>1, <2>2, <2>3, <2>4, <2>5, <2>6
<1> QED BY <1>3, <1>6 DEF DebtExplained

\* cancelPayment() keeps the ledger.
LEMMA LedgerOfCancelledPayment ==
  ASSUME LInv, NEW r \in DOMAIN payments, CancelPayment(r), UNCHANGED <<movements, sales>>
  PROVE  SalesCharged' /\ PaymentsTold' /\ DebtExplained'
<1> USE DEF LInv, IInv, TypeOK
<1> DEFINE c0 == payments[r].customer
           monto == payments[r].monto
           nuevo == balance[c0] + monto - 0
<1>1. /\ r \in Nat /\ c0 \in Customer /\ monto \in Nat /\ nuevo \in Int /\ 0 \in Nat
      /\ Move(c0, "CANCELACION_ABONO", monto, 0, nuevo, r)
  BY CancelledPaymentRecorded
<1>2. "CANCELACION_ABONO" \in AccountMovementType
  BY DEF AccountMovementType
<1>3. payments' \in Seq(CustomerPayment) /\ SalesCharged' /\ PaymentsTold'
  BY CancelledPaymentRecorded
<1>4. ~ payments[r].cancelado /\ payments' = [payments EXCEPT ![r].cancelado = TRUE]
  BY DEF CancelPayment
<1> HIDE DEF nuevo
<1>5. ASSUME NEW c \in Customer
      PROVE  balance'[c] = SumFunction(Charged(c)') - SumFunction(Paid(c)')
                             + SumFunction(Drift(c)')
  <2>1. SumFunction(Paid(c)) = SumFunction(Paid(c)') + (IF c0 = c THEN monto ELSE 0)
    BY <1>4, PaidLess
  <2>2. /\ SumFunction(Drift(c)') \in Int
        /\ balance'[c] - SumFunction(Drift(c)') =
             balance[c] - SumFunction(Drift(c)) + (IF c = c0 THEN monto - 0 ELSE 0)
    BY <1>1, <1>2, DriftMoved
  <2>3. Charged(c)' = Charged(c)
    BY DEF Charged
  <2>4. /\ SumFunction(Charged(c)) \in Int /\ SumFunction(Paid(c)) \in Int
        /\ SumFunction(Drift(c)) \in Int
    BY SumsFinite
  <2>5. SumFunction(Paid(c)') \in Int
    BY <1>3, PaidNextTyped
  <2>6. balance[c] = SumFunction(Charged(c)) - SumFunction(Paid(c)) + SumFunction(Drift(c))
    BY DEF DebtExplained
  <2>7. balance'[c] \in Int
    <3>1. AccountsTypeOK
      OBVIOUS
    <3> QED BY <1>1, <3>1, BalancesStayNumbers
  <2> QED BY <1>1, <2>1, <2>2, <2>3, <2>4, <2>5, <2>6, <2>7
<1> QED BY <1>3, <1>5 DEF DebtExplained

\* A step that leaves the accounts, the payments and the sales alone.
LEMMA LedgerOfAccountsStays ==
  ASSUME LInv, UNCHANGED <<balance, account, payments, sales>>
  PROVE  SalesCharged' /\ PaymentsTold' /\ DebtExplained'
<1>1. SalesCharged' /\ PaymentsTold'
  BY ChargedKept, PaymentsKept DEF LInv, IInv, TypeOK
<1>2. DebtExplained'
  BY DEF LInv, DebtExplained, Charged, Paid, Drift, RowDrift
<1> QED BY <1>1, <1>2

\* An entry and an adjustment name no sale, and go the way of their kind.
LEMMA InventoryRecorded ==
  ASSUME InventoryTypeOK, SalesTold, MovementDirection, UNCHANGED sales,
         NEW p0 \in Product, Entry(p0) \/ Adjustment(p0)
  PROVE  InventoryTypeOK' /\ SalesTold' /\ MovementDirection'
<1>1. PICK d \in Int, tipo \in MovementType :
        /\ Change([x \in {p0} |-> d], tipo, 0)
        /\ tipo \notin {"VENTA", "CANCELACION_VENTA"}
        /\ Directed(tipo, d)
  BY InventoryChanges
<1> DEFINE delta == [x \in {p0} |-> d]
<1>2. /\ {p0} \in SUBSET Product /\ delta \in [{p0} -> Int] /\ 0 \in Nat
      /\ \A p \in {p0} : Directed(tipo, delta[p])
  BY <1>1
<1>3. Change(delta, tipo, 0)
  BY <1>1
<1>4. CanChange(delta) /\ movements' = Recorded(delta, tipo, 0)
  BY <1>3 DEF Change
<1> HIDE DEF delta
<1>5. InventoryTypeOK'
  BY <1>2, <1>3, ChangeTyped
<1>6. RowsAdded({p0}, delta, tipo, 0)
  BY <1>2, <1>4, ChangeAddsRows
<1>7. MovementDirection'
  BY <1>2, <1>6, DirectionOfRows
<1>8. SalesTold'
  <2>1. ASSUME NEW p \in Product
        PROVE  \/ movements'[p] = movements[p]
               \/ \E row \in InventoryMovement :
                     /\ movements'[p] = Append(movements[p], row)
                     /\ row.tipo \notin {"VENTA", "CANCELACION_VENTA"}
    <3>1. CASE p \in {p0}
      <4>1. PICK row \in InventoryMovement :
              movements'[p] = Append(movements[p], row) /\ row.tipo = tipo
        BY <1>6, <3>1 DEF RowsAdded
      <4> QED BY <1>1, <4>1
    <3>2. CASE p \notin {p0}
      BY <1>6, <3>2 DEF RowsAdded
    <3> QED BY <3>1, <3>2
  <2> QED BY <2>1, ToldKept
<1> QED BY <1>5, <1>7, <1>8

\* An entry and an adjustment keep the ledger.
LEMMA LedgerOfInventory ==
  ASSUME LInv, NEW p0 \in Product, Entry(p0) \/ Adjustment(p0), UNCHANGED sales
  PROVE  SalesTold' /\ SalesOfTenant' /\ FoliosGapless' /\ MovementDirection'
<1>1. SalesTold' /\ MovementDirection'
  BY InventoryRecorded DEF LInv, IInv, TypeOK
<1>2. SalesOfTenant' /\ FoliosGapless'
  BY DEF LInv, SalesOfTenant, FoliosGapless, SalesOf
<1> QED BY <1>1, <1>2

\* Every step keeps the ledger.
LEMMA LedgerNext ==
  ASSUME LInv, [Next]_vars
  PROVE  LInv'
<1>1. IInv'
  BY NextHolds DEF LInv
<1>2. CASE UNCHANGED vars
  <2>1. UNCHANGED <<movements, balance, account, payments, sales>>
    BY <1>2 DEF vars, inventoryVars, accountsVars, salesVars
  <2> QED BY <1>1, <2>1, LedgerOfSalesStays, LedgerOfAccountsStays DEF LInv
<1>3. ASSUME NEW b \in Business, NEW c \in Customer \cup {NoCustomer},
             NEW quantities \in Quantities, Create(b, c, quantities)
      PROVE  LInv'
  <2>1. PICK new : Sold(new)
    BY <1>3, CreateSells DEF LInv, IInv, TypeOK
  <2> QED BY <1>1, <2>1, LedgerOfNew DEF LInv
<1>4. ASSUME NEW s \in DOMAIN sales, Cancel(s) PROVE LInv'
  BY <1>1, <1>4, LedgerOfCancelled DEF LInv
<1>5. ASSUME NEW p \in Product, StatusProduct(p) PROVE LInv'
  <2>1. UNCHANGED <<movements, balance, account, payments, sales>>
    BY <1>5 DEF StatusProduct, inventoryVars, accountsVars
  <2> QED BY <1>1, <2>1, LedgerOfSalesStays, LedgerOfAccountsStays DEF LInv
<1>6. ASSUME NEW p \in Product, InventoryStep(p) PROVE LInv'
  <2>1. (Entry(p) \/ Adjustment(p)) /\ UNCHANGED <<balance, account, payments, sales>>
    BY <1>6 DEF InventoryStep, accountsVars, salesVars
  <2> QED BY <1>1, <2>1, LedgerOfInventory, LedgerOfAccountsStays DEF LInv
<1>7. ASSUME NEW c \in Customer, CustomerStep(c) PROVE LInv'
  <2>1. UNCHANGED <<movements, sales>>
    BY <1>7 DEF CustomerStep, inventoryVars, salesVars
  <2>2. CASE CreatePayment(c)
    BY <1>1, <2>1, <2>2, LedgerOfSalesStays, LedgerOfPayment DEF LInv
  <2>3. CASE (\E activo \in BOOLEAN : UpdateCustomer(c, activo)) \/ DeleteCustomer(c)
    <3>1. UNCHANGED <<balance, account, payments>>
      BY <2>3 DEF UpdateCustomer, DeleteCustomer
    <3> QED BY <1>1, <2>1, <3>1, LedgerOfSalesStays, LedgerOfAccountsStays DEF LInv
  <2> QED BY <1>7, <2>2, <2>3 DEF CustomerStep
<1>8. ASSUME NEW i \in DOMAIN payments, PaymentStep(i) PROVE LInv'
  <2>1. CancelPayment(i) /\ UNCHANGED <<movements, sales>>
    BY <1>8 DEF PaymentStep, inventoryVars, salesVars
  <2> QED BY <1>1, <2>1, LedgerOfSalesStays, LedgerOfCancelledPayment DEF LInv
<1> QED BY <1>2, <1>3, <1>4, <1>5, <1>6, <1>7, <1>8 DEF Next

-----------------------------------------------------------------------------
\* Histories that grow by a row at most, and sales and payments that only change
\* by being cancelled.
HistoryGrows ==
  /\ \A p \in Product :
        \/ movements'[p] = movements[p]
        \/ \E row \in InventoryMovement : movements'[p] = Append(movements[p], row)
  /\ \A c \in Customer :
        \/ account'[c] = account[c]
        \/ \E row \in AccountMovement : account'[c] = Append(account[c], row)
  /\ \/ UNCHANGED sales
     \/ \E new \in Sale : sales' = Append(sales, new)
     \/ \E r \in DOMAIN sales : sales' = [sales EXCEPT ![r].estatus = "CANCELADA"]
  /\ \/ UNCHANGED payments
     \/ \E new \in CustomerPayment : payments' = Append(payments, new)
     \/ \E r \in DOMAIN payments : payments' = [payments EXCEPT ![r].cancelado = TRUE]

\* Such histories are never rewritten.
LEMMA GrowsImmutable ==
  ASSUME InventoryTypeOK, AccountsTypeOK, SalesTypeOK, HistoryGrows
  PROVE  HistoryStep
<1>1. ASSUME NEW p \in Product
      PROVE  \E n \in 0..1 : /\ Len(movements'[p]) = Len(movements[p]) + n
                             /\ SubSeq(movements'[p], 1, Len(movements[p])) = movements[p]
  <2>1. movements[p] \in Seq(InventoryMovement)
    BY DEF InventoryTypeOK
  <2>2. CASE movements'[p] = movements[p]
    <3>1. Len(movements[p]) \in Nat
      BY <2>1
    <3>2. SubSeq(movements[p], 1, Len(movements[p])) = movements[p]
      BY <2>1, SubSeqFull
    <3> QED BY <2>2, <3>1, <3>2
  <2>3. ASSUME NEW row \in InventoryMovement, movements'[p] = Append(movements[p], row)
        PROVE  \E n \in 0..1 : /\ Len(movements'[p]) = Len(movements[p]) + n
                               /\ SubSeq(movements'[p], 1, Len(movements[p])) = movements[p]
    BY <2>1, <2>3, OneRowMore
  <2> QED BY <2>2, <2>3 DEF HistoryGrows
<1>2. ASSUME NEW c \in Customer
      PROVE  \E n \in 0..1 : /\ Len(account'[c]) = Len(account[c]) + n
                             /\ SubSeq(account'[c], 1, Len(account[c])) = account[c]
  <2>1. account[c] \in Seq(AccountMovement)
    BY DEF AccountsTypeOK
  <2>2. CASE account'[c] = account[c]
    <3>1. Len(account[c]) \in Nat
      BY <2>1
    <3>2. SubSeq(account[c], 1, Len(account[c])) = account[c]
      BY <2>1, SubSeqFull
    <3> QED BY <2>2, <3>1, <3>2
  <2>3. ASSUME NEW row \in AccountMovement, account'[c] = Append(account[c], row)
        PROVE  \E n \in 0..1 : /\ Len(account'[c]) = Len(account[c]) + n
                               /\ SubSeq(account'[c], 1, Len(account[c])) = account[c]
    BY <2>1, <2>3, OneRowMore
  <2> QED BY <2>2, <2>3 DEF HistoryGrows
<1>3. ASSUME NEW s \in DOMAIN sales
      PROVE  sales'[s] \in {sales[s], [sales[s] EXCEPT !.estatus = "CANCELADA"]}
  <2>1. sales \in Seq(Sale) /\ s \in 1..Len(sales)
    BY DEF SalesTypeOK
  <2>2. ASSUME NEW new \in Sale, sales' = Append(sales, new) PROVE sales'[s] = sales[s]
    BY <2>1, <2>2, AppendProperties
  <2>3. ASSUME NEW r \in DOMAIN sales, sales' = [sales EXCEPT ![r].estatus = "CANCELADA"]
        PROVE  sales'[s] \in {sales[s], [sales[s] EXCEPT !.estatus = "CANCELADA"]}
    <3>1. /\ sales'[r] = [sales[r] EXCEPT !.estatus = "CANCELADA"]
          /\ \A x \in 1..Len(sales) : x # r => sales'[x] = sales[x]
      BY <2>3, SaleCancelled
    <3> QED BY <2>1, <3>1
  <2> QED BY <2>2, <2>3 DEF HistoryGrows
<1>4. ASSUME NEW i \in DOMAIN payments
      PROVE  payments'[i] \in {payments[i], [payments[i] EXCEPT !.cancelado = TRUE]}
  <2>1. payments \in Seq(CustomerPayment) /\ i \in 1..Len(payments)
    BY DEF AccountsTypeOK
  <2>2. ASSUME NEW new \in CustomerPayment, payments' = Append(payments, new)
        PROVE  payments'[i] = payments[i]
    BY <2>1, <2>2, AppendProperties
  <2>3. ASSUME NEW r \in DOMAIN payments, payments' = [payments EXCEPT ![r].cancelado = TRUE]
        PROVE  payments'[i] \in {payments[i], [payments[i] EXCEPT !.cancelado = TRUE]}
    <3>1. /\ payments'[r] = [payments[r] EXCEPT !.cancelado = TRUE]
          /\ \A x \in 1..Len(payments) : x # r => payments'[x] = payments[x]
      BY <2>3, PaymentCancelled
    <3> QED BY <2>1, <3>1
  <2> QED BY <2>2, <2>3 DEF HistoryGrows
<1> QED BY <1>1, <1>2, <1>3, <1>4 DEF HistoryStep

\* change() lets the histories of stock grow.
LEMMA RowsGrow ==
  ASSUME NEW S, NEW delta, NEW tipo, NEW referencia, RowsAdded(S, delta, tipo, referencia)
  PROVE  \A p \in Product :
            \/ movements'[p] = movements[p]
            \/ \E row \in InventoryMovement : movements'[p] = Append(movements[p], row)
BY DEF RowsAdded

\* addMovement() lets the accounts grow.
LEMMA RowGrows ==
  ASSUME NEW c0, NEW tipo, NEW cargo, NEW abono, NEW referencia,
         RowWritten(c0, tipo, cargo, abono, referencia)
  PROVE  \A c \in Customer :
            \/ account'[c] = account[c]
            \/ \E row \in AccountMovement : account'[c] = Append(account[c], row)
BY DEF RowWritten

\* addMovement() writes one row, whatever the balance becomes.
LEMMA AddMovementWrites ==
  ASSUME AccountsTypeOK, NEW c0 \in Customer, NEW tipo \in AccountMovementType,
         NEW cargo \in Nat, NEW abono \in Nat, NEW referencia \in Nat,
         AddMovement(c0, tipo, cargo, abono, referencia)
  PROVE  RowWritten(c0, tipo, cargo, abono, referencia)
<1> DEFINE nuevo == balance[c0] + cargo - abono
<1>1. nuevo \in Int
  BY AccountsAssumption DEF AccountsTypeOK
<1>2. Move(c0, tipo, cargo, abono, nuevo, referencia)
  BY DEF AddMovement
<1> HIDE DEF nuevo
<1> QED BY <1>1, <1>2, MoveWritesRow

\* Every step lets the histories grow, and rewrites none of them.
LEMMA NextGrows ==
  ASSUME LInv, [Next]_vars
  PROVE  HistoryGrows
<1> USE DEF LInv, IInv, TypeOK
<1>1. /\ \A tipo \in {"VENTA", "CANCELACION_VENTA"} : tipo \in MovementType
      /\ \A tipo \in {"VENTA_CREDITO", "ABONO", "CANCELACION_VENTA", "CANCELACION_ABONO"} :
            tipo \in AccountMovementType
      /\ Len(sales) + 1 \in Nat /\ Len(payments) + 1 \in Nat /\ 0 \in Nat
  BY DEF MovementType, AccountMovementType, SalesTypeOK, AccountsTypeOK
<1>2. CASE UNCHANGED vars
  BY <1>2 DEF HistoryGrows, vars, inventoryVars, accountsVars, salesVars
<1>3. ASSUME NEW b \in Business, NEW c \in Customer \cup {NoCustomer},
             NEW quantities \in Quantities, Create(b, c, quantities)
      PROVE  HistoryGrows
  <2>1. PICK new : Sold(new)
    BY <1>3, CreateSells
  <2>2. new \in Sale /\ sales' = Append(sales, new) /\ new.saldoPendiente \in Nat
    BY <2>1 DEF Sold, Sale
  <2>3. PICK S \in SUBSET Product : Taken(new.details) \in [S -> Int]
    BY <2>1, QuantitiesTyped DEF Sold
  <2>4. RowsAdded(S, Taken(new.details), "VENTA", Len(sales) + 1)
    <3>1. /\ CanChange(Taken(new.details))
          /\ movements' = Recorded(Taken(new.details), "VENTA", Len(sales) + 1)
      BY <2>1 DEF Sold, Change
    <3> QED BY <1>1, <2>3, <3>1, ChangeAddsRows
  <2>5. \/ UNCHANGED <<account, payments>>
        \/ /\ RowWritten(new.customer, "VENTA_CREDITO", new.saldoPendiente, 0, Len(sales) + 1)
           /\ UNCHANGED payments
    BY <1>1, <2>1, <2>2, AddMovementWrites DEF Sold, accountsVars
  <2>6. UNCHANGED payments
    BY <2>5
  <2>7. \A p \in Product :
            \/ movements'[p] = movements[p]
            \/ \E row \in InventoryMovement : movements'[p] = Append(movements[p], row)
    BY <2>4, RowsGrow
  <2>8. \A d \in Customer :
            \/ account'[d] = account[d]
            \/ \E row \in AccountMovement : account'[d] = Append(account[d], row)
    BY <2>5, RowGrows
  <2> QED BY <2>2, <2>6, <2>7, <2>8 DEF HistoryGrows
<1>4. ASSUME NEW s \in DOMAIN sales, Cancel(s) PROVE HistoryGrows
  <2>1. /\ sales' = [sales EXCEPT ![s].estatus = "CANCELADA"]
        /\ Change(sales[s].details, "CANCELACION_VENTA", s) /\ CreditPending(s)
    BY <1>4 DEF Cancel
  <2>2. s \in Nat /\ sales[s] \in Sale
    BY DEF SalesTypeOK
  <2>3. sales[s].details \in Quantities /\ sales[s].saldoPendiente \in Nat
    BY <2>2 DEF Sale
  <2>4. PICK S \in SUBSET Product : sales[s].details \in [S -> Int]
    BY <2>3, QuantitiesTyped
  <2>5. RowsAdded(S, sales[s].details, "CANCELACION_VENTA", s)
    <3>1. /\ CanChange(sales[s].details)
          /\ movements' = Recorded(sales[s].details, "CANCELACION_VENTA", s)
      BY <2>1 DEF Change
    <3> QED BY <1>1, <2>2, <2>4, <3>1, ChangeAddsRows
  <2>6. CASE sales[s].saldoPendiente > 0
    <3>1. /\ AddMovement(sales[s].customer, "CANCELACION_VENTA", 0, sales[s].saldoPendiente, s)
          /\ UNCHANGED payments
      BY <2>1, <2>6 DEF CreditPending
    <3>2. RowWritten(sales[s].customer, "CANCELACION_VENTA", 0, sales[s].saldoPendiente, s)
      BY <1>1, <2>2, <2>3, <2>6, <3>1, AddMovementWrites DEF CreditHasCustomer
    <3>3. \A d \in Customer :
            \/ account'[d] = account[d]
            \/ \E row \in AccountMovement : account'[d] = Append(account[d], row)
      BY <3>2, RowGrows
    <3>4. \A p \in Product :
            \/ movements'[p] = movements[p]
            \/ \E row \in InventoryMovement : movements'[p] = Append(movements[p], row)
      BY <2>5, RowsGrow
    <3> QED BY <2>1, <3>1, <3>3, <3>4 DEF HistoryGrows
  <2>7. CASE ~ sales[s].saldoPendiente > 0
    <3>1. UNCHANGED <<account, payments>>
      BY <2>1, <2>7 DEF CreditPending, accountsVars
    <3>2. \A p \in Product :
            \/ movements'[p] = movements[p]
            \/ \E row \in InventoryMovement : movements'[p] = Append(movements[p], row)
      BY <2>5, RowsGrow
    <3> QED BY <2>1, <3>1, <3>2 DEF HistoryGrows
  <2> QED BY <2>6, <2>7
<1>5. ASSUME NEW p \in Product, StatusProduct(p) PROVE HistoryGrows
  BY <1>5 DEF StatusProduct, HistoryGrows, inventoryVars, accountsVars
<1>6. ASSUME NEW p \in Product, InventoryStep(p) PROVE HistoryGrows
  <2>1. PICK d \in Int, tipo \in MovementType : Change([x \in {p} |-> d], tipo, 0)
    BY <1>6, InventoryChanges DEF InventoryStep
  <2>2. UNCHANGED <<account, payments, sales>>
    BY <1>6 DEF InventoryStep, accountsVars, salesVars
  <2> DEFINE delta == [x \in {p} |-> d]
  <2>3. /\ {p} \in SUBSET Product /\ delta \in [{p} -> Int]
        /\ CanChange(delta) /\ movements' = Recorded(delta, tipo, 0)
    BY <2>1 DEF Change
  <2> HIDE DEF delta
  <2>4. RowsAdded({p}, delta, tipo, 0)
    BY <1>1, <2>3, ChangeAddsRows
  <2>5. \A q \in Product :
            \/ movements'[q] = movements[q]
            \/ \E row \in InventoryMovement : movements'[q] = Append(movements[q], row)
    BY <2>4, RowsGrow
  <2> QED BY <2>2, <2>5 DEF HistoryGrows
<1>7. ASSUME NEW c \in Customer, CustomerStep(c) PROVE HistoryGrows
  <2>1. UNCHANGED <<movements, sales>>
    BY <1>7 DEF CustomerStep, inventoryVars, salesVars
  <2>2. CASE CreatePayment(c)
    <3>1. PICK monto \in Nat, nuevo \in Int :
            /\ Move(c, "ABONO", 0, monto, nuevo, Len(payments) + 1)
            /\ payments' = Append(payments, [customer |-> c, monto |-> monto, cancelado |-> FALSE])
      BY <2>2, PaymentMoves
    <3>2. [customer |-> c, monto |-> monto, cancelado |-> FALSE] \in CustomerPayment
      BY DEF CustomerPayment
    <3>3. RowWritten(c, "ABONO", 0, monto, Len(payments) + 1)
      BY <1>1, <3>1, MoveWritesRow
    <3>4. \A d \in Customer :
            \/ account'[d] = account[d]
            \/ \E row \in AccountMovement : account'[d] = Append(account[d], row)
      BY <3>3, RowGrows
    <3> QED BY <2>1, <3>1, <3>2, <3>4 DEF HistoryGrows
  <2>3. CASE (\E activo \in BOOLEAN : UpdateCustomer(c, activo)) \/ DeleteCustomer(c)
    <3>1. UNCHANGED <<account, payments>>
      BY <2>3 DEF UpdateCustomer, DeleteCustomer
    <3> QED BY <2>1, <3>1 DEF HistoryGrows
  <2> QED BY <1>7, <2>2, <2>3 DEF CustomerStep
<1>8. ASSUME NEW i \in DOMAIN payments, PaymentStep(i) PROVE HistoryGrows
  <2>1. /\ AddMovement(payments[i].customer, "CANCELACION_ABONO", payments[i].monto, 0, i)
        /\ payments' = [payments EXCEPT ![i].cancelado = TRUE]
        /\ UNCHANGED <<movements, sales>>
    BY <1>8 DEF PaymentStep, CancelPayment, inventoryVars, salesVars
  <2>2. i \in Nat /\ payments[i] \in CustomerPayment
    BY DEF AccountsTypeOK
  <2>3. RowWritten(payments[i].customer, "CANCELACION_ABONO", payments[i].monto, 0, i)
    BY <1>1, <2>1, <2>2, AddMovementWrites DEF CustomerPayment
  <2>4. \A d \in Customer :
            \/ account'[d] = account[d]
            \/ \E row \in AccountMovement : account'[d] = Append(account[d], row)
    BY <2>3, RowGrows
  <2> QED BY <2>1, <2>4 DEF HistoryGrows
<1> QED BY <1>2, <1>3, <1>4, <1>5, <1>6, <1>7, <1>8 DEF Next

-----------------------------------------------------------------------------
\* The ledger invariant holds in every state of every behaviour of Sales.
THEOREM LedgerHolds == Spec => []LInv
<1>1. Init => LInv
  BY LedgerInit
<1>2. LInv /\ [Next]_vars => LInv'
  BY LedgerNext
<1> QED BY <1>1, <1>2, PTL DEF Spec

\* Every sale is in the stock history once, and out of it once exactly when it is
\* cancelled, whatever create(), cancel(), entries and adjustments were run.
THEOREM SalesInHistory == Spec => []SaleInMovements
<1>1. LInv => SaleInMovements
  BY DEF LInv, IInv, TypeOK, SalesTypeOK, SalesTold, SaleInMovements
<1> QED BY <1>1, LedgerHolds, PTL

\* Every debt of a sale is in its customer's account once and in no other, and its
\* return exactly when the sale is cancelled.
THEOREM SalesInAccount == Spec => []SaleInAccount
<1>1. LInv => SaleInAccount
  BY DEF LInv, IInv, TypeOK, SalesTypeOK, SalesCharged, SaleInAccount
<1> QED BY <1>1, LedgerHolds, PTL

\* Every payment is in its customer's account once, with its amount, and is charged
\* back exactly when it is cancelled.
THEOREM PaymentsInAccounts == Spec => []PaymentsInAccount
<1>1. LInv => PaymentsInAccount
  BY DEF LInv, IInv, TypeOK, AccountsTypeOK, PaymentsTold, PaymentsInAccount
<1> QED BY <1>1, LedgerHolds, PTL

\* What a customer owes is what the sales in force left unpaid less the payments in
\* force, up to the cents that rounding payments has cost or saved.
THEOREM DebtHolds == Spec => []DebtExplained
<1>1. LInv => DebtExplained
  BY DEF LInv
<1> QED BY <1>1, LedgerHolds, PTL

\* A movement goes the way of its kind, whichever caller of change() wrote it.
THEOREM DirectionHolds == Spec => []MovementDirection
<1>1. LInv => MovementDirection
  BY DEF LInv
<1> QED BY <1>1, LedgerHolds, PTL

\* A sale, its customer, its products and the rows that name it are of one business.
THEOREM TenantsHold == Spec => []TenantIsolation
<1>1. LInv => TenantIsolation
  BY TenantFollows DEF LInv, IInv, TypeOK
<1> QED BY <1>1, LedgerHolds, PTL

\* The folios of each business are 1, 2, 3, ... in the order of its sales.
THEOREM FoliosHold == Spec => []FoliosGapless
<1>1. LInv => FoliosGapless
  BY DEF LInv
<1> QED BY <1>1, LedgerHolds, PTL

\* No step rewrites a history, and a sale or a payment changes only by being cancelled.
THEOREM HistoryHolds == Spec => HistoryImmutable
<1>1. LInv /\ [Next]_vars => [HistoryStep]_vars
  BY NextGrows, GrowsImmutable DEF LInv, IInv, TypeOK
<1> QED BY <1>1, LedgerHolds, PTL DEF Spec, HistoryImmutable
=============================================================================
