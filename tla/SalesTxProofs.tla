---------------------------- MODULE SalesTxProofs ----------------------------
(***************************************************************************)
(* Theorems about SalesTx for every number of connections, products,       *)
(* customers and tenants and every bound: what the overlapping             *)
(* transactions leave in the tables, whichever requests are made, and the  *)
(* requests for which they leave exactly what whole requests would.        *)
(***************************************************************************)
EXTENDS SalesTx, LedgerProofs

(***************************************************************************)
(* What holds of an open transaction.  The snapshot may be old, so it only *)
(* bounds the sales of its business from below; the locks are what makes   *)
(* the rest true until the commit.                                         *)
(***************************************************************************)
SnapshotOK(t) ==
  /\ snapshot[t] \in TxSnapshot
  /\ snapshot[t].sales <= Cardinality(SalesOf(request[t].business))

\* What Price() settles: an amount to pay, none of it owed by a walk-in customer.
Priced(t) ==
  /\ request[t].total \in Nat /\ request[t].inicial \in Nat /\ Pending(t) \in Nat
  /\ Pending(t) # 0 => request[t].customer \in Customer

Creating(t) ==
  /\ request[t].customer # NoCustomer
       => BusinessOf[request[t].customer] = request[t].business
  /\ \A p \in LockedProducts(t) : BusinessOf[p] = request[t].business
  /\ phase[t] \in {"folio", "cliente", "final"} => SnapshotOK(t) /\ Priced(t)
  /\ phase[t] \in {"cliente", "final"} => FolioRow(request[t].business, Folio(t)) \in held[t]

\* The sale of a cancellation is locked, in force and as it was when it was read.
Cancelling(t) ==
  LET s == request[t].sale IN
  /\ phase[t] \in {"cliente", "productos", "final"}
  /\ s \in DOMAIN sales /\ SaleRow(s) \in held[t]
  /\ sales[s].estatus # "CANCELADA"
  /\ sales[s].details = request[t].details
  /\ sales[s].customer = request[t].customer
  /\ sales[s].total = request[t].total
  /\ sales[s].pagoInicial = request[t].inicial

\* The products are locked in the order of the request, and all of them before
\* anything else is done with them.
InOrder(t) ==
  LET L == LockedProducts(t)
      S == DOMAIN request[t].details
  IN /\ phase[t] = "productos" =>
          /\ L = {request[t].order[i] : i \in 1..Cardinality(L)}
          /\ Cardinality(L) < Cardinality(S)
     /\ phase[t] = "cliente" /\ request[t].kind = "cancel" => L = {}
     /\ phase[t] \in {"precio", "folio", "final"} => S \subseteq L
     /\ phase[t] = "cliente" /\ request[t].kind = "create" => S \subseteq L

\* A folio is held by the transaction that will use it, and is the next one.
FolioHeld(t) ==
  \A b \in Business, n \in Nat : FolioRow(b, n) \in held[t] =>
     /\ request[t].kind = "create" /\ phase[t] \in {"cliente", "final"}
     /\ b = request[t].business /\ n = Folio(t)
     /\ n = Cardinality(SalesOf(b)) + 1

Serving(t) ==
  /\ request[t] \in TxRequest
  /\ request[t].order \in Orders(DOMAIN request[t].details)
  /\ snapshot[t] # NoValue => SnapshotOK(t)
  /\ request[t].kind = "create" => Creating(t)
  /\ request[t].kind = "cancel" => Cancelling(t)
  /\ InOrder(t)
  /\ FolioHeld(t)

Idle(t) == held[t] = {} /\ snapshot[t] = NoValue

TransactionsOK ==
  \A t \in Tx : IF phase[t] = "libre" THEN Idle(t) ELSE Serving(t)

HeldExclusive == \A t, u \in Tx : t # u => held[t] \cap held[u] = {}

\* The connections' own variables are tables of the connections.
TxTables ==
  /\ phase \in [Tx -> Phase]
  /\ held = [t \in Tx |-> held[t]]
  /\ request \in [Tx -> TxRequest \cup {NoValue}]
  /\ snapshot \in [Tx -> TxSnapshot \cup {NoValue}]

\* What an edit has read was a stock or a balance.
Drafts ==
  /\ draft \in [Product \cup Customer -> Nat \cup {NoValue}]
  /\ \A p \in Product : draft[p] # NoValue => draft[p] <= StockLimit
  /\ \A c \in Customer : draft[c] # NoValue => draft[c] <= BalanceLimit

-----------------------------------------------------------------------------
\* What a sale leaves unpaid is what it cost less what was paid.
SalesAddUp ==
  \A s \in DOMAIN sales : sales[s].saldoPendiente = sales[s].total - sales[s].pagoInicial

\* Every folio up to the number of sales of a business is given.
FoliosGiven ==
  \A b \in Business : \A n \in 1..Cardinality(SalesOf(b)) :
     \E s \in SalesOf(b) : sales[s].folio = n

\* The tables, of which the transactions write only rows that agree.
TablesOK ==
  /\ TypeOK /\ CreditHasCustomer /\ SalesAddUp
  /\ SalesTold /\ SalesCharged /\ PaymentsTold
  /\ SalesOfTenant /\ FoliosGapless /\ FoliosGiven /\ MovementDirection

TxInv == TablesOK /\ TxTables /\ TransactionsOK /\ HeldExclusive /\ Drafts

-----------------------------------------------------------------------------
\* The tables stay what they are while a transaction reads and locks.
LEMMA TablesStay ==
  ASSUME TablesOK, UNCHANGED vars
  PROVE  TablesOK'
<1> USE DEF TablesOK, TypeOK
<1>1. UNCHANGED <<stock, movements, customers, balance, account, payments, productActive, sales>>
  BY DEF vars, inventoryVars, accountsVars, salesVars
<1>2. InventoryTypeOK' /\ AccountsTypeOK' /\ SalesTypeOK'
  BY <1>1 DEF InventoryTypeOK, AccountsTypeOK, SalesTypeOK
<1>3. SalesTold' /\ SalesCharged' /\ PaymentsTold'
  BY <1>1, ToldKept, ChargedKept, PaymentsKept
<1>4. CreditHasCustomer' /\ SalesAddUp' /\ SalesOfTenant'
  BY <1>1 DEF CreditHasCustomer, SalesAddUp, SalesOfTenant
<1>5. FoliosGapless' /\ FoliosGiven'
  BY <1>1 DEF FoliosGapless, FoliosGiven, SalesOf
<1>6. MovementDirection'
  BY <1>1 DEF MovementDirection, Directed
<1> QED BY <1>2, <1>3, <1>4, <1>5, <1>6

\* A transaction is what it was while another one takes a step, if the sales only
\* grow, and neither the sale it has locked nor the number of sales it counts on
\* changes.
LEMMA OthersServe ==
  ASSUME NEW u \in Tx, Serving(u), phase[u] # "libre",
         phase'[u] = phase[u], request'[u] = request[u], held'[u] = held[u],
         snapshot'[u] = snapshot[u],
         \A b \in Business : /\ Cardinality(SalesOf(b)) \in Nat /\ Cardinality(SalesOf(b)') \in Nat
                             /\ Cardinality(SalesOf(b)) <= Cardinality(SalesOf(b)'),
         \A b \in Business, n \in Nat : FolioRow(b, n) \in held[u] =>
            Cardinality(SalesOf(b)') = Cardinality(SalesOf(b)),
         \A s \in DOMAIN sales : SaleRow(s) \in held[u] =>
            s \in DOMAIN sales' /\ sales'[s] = sales[s]
  PROVE  Serving(u)'
<1>1. LockedProducts(u)' = LockedProducts(u) /\ Folio(u)' = Folio(u) /\ Pending(u)' = Pending(u)
  BY DEF LockedProducts, Folio, Pending, ProductRow
<1>2. request[u] \in TxRequest /\ request[u].business \in Business
  BY DEF Serving, TxRequest
<1>3. SnapshotOK(u) => SnapshotOK(u)'
  <2> SUFFICES ASSUME SnapshotOK(u) PROVE SnapshotOK(u)'
    OBVIOUS
  <2> DEFINE b == request[u].business
  <2>1. /\ snapshot[u] \in TxSnapshot /\ snapshot[u].sales \in Nat
        /\ snapshot[u].sales <= Cardinality(SalesOf(b))
    BY DEF SnapshotOK, TxSnapshot
  <2>2. snapshot[u].sales <= Cardinality(SalesOf(b)')
    BY <1>2, <2>1
  <2>3. SalesOf(b)' = SalesOf(request[u].business)'
    OBVIOUS
  <2> QED BY <2>1, <2>2, <2>3 DEF SnapshotOK, TxSnapshot, SalesOf
<1>4. Priced(u) => Priced(u)'
  BY <1>1 DEF Priced
<1>5. request[u].kind = "create" => Creating(u)'
  BY <1>1, <1>3, <1>4 DEF Serving, Creating, FolioRow
<1>6. request[u].kind = "cancel" => Cancelling(u)'
  BY DEF Serving, Cancelling, SaleRow
<1>7. InOrder(u)'
  BY <1>1 DEF Serving, InOrder
<1>8. FolioHeld(u)'
  BY <1>1 DEF Serving, FolioHeld, FolioRow
<1>9. snapshot'[u] # NoValue => SnapshotOK(u)'
  BY <1>3 DEF Serving
<1> QED BY <1>2, <1>5, <1>6, <1>7, <1>8, <1>9 DEF Serving, TxRequest, Orders

\* So it is while no sale changes.
LEMMA OthersStay ==
  ASSUME SalesTypeOK, NEW u \in Tx, UNCHANGED sales,
         phase'[u] = phase[u], request'[u] = request[u], held'[u] = held[u],
         snapshot'[u] = snapshot[u],
         IF phase[u] = "libre" THEN Idle(u) ELSE Serving(u)
  PROVE  (IF phase[u] = "libre" THEN Idle(u) ELSE Serving(u))'
<1>1. ASSUME NEW b \in Business
      PROVE  SalesOf(b)' = SalesOf(b) /\ Cardinality(SalesOf(b)) \in Nat
  BY SalesOfFinite, FS_CardinalityType DEF SalesOf
<1>2. \A b \in Business : /\ Cardinality(SalesOf(b)) \in Nat /\ Cardinality(SalesOf(b)') \in Nat
                          /\ Cardinality(SalesOf(b)) <= Cardinality(SalesOf(b)')
                          /\ Cardinality(SalesOf(b)') = Cardinality(SalesOf(b))
  BY <1>1
<1> QED BY <1>2, OthersServe DEF Idle

\* Rows that were free are held by no other transaction.
LEMMA Advanced ==
  ASSUME TxTables, HeldExclusive, NEW t \in Tx, NEW rows, NEW next \in Phase,
         Advance(t, rows, next), \A row \in rows : Free(t, row)
  PROVE  /\ phase' \in [Tx -> Phase] /\ phase'[t] = next
         /\ held' = [u \in Tx |-> held'[u]] /\ held'[t] = held[t] \cup rows
         /\ \A u \in Tx \ {t} : phase'[u] = phase[u] /\ held'[u] = held[u]
         /\ HeldExclusive'
<1>1. phase' \in [Tx -> Phase] /\ phase'[t] = next /\ \A u \in Tx \ {t} : phase'[u] = phase[u]
  BY DEF TxTables, Advance
<1>2. held' = [held EXCEPT ![t] = @ \cup rows] /\ DOMAIN held = Tx
  BY DEF TxTables, Advance
<1>3. /\ held' = [u \in Tx |-> held'[u]] /\ held'[t] = held[t] \cup rows
      /\ \A u \in Tx \ {t} : held'[u] = held[u]
  BY <1>2
<1>4. HeldExclusive'
  <2> SUFFICES ASSUME NEW u \in Tx, NEW v \in Tx, u # v PROVE held'[u] \cap held'[v] = {}
    BY DEF HeldExclusive
  <2>1. held[u] \cap held[v] = {}
    BY DEF HeldExclusive
  <2>2. CASE u = t
    BY <1>3, <2>1, <2>2 DEF Free
  <2>3. CASE v = t
    BY <1>3, <2>1, <2>3 DEF Free
  <2>4. CASE u # t /\ v # t
    BY <1>3, <2>1, <2>4
  <2> QED BY <2>2, <2>3, <2>4
<1> QED BY <1>1, <1>3, <1>4

\* A transaction that ends leaves nothing behind.
LEMMA Forgotten ==
  ASSUME TxTables, HeldExclusive, NEW t \in Tx, Forget(t)
  PROVE  /\ TxTables' /\ HeldExclusive'
         /\ phase'[t] = "libre" /\ Idle(t)'
         /\ \A u \in Tx \ {t} : /\ phase'[u] = phase[u] /\ request'[u] = request[u]
                                /\ held'[u] = held[u] /\ snapshot'[u] = snapshot[u]
<1>1. /\ phase' \in [Tx -> Phase] /\ phase'[t] = "libre"
      /\ \A u \in Tx \ {t} : phase'[u] = phase[u]
  BY DEF TxTables, Forget, Phase
<1>2. /\ request' \in [Tx -> TxRequest \cup {NoValue}]
      /\ \A u \in Tx \ {t} : request'[u] = request[u]
  BY DEF TxTables, Forget
<1>3. /\ snapshot' \in [Tx -> TxSnapshot \cup {NoValue}]
      /\ snapshot'[t] = NoValue /\ \A u \in Tx \ {t} : snapshot'[u] = snapshot[u]
  BY DEF TxTables, Forget
<1>4. held' = [held EXCEPT ![t] = {}] /\ DOMAIN held = Tx
  BY DEF TxTables, Forget
<1>5. /\ held' = [u \in Tx |-> held'[u]] /\ held'[t] = {}
      /\ \A u \in Tx \ {t} : held'[u] = held[u]
  BY <1>4
<1>6. HeldExclusive'
  BY <1>5 DEF HeldExclusive
<1>7. TxTables'
  BY <1>1, <1>2, <1>3, <1>5 DEF TxTables, TxRequest, TxSnapshot
<1> QED BY <1>1, <1>2, <1>3, <1>5, <1>6, <1>7 DEF Idle

\* A step of one transaction that changes no table keeps the invariant if it keeps
\* what the transaction itself has to.
LEMMA StepOfOne ==
  ASSUME TxInv, NEW t \in Tx, UNCHANGED <<vars, draft>>,
         TxTables', HeldExclusive',
         (IF phase[t] = "libre" THEN Idle(t) ELSE Serving(t))',
         \A u \in Tx \ {t} : /\ phase'[u] = phase[u] /\ request'[u] = request[u]
                             /\ held'[u] = held[u] /\ snapshot'[u] = snapshot[u]
  PROVE  TxInv'
<1>1. TablesOK'
  BY TablesStay DEF TxInv
<1>2. UNCHANGED sales
  BY DEF vars, salesVars
<1>3. ASSUME NEW u \in Tx
      PROVE  (IF phase[u] = "libre" THEN Idle(u) ELSE Serving(u))'
  <2>1. IF phase[u] = "libre" THEN Idle(u) ELSE Serving(u)
    BY DEF TxInv, TransactionsOK
  <2>2. CASE u = t
    BY <2>2
  <2>3. CASE u # t
    BY <1>2, <2>1, <2>3, OthersStay DEF TxInv, TablesOK, TypeOK
  <2> QED BY <2>2, <2>3
<1>4. TransactionsOK'
  BY <1>3 DEF TransactionsOK
<1>5. Drafts'
  BY DEF TxInv, Drafts
<1> QED BY <1>1, <1>4, <1>5 DEF TxInv

-----------------------------------------------------------------------------
\* A sale is about finitely many products, at least one, in some order.
LEMMA QuantitiesFinite ==
  ASSUME NEW q \in Quantities
  PROVE  /\ DOMAIN q \subseteq Product /\ IsFiniteSet(DOMAIN q)
         /\ Cardinality(DOMAIN q) \in Nat \ {0}
         /\ q \in [DOMAIN q -> Quantity]
<1>1. PICK S \in (SUBSET Product) \ {{}} : q \in [S -> Quantity]
  BY DEF Quantities
<1>2. IsFiniteSet(S)
  BY SalesTxAssumption, FS_Subset
<1>3. Cardinality(S) \in Nat /\ Cardinality(S) # 0
  BY <1>2, FS_CardinalityType, FS_EmptySet
<1> QED BY <1>1, <1>2, <1>3

\* An order of its products is a sequence of them.
LEMMA OrderTyped ==
  ASSUME NEW q \in Quantities, NEW order \in Orders(DOMAIN q)
  PROVE  /\ order \in Seq(Product) /\ Len(order) = Cardinality(DOMAIN q)
         /\ DOMAIN order = 1..Cardinality(DOMAIN q)
         /\ \A i \in 1..Cardinality(DOMAIN q) : order[i] \in DOMAIN q
         /\ \A i, j \in 1..Cardinality(DOMAIN q) : order[i] = order[j] => i = j
<1> DEFINE S == DOMAIN q
           n == Cardinality(S)
<1>1. S \subseteq Product /\ n \in Nat
  BY QuantitiesFinite
<1>2. order \in [1..n -> S] /\ \A i, j \in 1..n : order[i] = order[j] => i = j
  BY DEF Orders
<1>3. order \in [1..n -> Product]
  BY <1>1, <1>2
<1> HIDE DEF n
<1>4. order \in Seq(Product) /\ Len(order) = n
  BY <1>1, <1>3
<1> QED BY <1>2, <1>4 DEF n

\* What a snapshot holds.
LEMMA SnapshotTyped ==
  ASSUME TypeOK, NEW b \in Business
  PROVE  /\ Snapshot(b) \in TxSnapshot
         /\ Snapshot(b).sales <= Cardinality(SalesOf(b))
<1>1. Cardinality(SalesOf(b)) \in Nat
  BY SalesOfFinite, FS_CardinalityType DEF TypeOK
<1>2. stock \in [Product -> Nat] /\ balance \in [Customer -> Nat]
  BY InventoryAssumption, AccountsAssumption DEF TypeOK, InventoryTypeOK, AccountsTypeOK
<1> QED BY <1>1, <1>2 DEF Snapshot, TxSnapshot

\* The rows of different tables are different.
LEMMA RowsApart ==
  /\ \A p, q : ProductRow(p) = ProductRow(q) => p = q
  /\ \A p, c : ProductRow(p) # CustomerRow(c)
  /\ \A p, s : ProductRow(p) # SaleRow(s)
  /\ \A p, b, n : ProductRow(p) # FolioRow(b, n)
  /\ \A c, b, n : CustomerRow(c) # FolioRow(b, n)
  /\ \A s, b, n : SaleRow(s) # FolioRow(b, n)
  /\ \A b, n, d, m : FolioRow(b, n) = FolioRow(d, m) => b = d /\ n = m
BY DEF ProductRow, CustomerRow, SaleRow, FolioRow

\* create() begins with nothing locked.
LEMMA BeginCreateHolds ==
  ASSUME TxInv, NEW t \in Tx, NEW b \in Business, NEW c \in Customer \cup {NoCustomer},
         NEW q \in Quantities, BeginCreate(t, b, c, q)
  PROVE  TxInv'
<1> USE DEF TxInv, TablesOK
<1>1. phase[t] = "libre" /\ CustomerFound(b, c) /\ UNCHANGED <<vars, draft>>
  BY DEF BeginCreate
<1>2. held[t] = {}
  BY <1>1 DEF TransactionsOK, Idle
<1>3. PICK order \in Orders(DOMAIN q) :
        request' = [request EXCEPT ![t] =
          [kind |-> "create", business |-> b, customer |-> c, details |-> q,
           order |-> order, sale |-> 0, total |-> 0, inicial |-> 0]]
  BY DEF BeginCreate
<1> DEFINE new == [kind |-> "create", business |-> b, customer |-> c, details |-> q,
                   order |-> order, sale |-> 0, total |-> 0, inicial |-> 0]
<1>4. new \in TxRequest
  BY OrderTyped DEF TxRequest
<1>5. /\ new.kind = "create" /\ new.business = b /\ new.customer = c
      /\ new.details = q /\ new.order = order
  OBVIOUS
<1>6. request' = [request EXCEPT ![t] = new]
  BY <1>3
<1> HIDE DEF new
<1>7. /\ request' \in [Tx -> TxRequest \cup {NoValue}] /\ request'[t] = new
      /\ \A u \in Tx \ {t} : request'[u] = request[u]
  BY <1>4, <1>6 DEF TxTables
<1>8. /\ snapshot' \in [Tx -> TxSnapshot \cup {NoValue}]
      /\ snapshot'[t] \in {NoValue, Snapshot(b)}
      /\ \A u \in Tx \ {t} : snapshot'[u] = snapshot[u]
  BY SnapshotTyped DEF TxTables, BeginCreate
<1>9. /\ phase' \in [Tx -> Phase] /\ phase'[t] = "productos"
      /\ held' = [u \in Tx |-> held'[u]] /\ held'[t] = {}
      /\ \A u \in Tx \ {t} : phase'[u] = phase[u] /\ held'[u] = held[u]
      /\ HeldExclusive'
  <2>1. Advance(t, {}, "productos") /\ "productos" \in Phase
    BY DEF BeginCreate, Phase
  <2>2. \A row \in {} : Free(t, row)
    OBVIOUS
  <2> QED BY <1>2, <2>1, <2>2, Advanced
<1>10. TxTables'
  BY <1>7, <1>8, <1>9 DEF TxTables, TxRequest, TxSnapshot
<1>11. SalesOf(b)' = SalesOf(b) /\ BusinessOf' = BusinessOf
  BY <1>1 DEF SalesOf, vars, salesVars
<1>12. LockedProducts(t)' = {}
  BY <1>9 DEF LockedProducts
<1>13. snapshot'[t] # NoValue => SnapshotOK(t)'
  <2>1. Snapshot(b) \in TxSnapshot /\ Snapshot(b).sales <= Cardinality(SalesOf(b))
    BY SnapshotTyped
  <2>2. SalesOf(request[t].business)' = SalesOf(b)
    BY <1>5, <1>7, <1>11
  <2> HIDE DEF SnapshotOK
  <2> QED BY <1>8, <2>1, <2>2 DEF SnapshotOK, TxSnapshot
<1>14. Creating(t)'
  BY <1>1, <1>5, <1>7, <1>9, <1>12 DEF Creating, CustomerFound
<1>15. InOrder(t)'
  <2>1. Cardinality({}) = 0 /\ Cardinality(DOMAIN q) \in Nat \ {0}
    BY FS_EmptySet, QuantitiesFinite
  <2>2. {order[i] : i \in 1..0} = {}
    OBVIOUS
  <2> QED BY <1>5, <1>7, <1>9, <1>12, <2>1, <2>2 DEF InOrder
<1>16. FolioHeld(t)'
  BY <1>9 DEF FolioHeld
<1>17. Serving(t)'
  BY <1>4, <1>5, <1>7, <1>13, <1>14, <1>15, <1>16 DEF Serving, TxRequest, Orders
<1> HIDE DEF TxInv
<1> QED BY <1>1, <1>7, <1>8, <1>9, <1>10, <1>17, StepOfOne

\* cancel() begins by locking the sale it read, which is in force.
LEMMA BeginCancelHolds ==
  ASSUME TxInv, NEW t \in Tx, NEW s \in DOMAIN sales, BeginCancel(t, s)
  PROVE  TxInv'
<1> USE DEF TxInv, TablesOK
<1>1. /\ phase[t] = "libre" /\ Free(t, SaleRow(s)) /\ sales[s].estatus # "CANCELADA"
      /\ UNCHANGED <<vars, draft>>
  BY DEF BeginCancel
<1>2. held[t] = {} /\ snapshot[t] = NoValue
  BY <1>1 DEF TransactionsOK, Idle
<1>3. sales[s] \in Sale /\ s \in Nat
  BY DEF TypeOK, SalesTypeOK
<1> DEFINE b == sales[s].business
           q == sales[s].details
<1>4. b \in Business /\ q \in Quantities
  BY <1>3 DEF Sale
<1>5. PICK order \in Orders(DOMAIN q) :
        request' = [request EXCEPT ![t] =
          [kind |-> "cancel", business |-> b, customer |-> sales[s].customer,
           details |-> q, order |-> order, sale |-> s,
           total |-> sales[s].total, inicial |-> sales[s].pagoInicial]]
  BY DEF BeginCancel
<1> DEFINE new == [kind |-> "cancel", business |-> b, customer |-> sales[s].customer,
                   details |-> q, order |-> order, sale |-> s,
                   total |-> sales[s].total, inicial |-> sales[s].pagoInicial]
<1>6. new \in TxRequest
  <2>1. order \in Seq(Product)
    BY <1>4, OrderTyped
  <2>2. /\ sales[s].customer \in Customer \cup {NoCustomer}
        /\ sales[s].total \in Int /\ sales[s].pagoInicial \in Int
    BY <1>3 DEF Sale
  <2> QED BY <1>3, <1>4, <2>1, <2>2 DEF TxRequest
<1>7. /\ new.kind = "cancel" /\ new.business = b /\ new.customer = sales[s].customer
      /\ new.details = q /\ new.order = order /\ new.sale = s
      /\ new.total = sales[s].total /\ new.inicial = sales[s].pagoInicial
  OBVIOUS
<1>8. request' = [request EXCEPT ![t] = new]
  BY <1>5
<1> HIDE DEF new
<1>9. /\ request' \in [Tx -> TxRequest \cup {NoValue}] /\ request'[t] = new
      /\ \A u \in Tx \ {t} : request'[u] = request[u]
  BY <1>6, <1>8 DEF TxTables
<1>10. /\ snapshot' \in [Tx -> TxSnapshot \cup {NoValue}]
       /\ snapshot'[t] \in {NoValue, Snapshot(b)}
       /\ \A u \in Tx \ {t} : snapshot'[u] = snapshot[u]
  BY <1>2, <1>4, SnapshotTyped DEF TxTables, BeginCancel
<1>11. PICK next \in {"cliente", "productos"} : Advance(t, {SaleRow(s)}, next)
  BY DEF BeginCancel
<1>12. /\ phase' \in [Tx -> Phase] /\ phase'[t] = next
       /\ held' = [u \in Tx |-> held'[u]] /\ held'[t] = {SaleRow(s)}
       /\ \A u \in Tx \ {t} : phase'[u] = phase[u] /\ held'[u] = held[u]
       /\ HeldExclusive'
  <2>1. next \in Phase /\ \A row \in {SaleRow(s)} : Free(t, row)
    BY <1>1 DEF Phase
  <2>2. held[t] \cup {SaleRow(s)} = {SaleRow(s)}
    BY <1>2
  <2> QED BY <1>11, <2>1, <2>2, Advanced
<1>13. TxTables'
  BY <1>9, <1>10, <1>12 DEF TxTables, TxRequest, TxSnapshot
<1>14. UNCHANGED sales /\ SalesOf(b)' = SalesOf(b)
  BY <1>1 DEF SalesOf, vars, salesVars
<1>15. LockedProducts(t)' = {}
  BY <1>12, RowsApart DEF LockedProducts, ProductRow, SaleRow
<1>16. snapshot'[t] # NoValue => SnapshotOK(t)'
  <2>1. Snapshot(b) \in TxSnapshot /\ Snapshot(b).sales <= Cardinality(SalesOf(b))
    BY <1>4, SnapshotTyped
  <2>2. SalesOf(request[t].business)' = SalesOf(b)
    BY <1>7, <1>9, <1>14
  <2> QED BY <1>10, <2>1, <2>2 DEF SnapshotOK, TxSnapshot
<1>17. Cancelling(t)'
  BY <1>1, <1>7, <1>9, <1>12, <1>14 DEF Cancelling, SaleRow
<1>18. InOrder(t)'
  <2>1. Cardinality({}) = 0 /\ Cardinality(DOMAIN q) \in Nat \ {0}
    BY <1>4, FS_EmptySet, QuantitiesFinite
  <2>2. {order[i] : i \in 1..0} = {}
    OBVIOUS
  <2> QED BY <1>7, <1>9, <1>12, <1>15, <2>1, <2>2 DEF InOrder
<1>19. FolioHeld(t)'
  BY <1>12 DEF FolioHeld, FolioRow, SaleRow
<1>20. Serving(t)'
  BY <1>6, <1>7, <1>9, <1>16, <1>17, <1>18, <1>19 DEF Serving, TxRequest, Orders
<1> HIDE DEF TxInv
<1> QED BY <1>1, <1>9, <1>10, <1>12, <1>13, <1>20, StepOfOne

\* While it locks its products, the next one is one of them that it has not locked,
\* and with the last one it has them all.
LEMMA NextToLock ==
  ASSUME NEW t \in Tx, Serving(t), phase[t] = "productos"
  PROVE  LET L == LockedProducts(t)
             S == DOMAIN request[t].details
             p == NextProduct(t)
         IN /\ p \in S /\ p \notin L /\ L \subseteq S /\ S \subseteq Product
            /\ Cardinality(L) \in Nat /\ Cardinality(L \cup {p}) = Cardinality(L) + 1
            /\ L \cup {p} = {request[t].order[i] : i \in 1..(Cardinality(L) + 1)}
            /\ LastProduct(t) <=> Cardinality(L \cup {p}) = Cardinality(S)
            /\ LastProduct(t) => S \subseteq L \cup {p}
            /\ ~ LastProduct(t) => Cardinality(L \cup {p}) < Cardinality(S)
<1> DEFINE L == LockedProducts(t)
           S == DOMAIN request[t].details
           order == request[t].order
           p == NextProduct(t)
           k == Cardinality(L)
           n == Cardinality(S)
<1>1. request[t] \in TxRequest /\ order \in Orders(S)
  BY DEF Serving
<1>2. request[t].details \in Quantities
  BY <1>1 DEF TxRequest
<1>3. S \subseteq Product /\ IsFiniteSet(S) /\ n \in Nat
  BY <1>2, QuantitiesFinite
<1>4. /\ Len(order) = n /\ \A i \in 1..n : order[i] \in S
      /\ \A i, j \in 1..n : order[i] = order[j] => i = j
  BY <1>1, <1>2, OrderTyped
<1>5. L \subseteq S
  BY DEF LockedProducts
<1>6. IsFiniteSet(L) /\ k \in Nat
  BY <1>3, <1>5, FS_Subset, FS_CardinalityType
<1>7. L = {order[i] : i \in 1..k} /\ k < n
  BY DEF Serving, InOrder
<1>8. p = order[k + 1]
  BY DEF NextProduct
<1> HIDE DEF L, S, order, p, k, n
<1>9. k + 1 \in 1..n
  BY <1>3, <1>6, <1>7
<1>10. p \in S /\ p \notin L
  <2>1. p \in S
    BY <1>4, <1>8, <1>9
  <2>2. ASSUME p \in L PROVE FALSE
    <3>1. PICK i \in 1..k : p = order[i]
      BY <1>7, <2>2
    <3>2. i \in 1..n /\ i # k + 1
      BY <1>3, <1>6, <1>7
    <3> QED BY <1>4, <1>8, <1>9, <3>1, <3>2
  <2> QED BY <2>1, <2>2
<1>11. Cardinality(L \cup {p}) = k + 1
  BY <1>6, <1>10, FS_AddElement DEF k
<1>12. L \cup {p} = {order[i] : i \in 1..(k + 1)}
  <2>1. 1..(k + 1) = 1..k \cup {k + 1}
    BY <1>6
  <2> QED BY <1>7, <1>8, <2>1
<1>13. LastProduct(t) <=> k + 1 = n
  BY <1>4 DEF LastProduct, k, L, order
<1>14. LastProduct(t) => S \subseteq L \cup {p}
  <2> SUFFICES ASSUME k + 1 = n PROVE S \subseteq L \cup {p}
    BY <1>13
  <2>1. L \cup {p} \subseteq S /\ Cardinality(L \cup {p}) = Cardinality(S)
    BY <1>5, <1>10, <1>11 DEF n
  <2> QED BY <1>3, <2>1, FS_Subset
<1>15. ~ LastProduct(t) => k + 1 < n
  BY <1>3, <1>6, <1>7, <1>13
<1> QED BY <1>3, <1>5, <1>6, <1>10, <1>11, <1>12, <1>13, <1>14, <1>15 DEF L, S, order, p, k, n

\* A step that locks rows and decides what is next leaves the rest to the invariant.
LEMMA AdvanceTyped ==
  ASSUME TxInv, NEW t \in Tx, NEW rows, NEW next \in Phase, Advance(t, rows, next),
         \A row \in rows : Free(t, row), UNCHANGED request,
         NEW b \in Business,
         UNCHANGED snapshot \/ snapshot' = [snapshot EXCEPT ![t] = Snapshot(b)]
  PROVE  /\ TxTables' /\ HeldExclusive'
         /\ phase'[t] = next /\ held'[t] = held[t] \cup rows
         /\ \A u \in Tx \ {t} : /\ phase'[u] = phase[u] /\ request'[u] = request[u]
                                /\ held'[u] = held[u] /\ snapshot'[u] = snapshot[u]
<1> USE DEF TxInv
<1>1. /\ phase' \in [Tx -> Phase] /\ phase'[t] = next
      /\ held' = [u \in Tx |-> held'[u]] /\ held'[t] = held[t] \cup rows
      /\ \A u \in Tx \ {t} : phase'[u] = phase[u] /\ held'[u] = held[u]
      /\ HeldExclusive'
  BY Advanced
<1>2. Snapshot(b) \in TxSnapshot
  BY SnapshotTyped DEF TablesOK
<1>3. /\ snapshot' \in [Tx -> TxSnapshot \cup {NoValue}]
      /\ \A u \in Tx \ {t} : snapshot'[u] = snapshot[u]
  BY <1>2 DEF TxTables
<1>4. TxTables'
  BY <1>1, <1>3 DEF TxTables, TxRequest, TxSnapshot
<1> QED BY <1>1, <1>3, <1>4

\* The locking read of the next product keeps the order of the locks, and for a new
\* sale it has found a product of the business.
LEMMA LockProductHolds ==
  ASSUME TxInv, NEW t \in Tx, LockProduct(t)
  PROVE  TxInv'
<1> USE DEF TxInv
<1> DEFINE p == NextProduct(t)
           L == LockedProducts(t)
           S == DOMAIN request[t].details
           next == IF ~ LastProduct(t) THEN "productos"
                   ELSE IF request[t].kind = "create" THEN "precio" ELSE "final"
<1>1. /\ phase[t] = "productos" /\ Granted(t) /\ Accepted(t)
      /\ Advance(t, Wanted(t), next)
      /\ UNCHANGED <<vars, request, snapshot, draft>>
  BY DEF LockProduct
<1>2. Serving(t)
  BY <1>1 DEF TransactionsOK
<1>3. Wanted(t) = {ProductRow(p)}
  BY <1>1 DEF Wanted
<1>4. request[t] \in TxRequest /\ request[t].business \in Business
  BY <1>2 DEF Serving, TxRequest
<1>5. /\ TxTables' /\ HeldExclusive'
      /\ phase'[t] = next /\ held'[t] = held[t] \cup {ProductRow(p)}
      /\ \A u \in Tx \ {t} : /\ phase'[u] = phase[u] /\ request'[u] = request[u]
                             /\ held'[u] = held[u] /\ snapshot'[u] = snapshot[u]
  <2>1. next \in Phase /\ \A row \in Wanted(t) : Free(t, row)
    BY <1>1 DEF Phase, Granted
  <2> QED BY <1>1, <1>3, <1>4, <2>1, AdvanceTyped
<1>6. UNCHANGED <<sales, request, snapshot>>
  BY <1>1 DEF vars, salesVars
<1>7. /\ p \in S /\ p \notin L /\ S \subseteq Product
      /\ Cardinality(L \cup {p}) = Cardinality(L) + 1
      /\ L \cup {p} = {request[t].order[i] : i \in 1..(Cardinality(L) + 1)}
      /\ LastProduct(t) => S \subseteq L \cup {p}
      /\ ~ LastProduct(t) => Cardinality(L \cup {p}) < Cardinality(S)
  BY <1>1, <1>2, NextToLock
<1>8. LockedProducts(t)' = L \cup {p}
  BY <1>5, <1>6, <1>7, RowsApart DEF LockedProducts
<1>9. SnapshotOK(t)' = SnapshotOK(t) /\ Pending(t)' = Pending(t) /\ Folio(t)' = Folio(t)
  BY <1>6 DEF SnapshotOK, Pending, Folio, SalesOf, TxSnapshot
<1>10. FolioHeld(t)'
  <2>1. \A b \in Business, n \in Nat : FolioRow(b, n) \notin held[t]
    BY <1>1, <1>2 DEF Serving, FolioHeld
  <2>2. \A b \in Business, n \in Nat : FolioRow(b, n) \notin held'[t]
    BY <1>5, <2>1, RowsApart
  <2> QED BY <2>2 DEF FolioHeld, FolioRow
<1>11. request[t].kind = "create" => Creating(t)'
  <2> SUFFICES ASSUME request[t].kind = "create" PROVE Creating(t)'
    OBVIOUS
  <2>1. BusinessOf[p] = request[t].business
    BY <1>1 DEF Accepted, ProductAccepted
  <2>2. Creating(t) /\ phase'[t] \in {"productos", "precio"}
    BY <1>2, <1>5 DEF Serving
  <2> QED BY <1>6, <1>8, <2>1, <2>2 DEF Creating
<1>12. request[t].kind = "cancel" => Cancelling(t)'
  BY <1>2, <1>5, <1>6 DEF Serving, Cancelling, SaleRow
<1>13. InOrder(t)'
  <2>1. CASE LastProduct(t)
    <3>1. phase'[t] \in {"precio", "final"} /\ S \subseteq LockedProducts(t)'
      BY <1>5, <1>7, <1>8, <2>1
    <3> QED BY <1>6, <3>1 DEF InOrder
  <2>2. CASE ~ LastProduct(t)
    <3>1. phase'[t] = "productos"
      BY <1>5, <2>2
    <3> QED BY <1>6, <1>7, <1>8, <2>2, <3>1 DEF InOrder
  <2> QED BY <2>1, <2>2
<1>14. Serving(t)'
  BY <1>2, <1>6, <1>9, <1>10, <1>11, <1>12, <1>13 DEF Serving, TxRequest, Orders
<1> HIDE DEF TxInv
<1>15. phase'[t] # "libre"
  BY <1>5
<1> QED BY <1>1, <1>5, <1>14, <1>15, StepOfOne

\* Pricing settles what is paid and what is owed, and the snapshot of a walk-in sale.
LEMMA PriceHolds ==
  ASSUME TxInv, NEW t \in Tx, Price(t)
  PROVE  TxInv'
<1> USE DEF TxInv
<1>1. phase[t] = "precio" /\ Advance(t, {}, "folio") /\ UNCHANGED <<vars, draft>>
  BY DEF Price
<1>2. Serving(t)
  BY <1>1 DEF TransactionsOK
<1>3. request[t] \in TxRequest /\ request[t].kind \in {"create", "cancel"}
  BY <1>2 DEF Serving, TxRequest
<1>4. request[t].kind = "create"
  BY <1>1, <1>2, <1>3 DEF Serving, Cancelling
<1> DEFINE b == request[t].business
           c == request[t].customer
<1>5. b \in Business /\ c \in Customer \cup {NoCustomer}
  BY <1>3 DEF TxRequest
<1>6. PICK total \in Totals, tipoPago \in PaymentType, pagoInicial \in Totals :
        LET inicial == Initial(tipoPago, total, pagoInicial) IN
        /\ ValidPayment(c, tipoPago, total, inicial)
        /\ request' = [request EXCEPT ![t].total = total, ![t].inicial = inicial]
  BY DEF Price
<1> DEFINE inicial == Initial(tipoPago, total, pagoInicial)
<1>7. ValidPayment(c, tipoPago, total, inicial)
  BY <1>6
<1>8. total \in Nat /\ inicial \in Nat /\ total - inicial \in Nat
  BY <1>7, SalesAssumption DEF ValidPayment
<1>9. total - inicial # 0 => c \in Customer
  BY <1>5, <1>7, <1>8 DEF ValidPayment, Initial, PaymentType
<1> HIDE DEF inicial
<1> DEFINE new == [request[t] EXCEPT !.total = total, !.inicial = inicial]
<1>10. request' = [request EXCEPT ![t] = new]
  BY <1>6 DEF inicial
<1>11. /\ new \in TxRequest /\ new.kind = "create" /\ new.business = b /\ new.customer = c
       /\ new.details = request[t].details /\ new.order = request[t].order
       /\ new.total = total /\ new.inicial = inicial
  <2>1. request[t] \in TxRequest /\ total \in Int /\ inicial \in Int
    BY <1>3, <1>8
  <2>2. new \in TxRequest
    BY <2>1 DEF TxRequest
  <2> QED BY <1>4, <2>1, <2>2 DEF TxRequest
<1> HIDE DEF new
<1>12. /\ request' \in [Tx -> TxRequest \cup {NoValue}] /\ request'[t] = new
       /\ \A u \in Tx \ {t} : request'[u] = request[u]
  BY <1>10, <1>11 DEF TxTables
<1>13. /\ Snapshot(b) \in TxSnapshot /\ Snapshot(b).sales <= Cardinality(SalesOf(b))
       /\ snapshot[t] \in TxSnapshot \cup {NoValue}
  BY <1>5, SnapshotTyped DEF TablesOK, TxTables
<1>14. /\ snapshot' \in [Tx -> TxSnapshot \cup {NoValue}]
       /\ snapshot'[t] = IF snapshot[t] = NoValue THEN Snapshot(b) ELSE snapshot[t]
       /\ \A u \in Tx \ {t} : snapshot'[u] = snapshot[u]
  BY <1>13 DEF TxTables, Price
<1>15. /\ phase' \in [Tx -> Phase] /\ phase'[t] = "folio"
       /\ held' = [u \in Tx |-> held'[u]] /\ held'[t] = held[t]
       /\ \A u \in Tx \ {t} : phase'[u] = phase[u] /\ held'[u] = held[u]
       /\ HeldExclusive'
  <2>1. "folio" \in Phase /\ held[t] \cup {} = held[t] /\ \A row \in {} : Free(t, row)
    BY DEF Phase
  <2> QED BY <1>1, <2>1, Advanced, SMTT(60)
<1>16. TxTables'
  BY <1>12, <1>14, <1>15 DEF TxTables, TxRequest, TxSnapshot
<1>17. UNCHANGED sales /\ SalesOf(b)' = SalesOf(b)
  BY <1>1, <1>11, <1>12 DEF SalesOf, vars, salesVars
<1>18. SnapshotOK(t)'
  <2>1. snapshot[t] # NoValue => SnapshotOK(t)
    BY <1>2 DEF Serving
  <2>2. /\ snapshot'[t] \in TxSnapshot
        /\ snapshot'[t].sales <= Cardinality(SalesOf(b))
    BY <1>13, <1>14, <2>1 DEF SnapshotOK
  <2>3. SalesOf(request[t].business)' = SalesOf(b)
    BY <1>11, <1>12, <1>17
  <2> QED BY <2>2, <2>3 DEF SnapshotOK, TxSnapshot
<1>19. Pending(t)' = total - inicial /\ LockedProducts(t)' = LockedProducts(t)
  BY <1>11, <1>12, <1>15 DEF Pending, LockedProducts, ProductRow
<1>20. Priced(t)'
  BY <1>8, <1>9, <1>11, <1>12, <1>19 DEF Priced
<1>21. Creating(t)'
  BY <1>2, <1>4, <1>11, <1>12, <1>15, <1>18, <1>19, <1>20 DEF Serving, Creating
<1>22. InOrder(t)'
  BY <1>1, <1>2, <1>11, <1>12, <1>15, <1>19 DEF Serving, InOrder
<1>23. FolioHeld(t)'
  <2>1. \A n \in Nat, d \in Business : FolioRow(d, n) \notin held[t]
    BY <1>1, <1>2 DEF Serving, FolioHeld
  <2> QED BY <1>15, <2>1 DEF FolioHeld, FolioRow
<1>24. Serving(t)'
  BY <1>2, <1>11, <1>12, <1>18, <1>21, <1>22, <1>23 DEF Serving, TxRequest, Orders
<1> HIDE DEF TxInv
<1> QED BY <1>1, <1>12, <1>14, <1>15, <1>16, <1>24, StepOfOne

\* A folio that is neither taken nor held is the next one, however old the snapshot
\* it was counted in.
LEMMA FolioIsNext ==
  ASSUME TablesOK, NEW t \in Tx, request[t].business \in Business, SnapshotOK(t), ~ FolioTaken(t)
  PROVE  Folio(t) = Cardinality(SalesOf(request[t].business)) + 1
<1> DEFINE b == request[t].business
           n == Cardinality(SalesOf(b))
<1>1. snapshot[t].sales \in Nat /\ snapshot[t].sales <= n /\ n \in Nat
  <2>1. n \in Nat
    BY SalesOfFinite, FS_CardinalityType DEF TablesOK, TypeOK
  <2> QED BY <2>1 DEF SnapshotOK, TxSnapshot
<1>2. \A k \in 1..n : \E s \in SalesOf(b) : sales[s].folio = k
  BY DEF TablesOK, FoliosGiven
<1>3. Folio(t) \notin 1..n
  BY <1>2 DEF FolioTaken
<1> QED BY <1>1, <1>3 DEF Folio

\* The sale goes in under the next folio of its business.
LEMMA InsertSaleHolds ==
  ASSUME TxInv, NEW t \in Tx, InsertSale(t)
  PROVE  TxInv'
<1> USE DEF TxInv
<1> DEFINE b == request[t].business
           next == IF Pending(t) # 0 THEN "cliente" ELSE "final"
<1>1. /\ phase[t] = "folio" /\ Granted(t) /\ Accepted(t)
      /\ Advance(t, Wanted(t), next)
      /\ UNCHANGED <<vars, request, snapshot, draft>>
  BY DEF InsertSale
<1>2. Serving(t)
  BY <1>1 DEF TransactionsOK
<1>3. request[t] \in TxRequest /\ request[t].kind \in {"create", "cancel"} /\ b \in Business
  BY <1>2 DEF Serving, TxRequest
<1>4. request[t].kind = "create"
  BY <1>1, <1>2, <1>3 DEF Serving, Cancelling
<1>5. Wanted(t) = {FolioRow(b, Folio(t))} /\ next \in {"cliente", "final"}
  BY <1>1 DEF Wanted
<1> HIDE DEF next
<1>6. /\ TxTables' /\ HeldExclusive'
      /\ phase'[t] = next /\ held'[t] = held[t] \cup {FolioRow(b, Folio(t))}
      /\ \A u \in Tx \ {t} : /\ phase'[u] = phase[u] /\ request'[u] = request[u]
                             /\ held'[u] = held[u] /\ snapshot'[u] = snapshot[u]
  <2>1. next \in Phase /\ \A row \in Wanted(t) : Free(t, row)
    BY <1>1, <1>5 DEF Phase, Granted
  <2> QED BY <1>1, <1>3, <1>5, <2>1, AdvanceTyped
<1>7. UNCHANGED <<sales, request, snapshot>>
  BY <1>1 DEF vars, salesVars
<1>8. SnapshotOK(t) /\ Priced(t)
  BY <1>1, <1>2, <1>4 DEF Serving, Creating
<1>9. Folio(t) = Cardinality(SalesOf(b)) + 1
  BY <1>1, <1>3, <1>8, FolioIsNext DEF Accepted
<1>10. /\ SnapshotOK(t)' = SnapshotOK(t) /\ Priced(t)' = Priced(t)
       /\ Pending(t)' = Pending(t) /\ Folio(t)' = Folio(t)
  BY <1>7 DEF SnapshotOK, Priced, Pending, Folio, SalesOf, TxSnapshot
<1>11. LockedProducts(t)' = LockedProducts(t)
  BY <1>6, <1>7, RowsApart DEF LockedProducts
<1>12. FolioRow(request[t].business, Folio(t))' \in held'[t]
  BY <1>6, <1>7, <1>10 DEF FolioRow
<1>13. Creating(t)'
  BY <1>2, <1>4, <1>5, <1>6, <1>7, <1>8, <1>10, <1>11, <1>12 DEF Serving, Creating, FolioRow
<1>14. InOrder(t)'
  BY <1>1, <1>2, <1>4, <1>5, <1>6, <1>7, <1>11 DEF Serving, InOrder
<1>15. FolioHeld(t)'
  <2>1. \A d \in Business, n \in Nat : FolioRow(d, n) \notin held[t]
    BY <1>1, <1>2 DEF Serving, FolioHeld
  <2>2. ASSUME NEW d \in Business, NEW n \in Nat, FolioRow(d, n) \in held'[t]
        PROVE  d = b /\ n = Folio(t)
    BY <1>6, <2>1, <2>2, RowsApart
  <2>3. \A d : SalesOf(d)' = SalesOf(d)
    BY <1>7 DEF SalesOf
  <2> QED BY <1>4, <1>5, <1>6, <1>7, <1>9, <1>10, <2>2, <2>3 DEF FolioHeld, FolioRow
<1>16. Serving(t)'
  BY <1>2, <1>4, <1>7, <1>10, <1>13, <1>14, <1>15 DEF Serving, TxRequest, Orders
<1> HIDE DEF TxInv
<1>17. phase'[t] # "libre"
  BY <1>5, <1>6
<1> QED BY <1>1, <1>6, <1>16, <1>17, StepOfOne

\* The customer is the last row a new sale locks, and the second of a cancellation.
LEMMA LockCustomerHolds ==
  ASSUME TxInv, NEW t \in Tx, LockCustomer(t)
  PROVE  TxInv'
<1> USE DEF TxInv
<1> DEFINE b == request[t].business
           c == request[t].customer
           next == IF request[t].kind = "create" THEN "final" ELSE "productos"
<1>1. /\ phase[t] = "cliente" /\ Granted(t)
      /\ Advance(t, Wanted(t), next)
      /\ UNCHANGED <<vars, request, draft>>
  BY DEF LockCustomer
<1>2. IF request[t].kind = "create" THEN UNCHANGED snapshot
      ELSE snapshot' = [snapshot EXCEPT ![t] = Snapshot(b)]
  BY DEF LockCustomer
<1>3. Serving(t)
  BY <1>1 DEF TransactionsOK
<1>4. /\ request[t] \in TxRequest /\ request[t].kind \in {"create", "cancel"}
      /\ b \in Business /\ request[t].details \in Quantities
  BY <1>3 DEF Serving, TxRequest
<1>5. Wanted(t) = {CustomerRow(c)} /\ next \in {"final", "productos"}
  BY <1>1 DEF Wanted
<1>6. /\ TxTables' /\ HeldExclusive'
      /\ phase'[t] = next /\ held'[t] = held[t] \cup {CustomerRow(c)}
      /\ \A u \in Tx \ {t} : /\ phase'[u] = phase[u] /\ request'[u] = request[u]
                             /\ held'[u] = held[u] /\ snapshot'[u] = snapshot[u]
  <2>1. next \in Phase /\ \A row \in Wanted(t) : Free(t, row)
    BY <1>1, <1>5 DEF Phase, Granted
  <2> QED BY <1>1, <1>2, <1>4, <1>5, <2>1, AdvanceTyped
<1>7. UNCHANGED <<sales, request>>
  BY <1>1 DEF vars, salesVars
<1>8. /\ Snapshot(b) \in TxSnapshot /\ Snapshot(b).sales <= Cardinality(SalesOf(b))
  BY <1>4, SnapshotTyped DEF TablesOK
<1>9. snapshot'[t] = IF request[t].kind = "create" THEN snapshot[t] ELSE Snapshot(b)
  BY <1>2 DEF TxTables
<1>10. /\ LockedProducts(t)' = LockedProducts(t)
       /\ \A d \in Business, n \in Nat : FolioRow(d, n) \in held'[t] <=> FolioRow(d, n) \in held[t]
  BY <1>6, <1>7, RowsApart DEF LockedProducts
<1>11. Pending(t)' = Pending(t) /\ \A d : SalesOf(d)' = SalesOf(d)
  BY <1>7 DEF Pending, SalesOf
<1>12. snapshot'[t] # NoValue => SnapshotOK(t)'
  <2>1. snapshot[t] # NoValue => SnapshotOK(t)
    BY <1>3 DEF Serving
  <2>2. snapshot'[t] # NoValue =>
          snapshot'[t] \in TxSnapshot /\ snapshot'[t].sales <= Cardinality(SalesOf(b))
    BY <1>8, <1>9, <2>1 DEF SnapshotOK
  <2>3. SalesOf(request[t].business)' = SalesOf(b)
    BY <1>7, <1>11
  <2> QED BY <2>2, <2>3 DEF SnapshotOK, TxSnapshot
<1>13. (request[t] \in TxRequest /\ request[t].order \in Orders(DOMAIN request[t].details))'
  BY <1>3, <1>7 DEF Serving, TxRequest, Orders
<1>14. request'[t].kind = request[t].kind
  BY <1>7
<1>15. ASSUME request[t].kind = "create" PROVE Serving(t)'
  <2>1. /\ Folio(t)' = Folio(t) /\ SnapshotOK(t)' = SnapshotOK(t) /\ Priced(t)' = Priced(t)
    BY <1>7, <1>9, <1>11, <1>15 DEF Folio, SnapshotOK, Priced, TxSnapshot
  <2>2. Creating(t) /\ phase'[t] = "final"
    BY <1>3, <1>6, <1>15 DEF Serving
  <2>3. FolioRow(b, Folio(t))' \in held'[t]
    BY <1>1, <1>6, <1>7, <2>1, <2>2 DEF Creating, FolioRow
  <2>4. Creating(t)'
    BY <1>1, <1>7, <1>10, <2>1, <2>2, <2>3 DEF Creating
  <2>5. InOrder(t)'
    BY <1>1, <1>3, <1>7, <1>10, <1>15, <2>2 DEF Serving, InOrder
  <2>6. FolioHeld(t)'
    <3>1. ASSUME NEW d \in Business, NEW n \in Nat, FolioRow(d, n) \in held[t]
          PROVE  d = b /\ n = Folio(t) /\ n = Cardinality(SalesOf(d)) + 1
      BY <1>3, <3>1 DEF Serving, FolioHeld
    <3> QED BY <1>7, <1>10, <1>11, <1>15, <2>1, <2>2, <3>1 DEF FolioHeld, FolioRow
  <2> QED BY <1>12, <1>15, <1>13, <1>14, <2>4, <2>5, <2>6 DEF Serving
<1>16. ASSUME request[t].kind = "cancel" PROVE Serving(t)'
  <2>1. Cancelling(t) /\ phase'[t] = "productos"
    BY <1>3, <1>6, <1>16 DEF Serving
  <2>2. Cancelling(t)'
    BY <1>6, <1>7, <2>1 DEF Cancelling, SaleRow
  <2>3. InOrder(t)'
    <3>1. LockedProducts(t) = {}
      BY <1>1, <1>3, <1>16 DEF Serving, InOrder
    <3>2. Cardinality({}) = 0 /\ Cardinality(DOMAIN request[t].details) \in Nat \ {0}
      BY <1>4, FS_EmptySet, QuantitiesFinite
    <3>3. {request[t].order[i] : i \in 1..0} = {}
      OBVIOUS
    <3> QED BY <1>7, <1>10, <2>1, <3>1, <3>2, <3>3 DEF InOrder
  <2>4. FolioHeld(t)'
    <3>1. \A d \in Business, n \in Nat : FolioRow(d, n) \notin held[t]
      BY <1>3, <1>16 DEF Serving, FolioHeld
    <3> QED BY <1>10, <3>1 DEF FolioHeld, FolioRow
  <2> QED BY <1>12, <1>16, <1>13, <1>14, <2>2, <2>3, <2>4 DEF Serving
<1>17. Serving(t)' /\ phase'[t] # "libre"
  <2>1. phase'[t] # "libre"
    BY <1>5, <1>6
  <2> QED BY <1>4, <1>15, <1>16, <2>1
<1> HIDE DEF TxInv
<1> QED BY <1>1, <1>6, <1>17, StepOfOne

\* A transaction that is refused, chosen by the deadlock detector or cut off writes
\* nothing and frees its rows.
LEMMA ForgetHolds ==
  ASSUME TxInv, NEW t \in Tx, Forget(t), UNCHANGED <<vars, draft>>
  PROVE  TxInv'
<1>1. /\ TxTables' /\ HeldExclusive'
      /\ phase'[t] = "libre" /\ Idle(t)'
      /\ \A u \in Tx \ {t} : /\ phase'[u] = phase[u] /\ request'[u] = request[u]
                             /\ held'[u] = held[u] /\ snapshot'[u] = snapshot[u]
  BY Forgotten DEF TxInv
<1> QED BY <1>1, StepOfOne

-----------------------------------------------------------------------------
(***************************************************************************)
(* The commits.  save() may leave a column as another transaction or an    *)
(* edit left it, so a balance or a stock need not be what its row says;    *)
(* the rows themselves are always the transaction's own.                   *)
(***************************************************************************)
\* The stock a commit writes is one it read or one it has checked.
LEMMA StockWrittenTyped ==
  ASSUME InventoryTypeOK, NEW S \in SUBSET Product, NEW delta \in [S -> Int], CanChange(delta),
         NEW tipo \in MovementType, NEW referencia \in Nat,
         NEW t \in Tx, stock' = StockWritten(t, delta),
         movements' = Recorded(delta, tipo, referencia)
  PROVE  InventoryTypeOK' /\ RowsAdded(S, delta, tipo, referencia)
<1>1. /\ Shifted(delta) \in [Product -> 0..StockLimit]
      /\ Recorded(delta, tipo, referencia) \in [Product -> Seq(InventoryMovement)]
  BY RecordedTyped
<1>2. \A p \in Product : StockWritten(t, delta)[p] \in 0..StockLimit
  BY <1>1 DEF StockWritten, Saved, InventoryTypeOK
<1>3. stock' \in [Product -> 0..StockLimit]
  BY <1>2 DEF StockWritten
<1> QED BY <1>1, <1>3, ChangeAddsRows DEF InventoryTypeOK

\* What is pending is one row of the customer's account, and nothing else.
LEMMA AccountIsWritten ==
  ASSUME AccountsTypeOK, NEW t \in Tx, NEW c, c = request[t].customer,
         NEW tipo \in AccountMovementType,
         NEW cargo \in Nat, NEW abono \in Nat, NEW id \in Nat,
         AccountWritten(t, tipo, cargo, abono, id),
         Pending(t) # 0 => c \in Customer /\ CanMove(c, balance[c] + cargo - abono)
  PROVE  /\ AccountsTypeOK' /\ UNCHANGED payments
         /\ Pending(t) = 0 => UNCHANGED account
         /\ Pending(t) # 0 => RowWritten(c, tipo, cargo, abono, id)
<1>1. CASE Pending(t) = 0
  BY <1>1 DEF AccountWritten, accountsVars, AccountsTypeOK
<1>2. CASE Pending(t) # 0
  <2> DEFINE nuevo == balance[c] + cargo - abono
  <2>1. c \in Customer /\ CanMove(c, nuevo) /\ nuevo \in Int /\ nuevo \in 0..BalanceLimit
    BY <1>2, AccountsAssumption DEF AccountsTypeOK, CanMove
  <2>2. /\ balance' = [balance EXCEPT ![c] = Saved(@, snapshot[t].balance[c], nuevo)]
        /\ account' = [account EXCEPT ![c] = Append(@, AccountRow(c, tipo, cargo, abono, nuevo, id))]
        /\ UNCHANGED <<customers, payments>>
    BY <1>2 DEF AccountWritten
  <2> HIDE DEF nuevo
  <2>3. balance' \in [Customer -> 0..BalanceLimit]
    BY <2>1, <2>2 DEF Saved, AccountsTypeOK
  <2>4. account' \in [Customer -> Seq(AccountMovement)]
    BY <2>1, <2>2, AccountRowTyped
  <2>5. RowWritten(c, tipo, cargo, abono, id)
    BY <2>1, <2>2, AppendWritesRow
  <2> QED BY <1>2, <2>2, <2>3, <2>4, <2>5 DEF AccountsTypeOK
<1> QED BY <1>1, <1>2

\* What the commit of create() leaves in the tables.
SaleRecorded(new) ==
  /\ new \in Sale /\ new.estatus = "COMPLETADA"
  /\ new.folio = Cardinality(SalesOf(new.business)) + 1
  /\ new.saldoPendiente = new.total - new.pagoInicial
  /\ new.saldoPendiente > 0 => new.customer \in Customer
  /\ new.customer # NoCustomer => BusinessOf[new.customer] = new.business
  /\ \A p \in DOMAIN new.details : BusinessOf[p] = new.business
  /\ sales' = Append(sales, new)
  /\ RowsAdded(DOMAIN new.details, Taken(new.details), "VENTA", Len(sales) + 1)
  /\ \/ new.saldoPendiente = 0 /\ UNCHANGED account
     \/ /\ new.saldoPendiente > 0
        /\ RowWritten(new.customer, "VENTA_CREDITO", new.saldoPendiente, 0, Len(sales) + 1)
  /\ UNCHANGED <<productActive, payments>>
  /\ InventoryTypeOK' /\ AccountsTypeOK'

\* What the commit of cancel() leaves in the tables.
SaleReturned(r) ==
  /\ sales[r].estatus # "CANCELADA"
  /\ sales' = [sales EXCEPT ![r].estatus = "CANCELADA"]
  /\ RowsAdded(DOMAIN sales[r].details, sales[r].details, "CANCELACION_VENTA", r)
  /\ \/ sales[r].saldoPendiente = 0 /\ UNCHANGED account
     \/ /\ sales[r].saldoPendiente > 0
        /\ RowWritten(sales[r].customer, "CANCELACION_VENTA", 0, sales[r].saldoPendiente, r)
  /\ UNCHANGED <<productActive, payments>>
  /\ InventoryTypeOK' /\ AccountsTypeOK'

\* The quantities of a sale, taken or returned, are differences of its products.
LEMMA QuantitiesDiffer ==
  ASSUME NEW q \in Quantities
  PROVE  /\ DOMAIN q \in SUBSET Product
         /\ q \in [DOMAIN q -> Int] /\ Taken(q) \in [DOMAIN q -> Int]
         /\ \A p \in DOMAIN q : Directed("VENTA", Taken(q)[p])
         /\ \A p \in DOMAIN q : Directed("CANCELACION_VENTA", q[p])
<1>1. PICK S \in SUBSET Product :
        /\ q \in [S -> Int] /\ Taken(q) \in [S -> Int]
        /\ \A p \in S : Directed("VENTA", Taken(q)[p])
        /\ \A p \in S : Directed("CANCELACION_VENTA", q[p])
  BY QuantitiesDirected
<1>2. S = DOMAIN q
  BY <1>1
<1> QED BY <1>1, <1>2

\* create() commits a sale of its tenant, under the folio it holds.
LEMMA CommitCreateRecords ==
  ASSUME TxInv, NEW t \in Tx, CommitCreate(t)
  PROVE  \E new : SaleRecorded(new) /\ new.business = request[t].business
<1> USE DEF TxInv, TablesOK, TypeOK
<1> DEFINE r == request[t]
           id == Len(sales) + 1
           new == NewSale(r.business, r.customer, r.details, r.total, r.inicial, Folio(t))
           owed == Pending(t)
<1>1. /\ phase[t] = "final" /\ r.kind = "create" /\ Committable(t)
      /\ sales' = Append(sales, new)
      /\ stock' = StockWritten(t, Delta(t))
      /\ movements' = Recorded(Delta(t), "VENTA", id)
      /\ AccountWritten(t, "VENTA_CREDITO", owed, 0, id)
      /\ UNCHANGED productActive
  BY DEF CommitCreate
<1>2. Serving(t)
  BY <1>1 DEF TransactionsOK
<1>3. /\ r.business \in Business /\ r.customer \in Customer \cup {NoCustomer}
      /\ r.details \in Quantities
  BY <1>2 DEF Serving, TxRequest
<1>4. /\ Creating(t) /\ SnapshotOK(t) /\ Priced(t)
      /\ FolioRow(r.business, Folio(t)) \in held[t]
  BY <1>1, <1>2 DEF Serving, Creating
<1>5. Folio(t) \in Nat /\ Folio(t) = Cardinality(SalesOf(r.business)) + 1
  <2>1. Folio(t) \in Nat
    BY <1>4 DEF Folio, SnapshotOK, TxSnapshot
  <2> QED BY <1>2, <1>3, <1>4, <2>1 DEF Serving, FolioHeld
<1>6. /\ r.total \in Nat /\ r.inicial \in Nat /\ owed \in Nat /\ owed = r.total - r.inicial
      /\ owed # 0 => r.customer \in Customer
  BY <1>4 DEF Priced, Pending
<1>7. /\ new \in Sale /\ new.estatus = "COMPLETADA" /\ new.folio = Folio(t)
      /\ new.business = r.business /\ new.customer = r.customer /\ new.details = r.details
      /\ new.total = r.total /\ new.pagoInicial = r.inicial /\ new.saldoPendiente = owed
  <2>1. new \in Sale
    BY <1>3, <1>5, <1>6 DEF NewSale, Sale
  <2> QED BY <1>6, <2>1 DEF NewSale
<1> HIDE DEF new, owed
<1>8. id \in Nat /\ "VENTA" \in MovementType /\ "VENTA_CREDITO" \in AccountMovementType /\ 0 \in Nat
  BY DEF SalesTypeOK, MovementType, AccountMovementType
<1>9. Delta(t) = Taken(r.details) /\ Owed(t) = owed
  BY <1>1 DEF Delta, Owed, owed
<1>10. InventoryTypeOK' /\ RowsAdded(DOMAIN r.details, Taken(r.details), "VENTA", id)
  <2>1. DOMAIN r.details \in SUBSET Product /\ Taken(r.details) \in [DOMAIN r.details -> Int]
    BY <1>3, QuantitiesDiffer
  <2>2. CanChange(Taken(r.details))
    BY <1>1, <1>9 DEF Committable
  <2> QED BY <1>1, <1>8, <1>9, <2>1, <2>2, StockWrittenTyped
<1>11. /\ AccountsTypeOK' /\ UNCHANGED payments
       /\ owed = 0 => UNCHANGED account
       /\ owed # 0 => RowWritten(r.customer, "VENTA_CREDITO", owed, 0, id)
  <2>1. owed # 0 => /\ r.customer \in Customer
                    /\ CanMove(r.customer, balance[r.customer] + owed - 0)
    <3> SUFFICES ASSUME owed # 0 PROVE CanMove(r.customer, balance[r.customer] + owed - 0)
      BY <1>6
    <3>1. balance[r.customer] \in Int
      BY <1>6, AccountsAssumption DEF AccountsTypeOK
    <3>2. balance[r.customer] + owed - 0 = balance[r.customer] + Owed(t)
      BY <1>6, <1>9, <3>1
    <3> QED BY <1>1, <3>2 DEF Committable, owed
  <2> QED BY <1>1, <1>6, <1>8, <2>1, AccountIsWritten DEF owed
<1>12. /\ new.customer # NoCustomer => BusinessOf[new.customer] = new.business
       /\ \A p \in DOMAIN new.details : BusinessOf[p] = new.business
  <2>1. DOMAIN r.details \subseteq LockedProducts(t)
    BY <1>1, <1>2 DEF Serving, InOrder
  <2> QED BY <1>4, <1>7, <2>1 DEF Creating
<1>13. /\ new.saldoPendiente > 0 <=> owed # 0
       /\ new.saldoPendiente = 0 <=> owed = 0
       /\ new.saldoPendiente = new.total - new.pagoInicial
  BY <1>6, <1>7
<1>14. SaleRecorded(new)
  BY <1>1, <1>5, <1>6, <1>7, <1>10, <1>11, <1>12, <1>13 DEF SaleRecorded
<1> QED BY <1>7, <1>14

\* cancel() commits the return of the sale it has locked.
LEMMA CommitCancelReturns ==
  ASSUME TxInv, NEW t \in Tx, CommitCancel(t)
  PROVE  \E s \in DOMAIN sales : SaleReturned(s) /\ SaleRow(s) \in held[t]
<1> USE DEF TxInv, TablesOK, TypeOK
<1> DEFINE r == request[t]
           s == request[t].sale
           q == sales[s].details
           c == sales[s].customer
           owed == Pending(t)
<1>1. /\ phase[t] = "final" /\ r.kind = "cancel" /\ Committable(t)
      /\ sales' = [sales EXCEPT ![s].estatus = "CANCELADA"]
      /\ stock' = StockWritten(t, Delta(t))
      /\ movements' = Recorded(Delta(t), "CANCELACION_VENTA", s)
      /\ AccountWritten(t, "CANCELACION_VENTA", 0, owed, s)
      /\ UNCHANGED productActive
  BY DEF CommitCancel
<1>2. Cancelling(t)
  BY <1>1 DEF TransactionsOK, Serving
<1>3. /\ s \in DOMAIN sales /\ SaleRow(s) \in held[t] /\ sales[s].estatus # "CANCELADA"
      /\ r.details = q /\ r.customer = c
      /\ r.total = sales[s].total /\ r.inicial = sales[s].pagoInicial
  BY <1>2 DEF Cancelling
<1>4. s \in Nat /\ sales[s] \in Sale
  BY <1>3 DEF SalesTypeOK
<1>5. q \in Quantities /\ sales[s].saldoPendiente \in Nat
  BY <1>4 DEF Sale
<1>6. owed = sales[s].saldoPendiente
  BY <1>3 DEF Pending, SalesAddUp
<1>7. owed # 0 => c \in Customer
  BY <1>3, <1>5, <1>6 DEF CreditHasCustomer
<1>8. /\ "CANCELACION_VENTA" \in MovementType
      /\ "CANCELACION_VENTA" \in AccountMovementType /\ 0 \in Nat
  BY DEF MovementType, AccountMovementType
<1>9. Delta(t) = q /\ Owed(t) = - owed
  BY <1>1, <1>3 DEF Delta, Owed
<1> HIDE DEF owed
<1>10. InventoryTypeOK' /\ RowsAdded(DOMAIN q, q, "CANCELACION_VENTA", s)
  <2>1. DOMAIN q \in SUBSET Product /\ q \in [DOMAIN q -> Int]
    BY <1>5, QuantitiesDiffer
  <2>2. CanChange(q)
    BY <1>1, <1>9 DEF Committable
  <2> QED BY <1>1, <1>4, <1>8, <1>9, <2>1, <2>2, StockWrittenTyped
<1>11. /\ AccountsTypeOK' /\ UNCHANGED payments
       /\ owed = 0 => UNCHANGED account
       /\ owed # 0 => RowWritten(c, "CANCELACION_VENTA", 0, owed, s)
  <2>1. owed # 0 => c \in Customer /\ CanMove(c, balance[c] + 0 - owed)
    <3> SUFFICES ASSUME owed # 0 PROVE CanMove(c, balance[c] + 0 - owed)
      BY <1>7
    <3>1. balance[c] \in Int
      BY <1>7, AccountsAssumption DEF AccountsTypeOK
    <3>2. balance[c] + 0 - owed = balance[c] + Owed(t)
      BY <1>5, <1>6, <1>9, <3>1
    <3> QED BY <1>1, <1>3, <3>2 DEF Committable, owed
  <2> QED BY <1>1, <1>3, <1>4, <1>5, <1>6, <1>8, <2>1, AccountIsWritten DEF owed
<1>12. SaleReturned(s)
  BY <1>1, <1>3, <1>5, <1>6, <1>10, <1>11 DEF SaleReturned
<1> QED BY <1>3, <1>12

\* The sales of each business after one sale more.
LEMMA SalesOfNew ==
  ASSUME SalesTypeOK, NEW new \in Sale, sales' = Append(sales, new), NEW b
  PROVE  /\ SalesTypeOK' <=> productActive' \in [Product -> BOOLEAN]
         /\ DOMAIN sales' = DOMAIN sales \cup {Len(sales) + 1} /\ Len(sales) + 1 \notin DOMAIN sales
         /\ sales'[Len(sales) + 1] = new /\ \A s \in DOMAIN sales : sales'[s] = sales[s]
         /\ SalesOf(b)' = IF b = new.business THEN SalesOf(b) \cup {Len(sales) + 1} ELSE SalesOf(b)
         /\ Cardinality(SalesOf(b)) \in Nat
         /\ Cardinality(SalesOf(b)') =
              IF b = new.business THEN Cardinality(SalesOf(b)) + 1 ELSE Cardinality(SalesOf(b))
<1> DEFINE n == Len(sales) + 1
<1>1. /\ sales' \in Seq(Sale) /\ DOMAIN sales = 1..Len(sales) /\ DOMAIN sales' = 1..n
      /\ Len(sales) \in Nat
      /\ sales'[n] = new /\ \A s \in 1..Len(sales) : sales'[s] = sales[s]
  BY AppendProperties DEF SalesTypeOK
<1>2. DOMAIN sales' = DOMAIN sales \cup {n} /\ n \notin DOMAIN sales
  BY <1>1
<1> HIDE DEF n
<1>3. SalesOf(b)' = IF b = new.business THEN SalesOf(b) \cup {n} ELSE SalesOf(b)
  <2>1. \A s \in DOMAIN sales : s \in SalesOf(b)' <=> s \in SalesOf(b)
    BY <1>1, <1>2 DEF SalesOf
  <2>2. n \in SalesOf(b)' <=> new.business = b
    BY <1>1, <1>2 DEF SalesOf
  <2>3. SalesOf(b)' \subseteq DOMAIN sales \cup {n} /\ SalesOf(b) \subseteq DOMAIN sales
    BY <1>2 DEF SalesOf
  <2> DEFINE after == SalesOf(b)'
             before == SalesOf(b)
  <2>4. /\ \A s \in DOMAIN sales : s \in after <=> s \in before
        /\ n \in after <=> new.business = b
        /\ after \subseteq DOMAIN sales \cup {n} /\ before \subseteq DOMAIN sales
    BY <2>1, <2>2, <2>3
  <2> HIDE DEF after, before
  <2>5. CASE b = new.business
    <3>1. after = before \cup {n}
      BY <2>4, <2>5
    <3> QED BY <2>5, <3>1 DEF after, before
  <2>6. CASE b # new.business
    <3>1. after = before
      BY <2>4, <2>6
    <3> QED BY <2>6, <3>1 DEF after, before
  <2> QED BY <2>5, <2>6
<1>4. IsFiniteSet(SalesOf(b)) /\ n \notin SalesOf(b) /\ Cardinality(SalesOf(b)) \in Nat
  BY <1>2, SalesOfFinite, FS_CardinalityType DEF SalesOf
<1>5. Cardinality(SalesOf(b) \cup {n}) = Cardinality(SalesOf(b)) + 1
  BY <1>4, FS_AddElement
<1>6. SalesTypeOK' <=> productActive' \in [Product -> BOOLEAN]
  BY <1>1 DEF SalesTypeOK
<1> QED BY <1>1, <1>2, <1>3, <1>4, <1>5, <1>6 DEF n

\* The tables after the commit of create().
LEMMA TablesOfNew ==
  ASSUME TablesOK, NEW new, SaleRecorded(new), new.business \in Business
  PROVE  TablesOK'
<1> USE DEF TablesOK, TypeOK
<1> DEFINE id == Len(sales) + 1
           q == new.details
<1>1. /\ new \in Sale /\ new.estatus = "COMPLETADA" /\ sales' = Append(sales, new)
      /\ UNCHANGED <<productActive, payments>> /\ InventoryTypeOK' /\ AccountsTypeOK'
      /\ RowsAdded(DOMAIN q, Taken(q), "VENTA", id)
  BY DEF SaleRecorded
<1>2. /\ id \in Nat /\ new.saldoPendiente \in Nat /\ q \in Quantities
      /\ "VENTA" \in MovementType /\ "VENTA_CREDITO" \in {"VENTA_CREDITO", "CANCELACION_VENTA"}
      /\ 0 \in Nat
  BY <1>1 DEF SalesTypeOK, Sale, MovementType
<1>3. /\ DOMAIN q \in SUBSET Product /\ q \in [DOMAIN q -> Int]
      /\ \A p \in DOMAIN q : Directed("VENTA", Taken(q)[p])
  BY <1>2, QuantitiesDiffer
<1>4. /\ SalesTypeOK'
      /\ DOMAIN sales' = DOMAIN sales \cup {id} /\ id \notin DOMAIN sales
      /\ sales'[id] = new /\ \A s \in DOMAIN sales : sales'[s] = sales[s]
  BY <1>1, SalesOfNew DEF SalesTypeOK
<1>5. SalesTold'
  BY <1>1, <1>2, <1>3, ToldOfNew
<1>6. MovementDirection'
  BY <1>1, <1>2, <1>3, DirectionOfRows
<1>7. SalesCharged'
  BY <1>1, <1>2, ChargedOfNew DEF SaleRecorded
<1>8. PaymentsTold'
  <2>1. CASE UNCHANGED account
    BY <1>1, <2>1, PaymentsKept
  <2>2. CASE /\ new.saldoPendiente > 0
             /\ RowWritten(new.customer, "VENTA_CREDITO", new.saldoPendiente, 0, id)
    <3>1. new.customer \in Customer
      BY <2>2 DEF SaleRecorded
    <3> QED BY <1>1, <1>2, <2>2, <3>1, PaymentsKept
  <2> QED BY <2>1, <2>2 DEF SaleRecorded
<1>9. FoliosGapless'
  BY <1>1, FoliosOfNew DEF SaleRecorded
<1>10. SalesOfTenant'
  BY <1>1, TenantOfNew DEF SaleRecorded
<1>11. CreditHasCustomer' /\ SalesAddUp'
  BY <1>4 DEF SaleRecorded, CreditHasCustomer, SalesAddUp
<1>12. FoliosGiven'
  <2> SUFFICES ASSUME NEW b \in Business, NEW n \in 1..Cardinality(SalesOf(b)')
               PROVE  \E s \in SalesOf(b)' : sales'[s].folio = n
    BY DEF FoliosGiven
  <2>1. /\ SalesOf(b)' = IF b = new.business THEN SalesOf(b) \cup {id} ELSE SalesOf(b)
        /\ Cardinality(SalesOf(b)) \in Nat
        /\ Cardinality(SalesOf(b)') =
             IF b = new.business THEN Cardinality(SalesOf(b)) + 1 ELSE Cardinality(SalesOf(b))
    BY <1>1, SalesOfNew
  <2>2. CASE n \in 1..Cardinality(SalesOf(b))
    <3>1. PICK s \in SalesOf(b) : sales[s].folio = n
      BY <2>2 DEF FoliosGiven
    <3>2. s \in SalesOf(b)' /\ sales'[s] = sales[s]
      BY <1>4, <2>1 DEF SalesOf
    <3> QED BY <3>1, <3>2
  <2>3. CASE n \notin 1..Cardinality(SalesOf(b))
    <3>1. b = new.business /\ n = Cardinality(SalesOf(b)) + 1
      BY <2>1, <2>3
    <3>2. id \in SalesOf(b)' /\ sales'[id].folio = n
      BY <1>4, <2>1, <3>1 DEF SaleRecorded
    <3> QED BY <3>2
  <2> QED BY <2>2, <2>3
<1> QED BY <1>1, <1>4, <1>5, <1>6, <1>7, <1>8, <1>9, <1>10, <1>11, <1>12

\* The tables after the commit of cancel().
LEMMA TablesOfReturned ==
  ASSUME TablesOK, NEW r \in DOMAIN sales, SaleReturned(r)
  PROVE  TablesOK' /\ \A b : SalesOf(b)' = SalesOf(b)
<1> USE DEF TablesOK, TypeOK
<1> DEFINE q == sales[r].details
<1>1. /\ sales[r].estatus # "CANCELADA" /\ sales' = [sales EXCEPT ![r].estatus = "CANCELADA"]
      /\ UNCHANGED <<productActive, payments>> /\ InventoryTypeOK' /\ AccountsTypeOK'
      /\ RowsAdded(DOMAIN q, q, "CANCELACION_VENTA", r)
  BY DEF SaleReturned
<1>2. /\ r \in Nat /\ sales[r].saldoPendiente \in Nat /\ q \in Quantities
      /\ "CANCELACION_VENTA" \in MovementType
      /\ "CANCELACION_VENTA" \in {"VENTA_CREDITO", "CANCELACION_VENTA"}
      /\ 0 \in Nat
  <2>1. r \in Nat /\ sales[r] \in Sale
    BY DEF SalesTypeOK
  <2> QED BY <2>1 DEF Sale, MovementType
<1>3. /\ DOMAIN q \in SUBSET Product /\ q \in [DOMAIN q -> Int]
      /\ \A p \in DOMAIN q : Directed("CANCELACION_VENTA", q[p])
  BY <1>2, QuantitiesDiffer
<1>4. /\ sales' \in Seq(Sale) /\ Len(sales') = Len(sales) /\ sales[r] \in Sale
      /\ sales'[r] = [sales[r] EXCEPT !.estatus = "CANCELADA"]
      /\ sales'[r].customer = sales[r].customer
      /\ sales'[r].business = sales[r].business
      /\ sales'[r].folio = sales[r].folio
      /\ sales'[r].saldoPendiente = sales[r].saldoPendiente
      /\ \A x \in 1..Len(sales) : x # r => sales'[x] = sales[x]
  BY <1>1, SaleCancelled
<1>5. SalesTypeOK' /\ DOMAIN sales' = DOMAIN sales /\ DOMAIN sales = 1..Len(sales)
  BY <1>1, <1>4 DEF SalesTypeOK
<1>6. \A x \in DOMAIN sales : /\ sales'[x].customer = sales[x].customer
                              /\ sales'[x].business = sales[x].business
                              /\ sales'[x].folio = sales[x].folio
                              /\ sales'[x].saldoPendiente = sales[x].saldoPendiente
  BY <1>4, <1>5
<1>7. \A b : SalesOf(b)' = SalesOf(b)
  BY <1>5, <1>6 DEF SalesOf
<1>8. SalesTold'
  BY <1>1, <1>3, ToldOfCancelled
<1>9. MovementDirection'
  BY <1>1, <1>2, <1>3, DirectionOfRows
<1>10. SalesCharged'
  BY <1>1, ChargedOfCancelled DEF SaleReturned
<1>11. PaymentsTold'
  <2>1. CASE UNCHANGED account
    BY <1>1, <2>1, PaymentsKept
  <2>2. CASE /\ sales[r].saldoPendiente > 0
             /\ RowWritten(sales[r].customer, "CANCELACION_VENTA", 0, sales[r].saldoPendiente, r)
    <3>1. sales[r].customer \in Customer
      BY <2>2 DEF CreditHasCustomer
    <3> QED BY <1>1, <1>2, <2>2, <3>1, PaymentsKept
  <2> QED BY <2>1, <2>2 DEF SaleReturned
<1>12. FoliosGapless'
  BY <1>1, FoliosOfCancelled
<1>13. SalesOfTenant'
  BY <1>1, TenantOfCancelled
<1>14. CreditHasCustomer'
  BY <1>5, <1>6 DEF CreditHasCustomer
<1>15. SalesAddUp'
  <2>1. sales'[r].total = sales[r].total /\ sales'[r].pagoInicial = sales[r].pagoInicial
    BY <1>4 DEF Sale
  <2>2. \A x \in DOMAIN sales : sales'[x].total = sales[x].total
                                  /\ sales'[x].pagoInicial = sales[x].pagoInicial
    BY <1>4, <1>5, <2>1
  <2> QED BY <1>5, <1>6, <2>2 DEF SalesAddUp
<1>16. FoliosGiven'
  <2> SUFFICES ASSUME NEW b \in Business, NEW n \in 1..Cardinality(SalesOf(b)')
               PROVE  \E s \in SalesOf(b)' : sales'[s].folio = n
    BY DEF FoliosGiven
  <2>1. PICK s \in SalesOf(b) : sales[s].folio = n
    BY <1>7 DEF FoliosGiven
  <2>2. s \in DOMAIN sales
    BY DEF SalesOf
  <2> QED BY <1>6, <1>7, <2>1, <2>2
<1> QED BY <1>1, <1>5, <1>7, <1>8, <1>9, <1>10, <1>11, <1>12, <1>13, <1>14, <1>15, <1>16

\* A commit keeps the invariant if the tables agree and the others can go on.
LEMMA CommitHolds ==
  ASSUME TxInv, NEW t \in Tx, Forget(t), UNCHANGED draft, TablesOK',
         \A b \in Business : /\ Cardinality(SalesOf(b)) \in Nat /\ Cardinality(SalesOf(b)') \in Nat
                             /\ Cardinality(SalesOf(b)) <= Cardinality(SalesOf(b)'),
         \A u \in Tx \ {t}, b \in Business, n \in Nat : FolioRow(b, n) \in held[u] =>
            Cardinality(SalesOf(b)') = Cardinality(SalesOf(b)),
         \A u \in Tx \ {t}, s \in DOMAIN sales : SaleRow(s) \in held[u] =>
            s \in DOMAIN sales' /\ sales'[s] = sales[s]
  PROVE  TxInv'
<1>1. /\ TxTables' /\ HeldExclusive'
      /\ phase'[t] = "libre" /\ Idle(t)'
      /\ \A u \in Tx \ {t} : /\ phase'[u] = phase[u] /\ request'[u] = request[u]
                             /\ held'[u] = held[u] /\ snapshot'[u] = snapshot[u]
  BY Forgotten DEF TxInv
<1>2. ASSUME NEW u \in Tx
      PROVE  (IF phase[u] = "libre" THEN Idle(u) ELSE Serving(u))'
  <2>1. IF phase[u] = "libre" THEN Idle(u) ELSE Serving(u)
    BY DEF TxInv, TransactionsOK
  <2>2. CASE u = t
    BY <1>1, <2>2
  <2>3. CASE u # t /\ phase[u] = "libre"
    BY <1>1, <2>1, <2>3 DEF Idle
  <2>4. CASE u # t /\ phase[u] # "libre"
    <3>1. Serving(u)'
      BY <1>1, <2>1, <2>4, OthersServe
    <3> QED BY <1>1, <2>4, <3>1
  <2> QED BY <2>2, <2>3, <2>4
<1>3. TransactionsOK'
  BY <1>2 DEF TransactionsOK
<1>4. Drafts'
  BY DEF TxInv, Drafts
<1> QED BY <1>1, <1>3, <1>4 DEF TxInv

\* The commit of a sale: no other transaction holds a folio of its business.
LEMMA CommitCreateHolds ==
  ASSUME TxInv, NEW t \in Tx, CommitCreate(t)
  PROVE  TxInv'
<1> DEFINE b0 == request[t].business
<1>1. PICK new : SaleRecorded(new) /\ new.business = b0
  BY CommitCreateRecords
<1>2. Forget(t) /\ UNCHANGED draft /\ phase[t] = "final" /\ request[t].kind = "create"
  BY DEF CommitCreate
<1>3. Serving(t)
  BY <1>2 DEF TxInv, TransactionsOK
<1>4. b0 \in Business
  BY <1>3 DEF Serving, TxRequest
<1>5. /\ Folio(t) \in Nat /\ Folio(t) = Cardinality(SalesOf(b0)) + 1
      /\ FolioRow(b0, Folio(t)) \in held[t]
  <2>1. SnapshotOK(t) /\ FolioRow(b0, Folio(t)) \in held[t]
    BY <1>2, <1>3 DEF Serving, Creating
  <2>2. Folio(t) \in Nat
    BY <2>1 DEF Folio, SnapshotOK, TxSnapshot
  <2> QED BY <1>3, <1>4, <2>1, <2>2 DEF Serving, FolioHeld
<1>6. /\ new \in Sale /\ sales' = Append(sales, new) /\ SalesTypeOK
  BY <1>1 DEF SaleRecorded, TxInv, TablesOK, TypeOK
<1>7. TablesOK'
  BY <1>1, <1>4, TablesOfNew DEF TxInv
<1>8. ASSUME NEW b \in Business
      PROVE  /\ Cardinality(SalesOf(b)) \in Nat /\ Cardinality(SalesOf(b)') \in Nat
             /\ Cardinality(SalesOf(b)) <= Cardinality(SalesOf(b)')
             /\ b # b0 => Cardinality(SalesOf(b)') = Cardinality(SalesOf(b))
  <2>1. /\ Cardinality(SalesOf(b)) \in Nat
        /\ Cardinality(SalesOf(b)') =
             IF b = new.business THEN Cardinality(SalesOf(b)) + 1 ELSE Cardinality(SalesOf(b))
    BY <1>6, SalesOfNew
  <2> QED BY <1>1, <2>1
<1>9. ASSUME NEW u \in Tx \ {t}, NEW b \in Business, NEW n \in Nat, FolioRow(b, n) \in held[u]
      PROVE  Cardinality(SalesOf(b)') = Cardinality(SalesOf(b))
  <2>1. held[u] \cap held[t] = {}
    BY DEF TxInv, HeldExclusive
  <2>2. phase[u] # "libre"
    BY <1>9 DEF TxInv, TransactionsOK, Idle
  <2>3. n = Cardinality(SalesOf(b)) + 1
    BY <1>9, <2>2 DEF TxInv, TransactionsOK, Serving, FolioHeld
  <2>4. b # b0
    BY <1>5, <1>9, <2>1, <2>3
  <2> QED BY <1>8, <2>4
<1>10. \A s \in DOMAIN sales : s \in DOMAIN sales' /\ sales'[s] = sales[s]
  BY <1>6, SalesOfNew
<1> QED BY <1>2, <1>7, <1>8, <1>9, <1>10, CommitHolds

\* The commit of a cancellation: no other transaction holds its sale.
LEMMA CommitCancelHolds ==
  ASSUME TxInv, NEW t \in Tx, CommitCancel(t)
  PROVE  TxInv'
<1>1. PICK r \in DOMAIN sales : SaleReturned(r) /\ SaleRow(r) \in held[t]
  BY CommitCancelReturns
<1>2. Forget(t) /\ UNCHANGED draft
  BY DEF CommitCancel
<1>3. TablesOK' /\ \A b : SalesOf(b)' = SalesOf(b)
  BY <1>1, TablesOfReturned DEF TxInv
<1>4. \A b : Cardinality(SalesOf(b)) \in Nat
  BY SalesOfFinite, FS_CardinalityType DEF TxInv, TablesOK, TypeOK
<1>5. ASSUME NEW b \in Business
      PROVE  /\ Cardinality(SalesOf(b)) \in Nat /\ Cardinality(SalesOf(b)') \in Nat
             /\ Cardinality(SalesOf(b)) <= Cardinality(SalesOf(b)')
             /\ Cardinality(SalesOf(b)') = Cardinality(SalesOf(b))
  BY <1>3, <1>4
<1>6. ASSUME NEW u \in Tx \ {t}, NEW s \in DOMAIN sales, SaleRow(s) \in held[u]
      PROVE  s \in DOMAIN sales' /\ sales'[s] = sales[s]
  <2>1. held[u] \cap held[t] = {}
    BY DEF TxInv, HeldExclusive
  <2>2. s # r
    BY <1>1, <1>6, <2>1
  <2>3. /\ Len(sales') = Len(sales) /\ sales' \in Seq(Sale) /\ sales \in Seq(Sale)
        /\ \A x \in 1..Len(sales) : x # r => sales'[x] = sales[x]
    BY <1>1, SaleCancelled DEF SaleReturned, TxInv, TablesOK, TypeOK, SalesTypeOK
  <2> QED BY <2>2, <2>3
<1> QED BY <1>2, <1>3, <1>5, <1>6, CommitHolds

-----------------------------------------------------------------------------
\* A request that is one step leaves the open transactions alone.
LEMMA RequestHolds ==
  ASSUME TxInv, UNCHANGED <<txVars, sales>>, TablesOK', Drafts'
  PROVE  TxInv'
<1>1. UNCHANGED <<phase, request, held, snapshot, sales>>
  BY DEF txVars
<1>2. ASSUME NEW u \in Tx
      PROVE  (IF phase[u] = "libre" THEN Idle(u) ELSE Serving(u))'
  BY <1>1, OthersStay DEF TxInv, TransactionsOK, TablesOK, TypeOK
<1>3. TransactionsOK'
  BY <1>2 DEF TransactionsOK
<1>4. TxTables' /\ HeldExclusive'
  BY <1>1 DEF TxInv, TxTables, HeldExclusive, TxRequest, TxSnapshot
<1> QED BY <1>3, <1>4 DEF TxInv

\* The parts of the tables that are about sales only.
LEMMA SalesPartStays ==
  ASSUME TablesOK, UNCHANGED sales, productActive' \in [Product -> BOOLEAN]
  PROVE  /\ SalesTypeOK' /\ CreditHasCustomer' /\ SalesAddUp' /\ SalesOfTenant'
         /\ FoliosGapless' /\ FoliosGiven'
BY DEF TablesOK, TypeOK, SalesTypeOK, CreditHasCustomer, SalesAddUp, SalesOfTenant,
       FoliosGapless, FoliosGiven, SalesOf

\* An entry and an adjustment add a row that names no sale.
LEMMA StockRequestHolds ==
  ASSUME TxInv, NEW p \in Product, EntryRequest(p) \/ AdjustmentRequest(p)
  PROVE  TxInv'
<1> USE DEF TxInv, TablesOK, TypeOK
<1>1. /\ Entry(p) \/ Adjustment(p)
      /\ UNCHANGED <<customers, balance, account, payments, productActive, sales, txVars, draft>>
  BY DEF EntryRequest, AdjustmentRequest, accountsVars, salesVars
<1>2. InventoryTypeOK' /\ SalesTold' /\ MovementDirection'
  BY <1>1, InventoryRecorded
<1>3. AccountsTypeOK' /\ SalesCharged' /\ PaymentsTold'
  BY <1>1, ChargedKept, PaymentsKept DEF AccountsTypeOK
<1>4. /\ SalesTypeOK' /\ CreditHasCustomer' /\ SalesAddUp' /\ SalesOfTenant'
      /\ FoliosGapless' /\ FoliosGiven'
  BY <1>1, SalesPartStays DEF SalesTypeOK
<1>5. Drafts'
  BY <1>1 DEF Drafts
<1> HIDE DEF TxInv
<1>6. UNCHANGED <<txVars, sales>>
  BY <1>1
<1> QED BY <1>2, <1>3, <1>4, <1>5, <1>6, RequestHolds

\* A payment adds its row to the account and no other.
LEMMA PaymentRequestHolds ==
  ASSUME TxInv, NEW c \in Customer, PaymentRequest(c)
  PROVE  TxInv'
<1> USE DEF TxInv, TablesOK, TypeOK
<1>1. /\ CreatePayment(c) /\ UNCHANGED customers
      /\ UNCHANGED <<stock, movements, productActive, sales, txVars, draft>>
  BY DEF PaymentRequest, CreatePayment, inventoryVars, salesVars
<1>2. PICK monto \in Nat, nuevo \in Int :
        /\ Move(c, "ABONO", 0, monto, nuevo, Len(payments) + 1)
        /\ payments' = Append(payments, [customer |-> c, monto |-> monto, cancelado |-> FALSE])
  BY <1>1, PaymentMoves
<1>3. /\ [customer |-> c, monto |-> monto, cancelado |-> FALSE] \in CustomerPayment
      /\ SalesCharged' /\ PaymentsTold'
  BY <1>1, <1>2, PaymentRecorded
<1>4. AccountsTypeOK'
  <2>1. "ABONO" \in AccountMovementType /\ 0 \in Nat /\ Len(payments) + 1 \in Nat
    BY DEF AccountMovementType, AccountsTypeOK
  <2>2. balance' \in [Customer -> 0..BalanceLimit] /\ account' \in [Customer -> Seq(AccountMovement)]
    BY <1>2, <2>1, MoveTyped
  <2>3. payments' \in Seq(CustomerPayment)
    BY <1>2, <1>3, AppendProperties DEF AccountsTypeOK
  <2> QED BY <1>1, <2>2, <2>3 DEF AccountsTypeOK
<1>5. InventoryTypeOK' /\ SalesTold' /\ MovementDirection'
  BY <1>1, ToldKept DEF InventoryTypeOK, MovementDirection, Directed
<1>6. /\ SalesTypeOK' /\ CreditHasCustomer' /\ SalesAddUp' /\ SalesOfTenant'
      /\ FoliosGapless' /\ FoliosGiven'
  BY <1>1, SalesPartStays DEF SalesTypeOK
<1>7. Drafts'
  BY <1>1 DEF Drafts
<1> HIDE DEF TxInv
<1>8. UNCHANGED <<txVars, sales>>
  BY <1>1
<1> QED BY <1>3, <1>4, <1>5, <1>6, <1>7, <1>8, RequestHolds

\* So does its cancellation.
LEMMA CancelPaymentRequestHolds ==
  ASSUME TxInv, NEW i \in DOMAIN payments, CancelPaymentRequest(i)
  PROVE  TxInv'
<1> USE DEF TxInv, TablesOK, TypeOK
<1>1. /\ CancelPayment(i) /\ UNCHANGED customers
      /\ UNCHANGED <<stock, movements, productActive, sales, txVars, draft>>
  BY DEF CancelPaymentRequest, PaymentStep, CancelPayment, inventoryVars, salesVars
<1> DEFINE c == payments[i].customer
           monto == payments[i].monto
           nuevo == balance[c] + monto - 0
<1>2. /\ i \in Nat /\ c \in Customer /\ monto \in Nat /\ nuevo \in Int
      /\ Move(c, "CANCELACION_ABONO", monto, 0, nuevo, i)
      /\ payments' \in Seq(CustomerPayment)
      /\ SalesCharged' /\ PaymentsTold'
  BY <1>1, CancelledPaymentRecorded
<1> HIDE DEF nuevo
<1>3. AccountsTypeOK'
  <2>1. "CANCELACION_ABONO" \in AccountMovementType /\ 0 \in Nat
    BY DEF AccountMovementType
  <2>2. balance' \in [Customer -> 0..BalanceLimit] /\ account' \in [Customer -> Seq(AccountMovement)]
    BY <1>2, <2>1, MoveTyped
  <2> QED BY <1>1, <1>2, <2>2 DEF AccountsTypeOK
<1>4. InventoryTypeOK' /\ SalesTold' /\ MovementDirection'
  BY <1>1, ToldKept DEF InventoryTypeOK, MovementDirection, Directed
<1>5. /\ SalesTypeOK' /\ CreditHasCustomer' /\ SalesAddUp' /\ SalesOfTenant'
      /\ FoliosGapless' /\ FoliosGiven'
  BY <1>1, SalesPartStays DEF SalesTypeOK
<1>6. Drafts'
  BY <1>1 DEF Drafts
<1> HIDE DEF TxInv
<1>7. UNCHANGED <<txVars, sales>>
  BY <1>1
<1> QED BY <1>2, <1>3, <1>4, <1>5, <1>6, <1>7, RequestHolds

\* An edit of the catalogue writes back a stock or a balance it read, old as it may
\* be, and no row.
LEMMA EditHolds ==
  ASSUME TxInv,
         \/ \E p \in Product : ReadProduct(p) \/ SaveProduct(p)
         \/ \E c \in Customer : ReadCustomer(c) \/ SaveCustomer(c) \/ DeleteRequest(c)
  PROVE  /\ TxInv'
         /\ UNCHANGED <<movements, account, payments, sales>>
<1> USE DEF TxInv, TablesOK, TypeOK
<1>1. /\ stock \in [Product -> 0..StockLimit] /\ balance \in [Customer -> 0..BalanceLimit]
      /\ customers \in [Customer -> CustomerState] /\ productActive \in [Product -> BOOLEAN]
      /\ draft \in [Product \cup Customer -> Nat \cup {NoValue}]
  BY DEF InventoryTypeOK, AccountsTypeOK, SalesTypeOK, Drafts
<1>2. ASSUME NEW x \in Product \cup Customer, NEW v \in Nat \cup {NoValue},
             draft' = [draft EXCEPT ![x] = v],
             x \in Product /\ v # NoValue => v <= StockLimit,
             x \in Customer /\ v # NoValue => v <= BalanceLimit
      PROVE  Drafts'
  <2>1. draft' \in [Product \cup Customer -> Nat \cup {NoValue}]
    BY <1>1, <1>2
  <2>2. \A y \in Product \cup Customer : draft'[y] = IF y = x THEN v ELSE draft[y]
    BY <1>1, <1>2
  <2> QED BY <1>2, <2>1, <2>2 DEF Drafts
<1>3. ASSUME UNCHANGED <<movements, account, payments, sales, txVars>>,
             stock' \in [Product -> 0..StockLimit], balance' \in [Customer -> 0..BalanceLimit],
             customers' \in [Customer -> CustomerState], productActive' \in [Product -> BOOLEAN],
             Drafts'
      PROVE  TxInv'
  <2>1. InventoryTypeOK' /\ SalesTold' /\ MovementDirection'
    BY <1>3, ToldKept DEF InventoryTypeOK, MovementDirection, Directed
  <2>2. AccountsTypeOK' /\ SalesCharged' /\ PaymentsTold'
    BY <1>3, ChargedKept, PaymentsKept DEF AccountsTypeOK
  <2>3. /\ SalesTypeOK' /\ CreditHasCustomer' /\ SalesAddUp' /\ SalesOfTenant'
        /\ FoliosGapless' /\ FoliosGiven'
    BY <1>3, SalesPartStays DEF SalesTypeOK
  <2> HIDE DEF TxInv
  <2>4. UNCHANGED <<txVars, sales>>
    BY <1>3
  <2> QED BY <1>3, <2>1, <2>2, <2>3, <2>4, RequestHolds
<1> HIDE DEF TxInv, TablesOK, TypeOK
<1>4. ASSUME NEW p \in Product, ReadProduct(p)
      PROVE  TxInv' /\ UNCHANGED <<movements, account, payments, sales>>
  <2>1. UNCHANGED <<stock, movements, customers, balance, account, payments, productActive,
                    sales, txVars>>
    BY <1>4 DEF ReadProduct, vars, inventoryVars, accountsVars, salesVars
  <2>2. Drafts'
    <3>1. stock[p] \in Nat /\ stock[p] <= StockLimit /\ p \notin Customer
      BY <1>1, InventoryAssumption, SalesTxAssumption
    <3> QED BY <1>2, <1>4, <3>1 DEF ReadProduct
  <2> QED BY <1>1, <1>3, <2>1, <2>2
<1>5. ASSUME NEW p \in Product, SaveProduct(p)
      PROVE  TxInv' /\ UNCHANGED <<movements, account, payments, sales>>
  <2>1. UNCHANGED <<movements, customers, balance, account, payments, sales, txVars>>
    BY <1>5 DEF SaveProduct, accountsVars
  <2>2. draft[p] \in 0..StockLimit
    BY <1>1, <1>5, InventoryAssumption DEF SaveProduct, TxInv, Drafts
  <2>3. stock' \in [Product -> 0..StockLimit] /\ productActive' \in [Product -> BOOLEAN]
    BY <1>1, <1>5, <2>2 DEF SaveProduct
  <2>4. Drafts'
    BY <1>2, <1>5 DEF SaveProduct
  <2> QED BY <1>1, <1>3, <2>1, <2>3, <2>4
<1>6. ASSUME NEW c \in Customer, ReadCustomer(c)
      PROVE  TxInv' /\ UNCHANGED <<movements, account, payments, sales>>
  <2>1. UNCHANGED <<stock, movements, customers, balance, account, payments, productActive,
                    sales, txVars>>
    BY <1>6 DEF ReadCustomer, vars, inventoryVars, accountsVars, salesVars
  <2>2. Drafts'
    <3>1. balance[c] \in Nat /\ balance[c] <= BalanceLimit /\ c \notin Product
      BY <1>1, AccountsAssumption, SalesTxAssumption
    <3> QED BY <1>2, <1>6, <3>1 DEF ReadCustomer
  <2> QED BY <1>1, <1>3, <2>1, <2>2
<1>7. ASSUME NEW c \in Customer, SaveCustomer(c)
      PROVE  TxInv' /\ UNCHANGED <<movements, account, payments, sales>>
  <2>1. UNCHANGED <<stock, movements, account, payments, productActive, sales, txVars>>
    BY <1>7 DEF SaveCustomer, inventoryVars, salesVars
  <2>2. draft[c] \in 0..BalanceLimit
    BY <1>1, <1>7, AccountsAssumption DEF SaveCustomer, TxInv, Drafts
  <2>3. balance' \in [Customer -> 0..BalanceLimit] /\ customers' \in [Customer -> CustomerState]
    BY <1>1, <1>7, <2>2 DEF SaveCustomer, CustomerState
  <2>4. Drafts'
    BY <1>2, <1>7 DEF SaveCustomer
  <2> QED BY <1>1, <1>3, <2>1, <2>3, <2>4
<1>8. ASSUME NEW c \in Customer, DeleteRequest(c)
      PROVE  TxInv' /\ UNCHANGED <<movements, account, payments, sales>>
  <2>1. UNCHANGED <<stock, movements, balance, account, payments, productActive, sales, txVars, draft>>
    BY <1>8 DEF DeleteRequest, DeleteCustomer, inventoryVars, salesVars
  <2>2. customers' \in [Customer -> CustomerState]
    BY <1>1, <1>8 DEF DeleteRequest, DeleteCustomer, CustomerState
  <2>3. Drafts'
    BY <2>1 DEF TxInv, Drafts
  <2> QED BY <1>1, <1>3, <2>1, <2>2, <2>3
<1> QED BY <1>4, <1>5, <1>6, <1>7, <1>8

\* At first no transaction is open and the tables are empty.
LEMMA TxInitHolds == TxInit => TxInv
<1> SUFFICES ASSUME TxInit PROVE TxInv
  OBVIOUS
<1>1. LInv
  BY LedgerInit DEF TxInit
<1>2. sales = <<>> /\ DOMAIN sales = {}
  BY EmptySeq DEF TxInit, Init
<1>3. SalesAddUp /\ FoliosGiven
  <2>1. \A b : SalesOf(b) = {} /\ Cardinality(SalesOf(b)) = 0
    BY <1>2, FS_EmptySet DEF SalesOf
  <2> QED BY <1>2, <2>1 DEF SalesAddUp, FoliosGiven
<1>4. TablesOK
  BY <1>1, <1>3 DEF LInv, IInv, TablesOK
<1>5. TxTables /\ TransactionsOK /\ HeldExclusive
  BY DEF TxInit, TxTables, TransactionsOK, Idle, HeldExclusive, Phase
<1>6. Drafts
  BY DEF TxInit, Drafts
<1> QED BY <1>4, <1>5, <1>6 DEF TxInv

\* The customers a request may name.
LEMMA BuyersTyped == Buyers \subseteq Customer \cup {NoCustomer}
BY DEF Buyers

\* Every step of the transactions keeps the invariant.
LEMMA TxNextHolds ==
  ASSUME TxInv, [TxNext]_allVars
  PROVE  TxInv'
<1>1. CASE UNCHANGED allVars
  <2>1. UNCHANGED <<vars, phase, request, held, snapshot, draft, sales>>
    BY <1>1 DEF allVars, txVars, vars, salesVars
  <2>2. TablesOK' /\ Drafts' /\ UNCHANGED txVars
    BY <2>1, TablesStay DEF TxInv, Drafts, txVars
  <2> QED BY <2>1, <2>2, RequestHolds
<1>2. ASSUME NEW t \in Tx, NEW b \in Business, NEW c \in Buyers, NEW q \in Quantities,
             BeginCreate(t, b, c, q)
      PROVE  TxInv'
  BY <1>2, BuyersTyped, BeginCreateHolds
<1>3. ASSUME NEW t \in Tx, NEW s \in DOMAIN sales, BeginCancel(t, s) PROVE TxInv'
  BY <1>3, BeginCancelHolds
<1>4. ASSUME NEW t \in Tx, Progress(t) PROVE TxInv'
  BY <1>4, LockProductHolds, PriceHolds, InsertSaleHolds, LockCustomerHolds, CommitCreateHolds,
     CommitCancelHolds, ForgetHolds DEF Progress, Refuse
<1>5. ASSUME NEW t \in Tx, DeadlockVictim(t) \/ Fail(t) PROVE TxInv'
  BY <1>5, ForgetHolds DEF DeadlockVictim, Fail
<1>6. ASSUME NEW p \in Product, EntryRequest(p) \/ AdjustmentRequest(p) PROVE TxInv'
  BY <1>6, StockRequestHolds
<1>7. ASSUME NEW c \in Customer, PaymentRequest(c) PROVE TxInv'
  BY <1>7, PaymentRequestHolds
<1>8. ASSUME NEW i \in DOMAIN payments, CancelPaymentRequest(i) PROVE TxInv'
  BY <1>8, CancelPaymentRequestHolds
<1>9. CASE \/ \E p \in Product : ReadProduct(p) \/ SaveProduct(p)
           \/ \E c \in Customer : ReadCustomer(c) \/ SaveCustomer(c) \/ DeleteRequest(c)
  BY <1>9, EditHolds
<1> QED BY <1>1, <1>2, <1>3, <1>4, <1>5, <1>6, <1>7, <1>8, <1>9 DEF TxNext

-----------------------------------------------------------------------------
\* No step of the transactions rewrites a history, not even an edit that saves
\* what it read long ago.
LEMMA TxNextGrows ==
  ASSUME TxInv, [TxNext]_allVars
  PROVE  HistoryGrows
<1> USE DEF TxInv, TablesOK, TypeOK
<1>1. /\ "ABONO" \in AccountMovementType
      /\ Len(payments) + 1 \in Nat /\ 0 \in Nat
  BY DEF AccountMovementType, AccountsTypeOK
<1>2. ASSUME UNCHANGED vars PROVE HistoryGrows
  BY <1>2 DEF HistoryGrows, vars, inventoryVars, accountsVars, salesVars
<1>3. ASSUME NEW t \in Tx, CommitCreate(t) PROVE HistoryGrows
  <2>1. PICK new : SaleRecorded(new)
    BY <1>3, CommitCreateRecords
  <2>2. /\ new \in Sale /\ sales' = Append(sales, new) /\ UNCHANGED payments
        /\ RowsAdded(DOMAIN new.details, Taken(new.details), "VENTA", Len(sales) + 1)
        /\ \/ UNCHANGED account
           \/ RowWritten(new.customer, "VENTA_CREDITO", new.saldoPendiente, 0, Len(sales) + 1)
    BY <2>1 DEF SaleRecorded
  <2>3. \A p \in Product :
            \/ movements'[p] = movements[p]
            \/ \E row \in InventoryMovement : movements'[p] = Append(movements[p], row)
    BY <2>2, RowsGrow
  <2>4. \A c \in Customer :
            \/ account'[c] = account[c]
            \/ \E row \in AccountMovement : account'[c] = Append(account[c], row)
    BY <2>2, RowGrows
  <2> QED BY <2>2, <2>3, <2>4 DEF HistoryGrows
<1>4. ASSUME NEW t \in Tx, CommitCancel(t) PROVE HistoryGrows
  <2>1. PICK r \in DOMAIN sales : SaleReturned(r)
    BY <1>4, CommitCancelReturns
  <2>2. /\ sales' = [sales EXCEPT ![r].estatus = "CANCELADA"] /\ UNCHANGED payments
        /\ RowsAdded(DOMAIN sales[r].details, sales[r].details, "CANCELACION_VENTA", r)
        /\ \/ UNCHANGED account
           \/ RowWritten(sales[r].customer, "CANCELACION_VENTA", 0, sales[r].saldoPendiente, r)
    BY <2>1 DEF SaleReturned
  <2>3. \A p \in Product :
            \/ movements'[p] = movements[p]
            \/ \E row \in InventoryMovement : movements'[p] = Append(movements[p], row)
    BY <2>2, RowsGrow
  <2>4. \A c \in Customer :
            \/ account'[c] = account[c]
            \/ \E row \in AccountMovement : account'[c] = Append(account[c], row)
    BY <2>2, RowGrows
  <2> QED BY <2>2, <2>3, <2>4 DEF HistoryGrows
<1>5. ASSUME NEW p \in Product, EntryRequest(p) \/ AdjustmentRequest(p) PROVE HistoryGrows
  <2>1. PICK d \in Int, tipo \in MovementType : Change([x \in {p} |-> d], tipo, 0)
    BY <1>5, InventoryChanges DEF EntryRequest, AdjustmentRequest
  <2>2. UNCHANGED <<account, payments, sales>>
    BY <1>5 DEF EntryRequest, AdjustmentRequest, accountsVars, salesVars
  <2> DEFINE delta == [x \in {p} |-> d]
  <2>3. /\ {p} \in SUBSET Product /\ delta \in [{p} -> Int]
        /\ CanChange(delta) /\ movements' = Recorded(delta, tipo, 0)
    BY <2>1 DEF Change
  <2> HIDE DEF delta
  <2>4. RowsAdded({p}, delta, tipo, 0)
    BY <1>1, <2>3, ChangeAddsRows
  <2>5. \A q \in Product :
            \/ movements'[q] = movements[q]
            \/ \E row \in InventoryMovement : movements'[q] = Append(movements[q], row)
    BY <2>4, RowsGrow
  <2> QED BY <2>2, <2>5 DEF HistoryGrows
<1>6. ASSUME NEW c \in Customer, PaymentRequest(c) PROVE HistoryGrows
  <2>1. CreatePayment(c) /\ UNCHANGED <<movements, sales>>
    BY <1>6 DEF PaymentRequest, inventoryVars, salesVars
  <2>2. PICK monto \in Nat, nuevo \in Int :
          /\ Move(c, "ABONO", 0, monto, nuevo, Len(payments) + 1)
          /\ payments' = Append(payments, [customer |-> c, monto |-> monto, cancelado |-> FALSE])
    BY <2>1, PaymentMoves
  <2>3. [customer |-> c, monto |-> monto, cancelado |-> FALSE] \in CustomerPayment
    BY DEF CustomerPayment
  <2>4. RowWritten(c, "ABONO", 0, monto, Len(payments) + 1)
    BY <1>1, <2>2, MoveWritesRow
  <2>5. \A d \in Customer :
          \/ account'[d] = account[d]
          \/ \E row \in AccountMovement : account'[d] = Append(account[d], row)
    BY <2>4, RowGrows
  <2> QED BY <2>1, <2>2, <2>3, <2>5 DEF HistoryGrows
<1>7. ASSUME NEW i \in DOMAIN payments, CancelPaymentRequest(i) PROVE HistoryGrows
  <2>1. CancelPayment(i) /\ UNCHANGED <<movements, sales>>
    BY <1>7 DEF CancelPaymentRequest, PaymentStep, inventoryVars, salesVars
  <2>2. /\ RowWritten(payments[i].customer, "CANCELACION_ABONO", payments[i].monto, 0, i)
        /\ payments' = [payments EXCEPT ![i].cancelado = TRUE]
    BY <2>1, CancelledPaymentRecorded
  <2>3. \A d \in Customer :
          \/ account'[d] = account[d]
          \/ \E row \in AccountMovement : account'[d] = Append(account[d], row)
    BY <2>2, RowGrows
  <2> QED BY <2>1, <2>2, <2>3 DEF HistoryGrows
<1>8. CASE \/ \E p \in Product : ReadProduct(p) \/ SaveProduct(p)
           \/ \E c \in Customer : ReadCustomer(c) \/ SaveCustomer(c) \/ DeleteRequest(c)
  <2>1. UNCHANGED <<movements, account, payments, sales>>
    BY <1>8, EditHolds
  <2> QED BY <2>1 DEF HistoryGrows
<1>9. ASSUME NEW t \in Tx, Progress(t) \/ DeadlockVictim(t) \/ Fail(t) PROVE HistoryGrows
  <2>1. UNCHANGED vars \/ CommitCreate(t) \/ CommitCancel(t)
    BY <1>9 DEF Progress, LockProduct, Price, InsertSale, LockCustomer, Refuse, DeadlockVictim, Fail
  <2> QED BY <1>2, <1>3, <1>4, <2>1
<1>10. ASSUME NEW t \in Tx, \/ \E b \in Business, c \in Buyers, q \in Quantities : BeginCreate(t, b, c, q)
                            \/ \E s \in DOMAIN sales : BeginCancel(t, s)
       PROVE  HistoryGrows
  <2>1. UNCHANGED vars
    BY <1>10 DEF BeginCreate, BeginCancel
  <2> QED BY <1>2, <2>1
<1>11. CASE UNCHANGED allVars
  BY <1>2, <1>11 DEF allVars
<1> QED BY <1>5, <1>6, <1>7, <1>8, <1>9, <1>10, <1>11 DEF TxNext

-----------------------------------------------------------------------------
\* The invariant holds in every state of every interleaving of the requests.
THEOREM TxInvariantHolds == TxSpec => []TxInv
<1>1. TxInit => TxInv
  BY TxInitHolds
<1>2. TxInv /\ [TxNext]_allVars => TxInv'
  BY TxNextHolds
<1> QED BY <1>1, <1>2, PTL DEF TxSpec

\* The tables, the open transactions and the drafts are what the code makes them.
THEOREM TxTyped == TxSpec => []TxTypeOK
<1>1. TxInv => TxTypeOK
  BY DEF TxInv, TablesOK, TxTables, Drafts, TxTypeOK
<1> QED BY <1>1, TxInvariantHolds, PTL

\* However many sales of a business overlap, the folio each will use is held by it
\* alone and is greater than every folio in the table: two create() that counted
\* the same sales cannot both commit.
THEOREM FoliosAreReserved == TxSpec => []FoliosReserved
<1>1. ASSUME TxInv PROVE FoliosReserved
  <2>1. ASSUME NEW t \in Tx, NEW b \in Business, NEW n \in 1..MaxSales,
               FolioRow(b, n) \in held[t]
        PROVE  /\ Free(t, FolioRow(b, n))
               /\ \A s \in SalesOf(b) : sales[s].folio < n
    <3>1. Free(t, FolioRow(b, n))
      BY <1>1, <2>1 DEF TxInv, HeldExclusive, Free
    <3>2. phase[t] # "libre"
      BY <1>1, <2>1 DEF TxInv, TransactionsOK, Idle
    <3>3. n = Cardinality(SalesOf(b)) + 1
      BY <1>1, <2>1, <3>2, SalesAssumption DEF TxInv, TransactionsOK, Serving, FolioHeld
    <3>4. ASSUME NEW s \in SalesOf(b) PROVE sales[s].folio < n
      <4>1. /\ {x \in SalesOf(b) : x <= s} \subseteq SalesOf(b)
            /\ IsFiniteSet(SalesOf(b))
        BY <1>1, SalesOfFinite DEF TxInv, TablesOK, TypeOK
      <4>2. sales[s].folio = Cardinality({x \in SalesOf(b) : x <= s})
        BY <1>1 DEF TxInv, TablesOK, FoliosGapless, SalesOf
      <4>3. /\ Cardinality({x \in SalesOf(b) : x <= s}) \in Nat
            /\ Cardinality(SalesOf(b)) \in Nat
            /\ Cardinality({x \in SalesOf(b) : x <= s}) <= Cardinality(SalesOf(b))
        BY <4>1, FS_Subset, FS_CardinalityType
      <4> QED BY <3>3, <4>2, <4>3
    <3> QED BY <3>1, <3>4
  <2> QED BY <2>1 DEF FoliosReserved
<1> QED BY <1>1, TxInvariantHolds, PTL

\* The folios of a business stay 1, 2, 3, ... in the order in which its sales are
\* committed.
THEOREM TxFoliosHold == TxSpec => []FoliosGapless
<1>1. TxInv => FoliosGapless
  BY DEF TxInv, TablesOK
<1> QED BY <1>1, TxInvariantHolds, PTL

\* Whatever overlaps, every sale is in the stock history once, and out of it once
\* exactly when it is cancelled: two cancel() of one sale cannot both return it.
THEOREM TxSalesInHistory == TxSpec => []SaleInMovements
<1>1. TxInv => SaleInMovements
  BY DEF TxInv, TablesOK, TypeOK, SalesTypeOK, SalesTold, SaleInMovements
<1> QED BY <1>1, TxInvariantHolds, PTL

\* Whatever overlaps, every debt of a sale is in its customer's account once.
THEOREM TxSalesInAccount == TxSpec => []SaleInAccount
<1>1. TxInv => SaleInAccount
  BY DEF TxInv, TablesOK, TypeOK, SalesTypeOK, SalesCharged, SaleInAccount
<1> QED BY <1>1, TxInvariantHolds, PTL

\* Whatever overlaps, every payment is in its customer's account once.
THEOREM TxPaymentsInAccounts == TxSpec => []PaymentsInAccount
<1>1. TxInv => PaymentsInAccount
  BY DEF TxInv, TablesOK, TypeOK, AccountsTypeOK, PaymentsTold, PaymentsInAccount
<1> QED BY <1>1, TxInvariantHolds, PTL

\* Requests of several businesses that overlap never mix their rows.
THEOREM TxTenantsHold == TxSpec => []TenantIsolation
<1>1. TxInv => TenantIsolation
  BY TenantFollows DEF TxInv, TablesOK, TypeOK
<1> QED BY <1>1, TxInvariantHolds, PTL

\* No commit, no edit and no rollback rewrites a history.
THEOREM TxHistoryHolds == TxSpec => HistoryImmutable
<1>1. TxInv /\ [TxNext]_allVars => [HistoryStep]_vars
  BY TxNextGrows, GrowsImmutable DEF TxInv, TablesOK, TypeOK
<1> QED BY <1>1, TxInvariantHolds, PTL DEF TxSpec, HistoryImmutable

-----------------------------------------------------------------------------
(***************************************************************************)
(* Walk-in sales, entries and adjustments: whatever overlaps, each commit  *)
(* is the whole request of Sales.tla.  A walk-in sale takes its snapshot   *)
(* after it has locked its last product, so what the snapshot says of them *)
(* stays true; that is what fails as soon as a snapshot is older than the  *)
(* locks, for a sale to a customer or a cancellation.                      *)
(***************************************************************************)
Walkin(t) ==
  /\ request[t].kind = "create" /\ request[t].customer = NoCustomer /\ phase[t] # "cliente"
  /\ phase[t] \in {"productos", "precio"} => snapshot[t] = NoValue
  /\ \A p \in LockedProducts(t) : request[t].details[p] <= stock[p]
  /\ phase[t] \in {"folio", "final"} =>
       /\ request[t].total \in Totals /\ Pending(t) = 0
       /\ \A p \in LockedProducts(t) : snapshot[t].stock[p] = stock[p]

WalkinsOnly ==
  /\ \A p \in Product : productActive[p]
  /\ \A t \in Tx : phase[t] = "libre" \/ Walkin(t)

\* A walk-in sale is what it was while the products it has locked stay.
LEMMA WalkinStays ==
  ASSUME NEW u \in Tx, phase[u] = "libre" \/ Walkin(u),
         phase'[u] = phase[u], request'[u] = request[u], held'[u] = held[u],
         snapshot'[u] = snapshot[u],
         \A p \in LockedProducts(u) : stock'[p] = stock[p]
  PROVE  (phase[u] = "libre" \/ Walkin(u))'
<1>1. LockedProducts(u)' = LockedProducts(u) /\ Pending(u)' = Pending(u)
  BY DEF LockedProducts, Pending, ProductRow
<1> QED BY <1>1 DEF Walkin

\* A step of one walk-in sale that leaves the products alone.
LEMMA WalkinStep ==
  ASSUME WalkinsOnly, NEW t \in Tx, UNCHANGED <<stock, productActive>>,
         (phase[t] = "libre" \/ Walkin(t))',
         \A u \in Tx \ {t} : /\ phase'[u] = phase[u] /\ request'[u] = request[u]
                             /\ held'[u] = held[u] /\ snapshot'[u] = snapshot[u]
  PROVE  WalkinsOnly'
<1>1. ASSUME NEW u \in Tx PROVE (phase[u] = "libre" \/ Walkin(u))'
  <2>1. CASE u = t
    BY <2>1
  <2>2. CASE u # t
    BY <2>2, WalkinStays DEF WalkinsOnly
  <2> QED BY <2>1, <2>2
<1> QED BY <1>1 DEF WalkinsOnly

\* create() of a walk-in sale begins with no product locked and nothing read.
LEMMA WalkinBegins ==
  ASSUME TxInv, WalkinsOnly, NEW t \in Tx, NEW b \in Business, NEW q \in Quantities,
         BeginCreate(t, b, NoCustomer, q)
  PROVE  WalkinsOnly'
<1>1. /\ phase[t] = "libre" /\ Idle(t) /\ UNCHANGED <<stock, productActive>>
  BY DEF BeginCreate, TxInv, TransactionsOK, vars, inventoryVars, salesVars
<1>2. /\ phase'[t] = "productos" /\ held'[t] = held[t] \cup {}
      /\ \A u \in Tx \ {t} : phase'[u] = phase[u] /\ held'[u] = held[u]
  <2>1. "productos" \in Phase /\ \A row \in {} : Free(t, row)
    BY DEF Phase
  <2>2. Advance(t, {}, "productos") /\ TxTables /\ HeldExclusive
    BY DEF BeginCreate, TxInv
  <2> QED BY <2>1, <2>2, Advanced, SMTT(60)
<1>3. PICK order \in Orders(DOMAIN q) :
        request' = [request EXCEPT ![t] =
          [kind |-> "create", business |-> b, customer |-> NoCustomer, details |-> q,
           order |-> order, sale |-> 0, total |-> 0, inicial |-> 0]]
  BY DEF BeginCreate
<1>4. /\ request'[t].kind = "create" /\ request'[t].customer = NoCustomer
      /\ \A u \in Tx \ {t} : request'[u] = request[u]
  BY <1>3 DEF TxInv, TxTables
<1>5. /\ snapshot'[t] = NoValue /\ \A u \in Tx \ {t} : snapshot'[u] = snapshot[u]
  BY DEF BeginCreate, TxInv, TxTables
<1>6. LockedProducts(t)' = {}
  BY <1>1, <1>2 DEF LockedProducts, Idle
<1>7. Walkin(t)'
  BY <1>2, <1>4, <1>5, <1>6 DEF Walkin
<1> QED BY <1>1, <1>2, <1>4, <1>5, <1>7, WalkinStep

\* The locking read of a product finds enough of it.
LEMMA WalkinLocks ==
  ASSUME TxInv, WalkinsOnly, NEW t \in Tx, LockProduct(t)
  PROVE  WalkinsOnly'
<1> DEFINE p == NextProduct(t)
           next == IF ~ LastProduct(t) THEN "productos"
                   ELSE IF request[t].kind = "create" THEN "precio" ELSE "final"
<1>1. /\ phase[t] = "productos" /\ Granted(t) /\ Accepted(t)
      /\ Advance(t, Wanted(t), next)
      /\ UNCHANGED <<stock, productActive, request, snapshot>>
  BY DEF LockProduct, vars, inventoryVars, salesVars
<1>2. Walkin(t) /\ Serving(t)
  BY <1>1 DEF WalkinsOnly, TxInv, TransactionsOK
<1>3. next \in {"productos", "precio"} /\ request[t].details[p] <= stock[p]
  BY <1>1, <1>2 DEF Walkin, Accepted, ProductAccepted
<1>4. request[t].business \in Business /\ Wanted(t) = {ProductRow(p)}
  BY <1>1, <1>2 DEF Serving, TxRequest, Wanted
<1>5. /\ phase'[t] = next /\ held'[t] = held[t] \cup {ProductRow(p)}
      /\ \A u \in Tx \ {t} : /\ phase'[u] = phase[u] /\ request'[u] = request[u]
                             /\ held'[u] = held[u] /\ snapshot'[u] = snapshot[u]
  <2>1. next \in Phase /\ \A row \in Wanted(t) : Free(t, row)
    BY <1>1, <1>3 DEF Phase, Granted
  <2> QED BY <1>1, <1>4, <2>1, AdvanceTyped
<1>6. LockedProducts(t)' \subseteq LockedProducts(t) \cup {p}
  BY <1>1, <1>5, RowsApart DEF LockedProducts
<1> HIDE DEF p, next
<1>7. Walkin(t)'
  BY <1>1, <1>2, <1>3, <1>5, <1>6 DEF Walkin
<1> QED BY <1>1, <1>5, <1>7, WalkinStep

\* Pricing takes the snapshot, which agrees with the products that are locked; a
\* walk-in customer pays at once.
LEMMA WalkinPriced ==
  ASSUME TxInv, WalkinsOnly, NEW t \in Tx, Price(t)
  PROVE  WalkinsOnly'
<1>1. /\ phase[t] = "precio" /\ Advance(t, {}, "folio") /\ UNCHANGED <<stock, productActive>>
  BY DEF Price, vars, inventoryVars, salesVars
<1>2. Walkin(t) /\ request[t] \in TxRequest
  BY <1>1 DEF WalkinsOnly, TxInv, TransactionsOK, Serving
<1>3. PICK total \in Totals, tipoPago \in PaymentType, pagoInicial \in Totals :
        LET inicial == Initial(tipoPago, total, pagoInicial) IN
        /\ ValidPayment(request[t].customer, tipoPago, total, inicial)
        /\ request' = [request EXCEPT ![t].total = total, ![t].inicial = inicial]
  BY DEF Price
<1>4. Initial(tipoPago, total, pagoInicial) = total /\ total \in Int
  BY <1>2, <1>3, SalesAssumption DEF Walkin, ValidPayment, Initial
<1>5. /\ request'[t].kind = "create" /\ request'[t].customer = NoCustomer
      /\ request'[t].details = request[t].details
      /\ request'[t].total = total /\ request'[t].inicial = total
      /\ \A u \in Tx \ {t} : request'[u] = request[u]
  BY <1>2, <1>3, <1>4 DEF TxInv, TxTables, TxRequest, Walkin
<1>6. /\ snapshot'[t] = Snapshot(request[t].business)
      /\ \A u \in Tx \ {t} : snapshot'[u] = snapshot[u]
  BY <1>1, <1>2 DEF Price, Walkin, TxInv, TxTables
<1>7. /\ phase'[t] = "folio" /\ held'[t] = held[t] \cup {}
      /\ \A u \in Tx \ {t} : phase'[u] = phase[u] /\ held'[u] = held[u]
  <2>1. "folio" \in Phase /\ \A row \in {} : Free(t, row)
    BY DEF Phase
  <2> QED BY <1>1, <2>1, Advanced, SMTT(60) DEF TxInv
<1>8. LockedProducts(t)' = LockedProducts(t) /\ Pending(t)' = 0
  BY <1>4, <1>5, <1>7 DEF LockedProducts, Pending, ProductRow
<1>9. snapshot'[t].stock = stock
  BY <1>6 DEF Snapshot
<1>10. Walkin(t)'
  BY <1>1, <1>2, <1>5, <1>7, <1>8, <1>9 DEF Walkin
<1> QED BY <1>1, <1>5, <1>6, <1>7, <1>10, WalkinStep

\* The sale that goes in owes nothing, so no customer is locked.
LEMMA WalkinInserted ==
  ASSUME TxInv, WalkinsOnly, NEW t \in Tx, InsertSale(t)
  PROVE  WalkinsOnly'
<1>1. /\ phase[t] = "folio" /\ Granted(t)
      /\ Advance(t, Wanted(t), IF Pending(t) # 0 THEN "cliente" ELSE "final")
      /\ UNCHANGED <<stock, productActive, request, snapshot>>
  BY DEF InsertSale, vars, inventoryVars, salesVars
<1>2. Walkin(t) /\ Serving(t)
  BY <1>1 DEF WalkinsOnly, TxInv, TransactionsOK
<1>3. Pending(t) = 0 /\ request[t].business \in Business
  BY <1>1, <1>2 DEF Walkin, Serving, TxRequest
<1>4. Wanted(t) = {FolioRow(request[t].business, Folio(t))}
  BY <1>1 DEF Wanted
<1>5. /\ phase'[t] = "final" /\ held'[t] = held[t] \cup Wanted(t)
      /\ \A u \in Tx \ {t} : /\ phase'[u] = phase[u] /\ request'[u] = request[u]
                             /\ held'[u] = held[u] /\ snapshot'[u] = snapshot[u]
  <2>1. "final" \in Phase /\ \A row \in Wanted(t) : Free(t, row)
    BY <1>1 DEF Phase, Granted
  <2> QED BY <1>1, <1>3, <2>1, AdvanceTyped
<1>6. LockedProducts(t)' = LockedProducts(t) /\ Pending(t)' = Pending(t)
  BY <1>1, <1>4, <1>5, RowsApart DEF LockedProducts, Pending
<1>7. Walkin(t)'
  BY <1>1, <1>2, <1>5, <1>6 DEF Walkin
<1> QED BY <1>1, <1>5, <1>7, WalkinStep

\* What commits is create() as Sales.tla has it: it takes the products its tenant
\* sells, the stock it found when it locked them, and the next folio.
LEMMA WalkinCommits ==
  ASSUME TxInv, WalkinsOnly, NEW t \in Tx, CommitCreate(t)
  PROVE  /\ request[t].business \in Business /\ request[t].details \in Quantities
         /\ Create(request[t].business, NoCustomer, request[t].details)
<1> DEFINE r == request[t]
           b == request[t].business
           id == Len(sales) + 1
           delta == Taken(request[t].details)
<1>1. /\ phase[t] = "final" /\ r.kind = "create" /\ Committable(t)
      /\ sales' = Append(sales, NewSale(b, r.customer, r.details, r.total, r.inicial, Folio(t)))
      /\ stock' = StockWritten(t, Delta(t))
      /\ movements' = Recorded(Delta(t), "VENTA", id)
      /\ AccountWritten(t, "VENTA_CREDITO", Pending(t), 0, id)
      /\ UNCHANGED productActive
  BY DEF CommitCreate
<1>2. Walkin(t) /\ Serving(t) /\ Creating(t)
  BY <1>1 DEF WalkinsOnly, TxInv, TransactionsOK, Serving
<1>3. r \in TxRequest /\ b \in Business /\ r.details \in Quantities
  BY <1>2 DEF Serving, TxRequest
<1>4. /\ r.customer = NoCustomer /\ r.total \in Totals /\ r.total \in Nat
      /\ r.inicial = r.total /\ Pending(t) = 0
  BY <1>1, <1>2 DEF Walkin, Creating, Priced, Pending
<1>5. Delta(t) = delta /\ CanChange(delta) /\ Len(sales) < MaxSales
  BY <1>1 DEF Delta, Committable
<1>6. DOMAIN r.details \subseteq LockedProducts(t) /\ DOMAIN r.details \subseteq Product
  BY <1>1, <1>2, <1>3, QuantitiesFinite DEF Serving, InOrder
<1>7. \A p \in DOMAIN r.details :
        /\ BusinessOf[p] = b /\ productActive[p] /\ r.details[p] <= stock[p]
        /\ snapshot[t].stock[p] = stock[p]
  BY <1>1, <1>2, <1>6 DEF Walkin, Creating, WalkinsOnly
<1>8. Folio(t) = NextFolio(b)
  <2>1. Folio(t) \in Nat /\ FolioRow(b, Folio(t)) \in held[t]
    BY <1>1, <1>2 DEF Creating, SnapshotOK, TxSnapshot, Folio
  <2> QED BY <1>2, <1>3, <2>1 DEF Serving, FolioHeld, NextFolio
<1>9. StockWritten(t, delta) = Shifted(delta)
  <2>1. DOMAIN delta = DOMAIN r.details
    BY DEF Taken
  <2>2. ASSUME NEW p \in Product
        PROVE  Saved(stock[p], snapshot[t].stock[p], Shifted(delta)[p]) = Shifted(delta)[p]
    <3>1. CASE p \in DOMAIN delta
      BY <1>7, <2>1, <3>1 DEF Saved
    <3>2. CASE p \notin DOMAIN delta
      BY <3>2 DEF Saved, Shifted
    <3> QED BY <3>1, <3>2
  <2>3. Shifted(delta) = [p \in Product |-> Shifted(delta)[p]]
    BY DEF Shifted
  <2> QED BY <2>2, <2>3 DEF StockWritten
<1>10. Change(delta, "VENTA", id)
  BY <1>1, <1>5, <1>9 DEF Change
<1>11. Initial("CONTADO", r.total, r.total) = r.total
  BY DEF Initial
<1>12. ValidPayment(NoCustomer, "CONTADO", r.total, r.total)
  BY <1>4 DEF ValidPayment
<1>13. ChargePending(NoCustomer, r.total - r.total, id)
  BY <1>1, <1>4 DEF ChargePending, AccountWritten
<1>14. CustomerFound(b, NoCustomer) /\ ProductsFound(b, r.details)
  BY <1>7 DEF CustomerFound, ProductsFound
<1>15. sales' = Append(sales, NewSale(b, NoCustomer, r.details, r.total, r.total, NextFolio(b)))
  BY <1>1, <1>4, <1>8
<1>16. "CONTADO" \in PaymentType
  BY DEF PaymentType
<1> HIDE DEF r, b, id, delta
<1>17. Create(b, NoCustomer, r.details)
  BY <1>1, <1>4, <1>5, <1>10, <1>11, <1>12, <1>13, <1>14, <1>15, <1>16 DEF Create, id, delta, r
<1> QED BY <1>3, <1>17 DEF r, b

\* A commit changes no product another sale has locked.
LEMMA WalkinsApart ==
  ASSUME TxInv, WalkinsOnly, NEW t \in Tx, CommitCreate(t)
  PROVE  WalkinsOnly'
<1>1. /\ Forget(t) /\ UNCHANGED productActive /\ phase[t] = "final"
  BY DEF CommitCreate
<1>2. /\ phase'[t] = "libre"
      /\ \A u \in Tx \ {t} : /\ phase'[u] = phase[u] /\ request'[u] = request[u]
                             /\ held'[u] = held[u] /\ snapshot'[u] = snapshot[u]
  BY <1>1, Forgotten DEF TxInv
<1>3. Serving(t) /\ Walkin(t)
  BY <1>1 DEF WalkinsOnly, TxInv, TransactionsOK
<1>4. DOMAIN request[t].details \subseteq LockedProducts(t)
  BY <1>1, <1>3 DEF Serving, InOrder
<1>5. stock' = Shifted(Taken(request[t].details))
  BY WalkinCommits DEF Create, Change
<1>6. ASSUME NEW u \in Tx PROVE (phase[u] = "libre" \/ Walkin(u))'
  <2>1. CASE u = t
    BY <1>2, <2>1
  <2>2. CASE u # t
    <3>1. ASSUME phase[u] # "libre", NEW p \in LockedProducts(u) PROVE stock'[p] = stock[p]
      <4>1. p \in Product
        <5>1. request[u].details \in Quantities
          BY <3>1 DEF TxInv, TransactionsOK, Serving, TxRequest
        <5> QED BY <3>1, <5>1, QuantitiesFinite DEF LockedProducts
      <4>2. p \notin LockedProducts(t)
        BY <2>2, <3>1 DEF TxInv, HeldExclusive, LockedProducts
      <4> QED BY <1>4, <1>5, <4>1, <4>2 DEF Shifted, Taken
    <3>2. CASE phase[u] = "libre"
      BY <1>2, <2>2, <3>2
    <3>3. CASE phase[u] # "libre"
      BY <1>2, <2>2, <3>1, <3>3, WalkinStays DEF WalkinsOnly
    <3> QED BY <3>2, <3>3
  <2> QED BY <2>1, <2>2
<1> QED BY <1>1, <1>6 DEF WalkinsOnly

\* A rollback leaves the others what they were.
LEMMA WalkinForgotten ==
  ASSUME TxInv, WalkinsOnly, NEW t \in Tx, Forget(t), UNCHANGED vars
  PROVE  WalkinsOnly'
<1>1. /\ phase'[t] = "libre" /\ UNCHANGED <<stock, productActive>>
      /\ \A u \in Tx \ {t} : /\ phase'[u] = phase[u] /\ request'[u] = request[u]
                             /\ held'[u] = held[u] /\ snapshot'[u] = snapshot[u]
  BY Forgotten DEF TxInv, vars, inventoryVars, salesVars
<1> QED BY <1>1, WalkinStep

\* An entry and an adjustment wait for the lock of their product.
LEMMA WalkinsWhileStocked ==
  ASSUME TxInv, WalkinsOnly, NEW q \in Product, EntryRequest(q) \/ AdjustmentRequest(q)
  PROVE  WalkinsOnly'
<1>1. /\ Unlocked(ProductRow(q))
      /\ Entry(q) \/ Adjustment(q)
      /\ UNCHANGED <<productActive, phase, request, held, snapshot>>
  BY DEF EntryRequest, AdjustmentRequest, salesVars, txVars
<1>2. \A p \in Product \ {q} : stock'[p] = stock[p]
  <2>1. PICK d \in Int, tipo \in MovementType : Change([x \in {q} |-> d], tipo, 0)
    BY <1>1, InventoryChanges
  <2> QED BY <2>1 DEF Change, Shifted
<1>3. ASSUME NEW u \in Tx PROVE (phase[u] = "libre" \/ Walkin(u))'
  <2>1. ASSUME phase[u] # "libre", NEW p \in LockedProducts(u) PROVE stock'[p] = stock[p]
    <3>1. request[u].details \in Quantities
      BY <2>1 DEF TxInv, TransactionsOK, Serving, TxRequest
    <3>2. p \in DOMAIN request[u].details /\ ProductRow(p) \in held[u]
      BY <2>1 DEF LockedProducts
    <3>3. p \in Product
      BY <3>1, <3>2, QuantitiesFinite
    <3>4. p # q
      BY <1>1, <3>2 DEF Unlocked
    <3> QED BY <1>2, <3>3, <3>4
  <2>2. CASE phase[u] = "libre"
    BY <1>1, <2>2
  <2>3. CASE phase[u] # "libre"
    BY <1>1, <2>1, <2>3, WalkinStays DEF WalkinsOnly
  <2> QED BY <2>2, <2>3
<1> QED BY <1>1, <1>3 DEF WalkinsOnly

\* The requests whose interleavings are whole requests.
StockRequests == {"walkin", "entry", "adjustment"}

\* Every step of theirs keeps that, and is a step of Sales.tla or none.
LEMMA WalkinNext ==
  ASSUME Kinds \subseteq StockRequests, TxInv, WalkinsOnly, [TxNext]_allVars
  PROVE  WalkinsOnly' /\ [Next]_vars
<1>1. CASE UNCHANGED allVars
  <2>1. UNCHANGED <<vars, stock, productActive, phase, request, held, snapshot>>
    BY <1>1 DEF allVars, txVars, vars, inventoryVars, salesVars
  <2>2. ASSUME NEW u \in Tx PROVE (phase[u] = "libre" \/ Walkin(u))'
    BY <2>1, WalkinStays DEF WalkinsOnly
  <2> QED BY <2>1, <2>2 DEF WalkinsOnly
<1>2. ASSUME NEW t \in Tx, NEW b \in Business, NEW c \in Buyers, NEW q \in Quantities,
             BeginCreate(t, b, c, q)
      PROVE  WalkinsOnly' /\ [Next]_vars
  <2>1. c = NoCustomer
    BY DEF Buyers, StockRequests
  <2> QED BY <1>2, <2>1, WalkinBegins DEF BeginCreate
<1>3. ASSUME NEW t \in Tx, LockProduct(t) \/ Price(t) \/ InsertSale(t)
      PROVE  WalkinsOnly' /\ [Next]_vars
  BY <1>3, WalkinLocks, WalkinPriced, WalkinInserted DEF LockProduct, Price, InsertSale
<1>4. ASSUME NEW t \in Tx, LockCustomer(t) \/ CommitCancel(t) PROVE FALSE
  <2>1. phase[t] \in {"cliente", "final"} /\ Walkin(t)
    BY <1>4 DEF LockCustomer, CommitCancel, WalkinsOnly
  <2> QED BY <1>4, <2>1 DEF Walkin, LockCustomer, CommitCancel
<1>5. ASSUME NEW t \in Tx, CommitCreate(t) PROVE WalkinsOnly' /\ [Next]_vars
  BY <1>5, WalkinCommits, WalkinsApart DEF Next
<1>6. ASSUME NEW t \in Tx, Refuse(t) \/ DeadlockVictim(t) \/ Fail(t)
      PROVE  WalkinsOnly' /\ [Next]_vars
  BY <1>6, WalkinForgotten DEF Refuse, DeadlockVictim, Fail
<1>7. ASSUME NEW p \in Product, EntryRequest(p) \/ AdjustmentRequest(p)
      PROVE  WalkinsOnly' /\ [Next]_vars
  <2>1. InventoryStep(p)
    BY <1>7 DEF EntryRequest, AdjustmentRequest, InventoryStep
  <2> QED BY <1>7, <2>1, WalkinsWhileStocked DEF Next
<1>8. /\ "cancel" \notin Kinds /\ "payment" \notin Kinds /\ "edit" \notin Kinds
  BY DEF StockRequests
<1> QED BY <1>1, <1>2, <1>3, <1>4, <1>5, <1>6, <1>7, <1>8 DEF TxNext, Progress

\* Walk-in sales, entries and adjustments are serializable: however their
\* transactions overlap, wait, deadlock and fail, the tables go through the steps of
\* whole requests and through nothing else.
THEOREM WalkinsSerializable ==
  ASSUME Kinds \subseteq StockRequests
  PROVE  TxSpec => Serializable
<1>1. TxInit => TxInv /\ WalkinsOnly /\ Init
  BY TxInitHolds DEF TxInit, Init, WalkinsOnly
<1>2. TxInv /\ WalkinsOnly /\ [TxNext]_allVars => (TxInv /\ WalkinsOnly)' /\ [Next]_vars
  BY TxNextHolds, WalkinNext
<1> QED BY <1>1, <1>2, PTL DEF TxSpec, Serializable
=============================================================================
