------------------------------- MODULE SalesTx -------------------------------
(***************************************************************************)
(* The operations of Sales.tla as the transactions they really are: each   *)
(* request runs on a connection of its own, MySQL's InnoDB gives it row    *)
(* locks and one snapshot (REPEATABLE READ, the default that               *)
(* src/database/data-source.ts leaves in place), and TypeORM's save()      *)
(* writes only the columns that differ from that snapshot.                 *)
(*                                                                         *)
(* create() and cancel() take several steps.  An entry, an adjustment, a   *)
(* payment and its cancellation lock one row first and read nothing before *)
(* it, so each is one step, taken when its row is free.  What a            *)
(* transaction has not committed nobody sees: it writes when it commits.   *)
(***************************************************************************)
EXTENDS Sales

CONSTANTS Tx,       \* connections that run create() and cancel()
          Kinds,    \* which requests this instance makes
          NoValue   \* no request, no snapshot, no draft

ASSUME SalesTxAssumption ==
  /\ Kinds \subseteq {"walkin", "customer", "cancel", "entry", "adjustment", "payment", "edit"}
  /\ NoValue \notin Nat
  /\ IsFiniteSet(Product)
  /\ Product \cap Customer = {}

VARIABLES phase,     \* what each transaction does next
          request,   \* what it was asked for, and what it has decided since
          held,      \* the rows it has locked for update
          snapshot,  \* what its reads that lock nothing see
          draft      \* the entity an edit of the catalogue has read and not saved

txVars == <<phase, request, held, snapshot>>
allVars == <<vars, txVars, draft>>

Phase == {"libre", "productos", "precio", "folio", "cliente", "final"}

\* Every order in which the lines of a sale may come.
Orders(S) == {o \in [1..Cardinality(S) -> S] : \A i, j \in DOMAIN o : o[i] = o[j] => i = j}

TxInit ==
  /\ Init
  /\ phase = [t \in Tx |-> "libre"]
  /\ request = [t \in Tx |-> NoValue]
  /\ held = [t \in Tx |-> {}]
  /\ snapshot = [t \in Tx |-> NoValue]
  /\ draft = [x \in Product \cup Customer |-> NoValue]

-----------------------------------------------------------------------------
ProductRow(p) == <<"productos", p>>
CustomerRow(c) == <<"clientes", c>>
SaleRow(s) == <<"ventas", s>>
FolioRow(b, n) == <<"folio", b, n>>   \* an entry of the unique key (negocio_id, folio)

\* A row is free for t unless another transaction has locked it.
Free(t, row) == \A u \in Tx \ {t} : row \notin held[u]
Unlocked(row) == \A t \in Tx : row \notin held[t]

\* Mutant: the sales of every business are counted.
SnapshotOfAll(b) == [stock |-> stock, balance |-> balance, sales |-> Len(sales)]

\* The first read that locks nothing fixes what all later ones see.
Snapshot(b) == [stock |-> stock, balance |-> balance, sales |-> Cardinality(SalesOf(b))]

\* save() reads the row again, from the snapshot, and skips a column whose new
\* value is the one it finds there, whatever the locked row holds by now.
Saved(now, read, new) == IF new = read THEN now ELSE new

\* The products t has locked come first in its order.
LockedProducts(t) == {p \in DOMAIN request[t].details : ProductRow(p) \in held[t]}
NextProduct(t) == request[t].order[Cardinality(LockedProducts(t)) + 1]
LastProduct(t) == Cardinality(LockedProducts(t)) + 1 = Len(request[t].order)

\* Mutant: the table has no unique key.
FolioNeverTaken(t) == FALSE

\* The folio create() gives its sale, and whether a committed sale has it.
Folio(t) == snapshot[t].sales + 1
FolioTaken(t) == \E s \in SalesOf(request[t].business) : sales[s].folio = Folio(t)

Pending(t) == request[t].total - request[t].inicial

\* The row t is about to lock.
Wanted(t) ==
  CASE phase[t] = "productos" -> {ProductRow(NextProduct(t))}
    [] phase[t] = "cliente"   -> {CustomerRow(request[t].customer)}
    [] phase[t] = "folio"     -> {FolioRow(request[t].business, Folio(t))}
    [] OTHER                  -> {}

Granted(t) == \A row \in Wanted(t) : Free(t, row)

\* Mutant: the product is found whoever it belongs to.
ProductAcceptedAnywhere(t) ==
  LET p == NextProduct(t) IN
  request[t].kind = "create" => productActive[p] /\ request[t].details[p] <= stock[p]

\* What the code checks once it has the lock, on the latest committed row.
ProductAccepted(t) ==
  LET p == NextProduct(t) IN
  request[t].kind = "create" =>
     /\ BusinessOf[p] = request[t].business
     /\ productActive[p]
     /\ request[t].details[p] <= stock[p]

CustomerAccepted(t) ==
  LET c == request[t].customer IN
  /\ customers[c] = "activo"
  /\ request[t].kind = "cancel" => Pending(t) <= balance[c]

Accepted(t) ==
  /\ phase[t] = "productos" => ProductAccepted(t)
  /\ phase[t] = "cliente" => CustomerAccepted(t)
  /\ phase[t] = "folio" => ~ FolioTaken(t)

-----------------------------------------------------------------------------
Advance(t, rows, next) ==
  /\ held' = [held EXCEPT ![t] = @ \cup rows]
  /\ phase' = [phase EXCEPT ![t] = next]

\* Mutant: every sale reads something before it locks its products.
BeginCreateReadingFirst(t, b, c, quantities) ==
  /\ phase[t] = "libre"
  /\ CustomerFound(b, c)
  /\ \E order \in Orders(DOMAIN quantities) :
        request' = [request EXCEPT ![t] =
          [kind |-> "create", business |-> b, customer |-> c, details |-> quantities,
           order |-> order, sale |-> 0, total |-> 0, inicial |-> 0]]
  /\ snapshot' = [snapshot EXCEPT ![t] = Snapshot(b)]
  /\ Advance(t, {}, "productos")
  /\ UNCHANGED <<vars, draft>>

\* create() up to its first lock: exists() on the customer, if there is one, is
\* the read that takes the snapshot.
BeginCreate(t, b, c, quantities) ==
  /\ phase[t] = "libre"
  /\ CustomerFound(b, c)
  /\ \E order \in Orders(DOMAIN quantities) :
        request' = [request EXCEPT ![t] =
          [kind |-> "create", business |-> b, customer |-> c, details |-> quantities,
           order |-> order, sale |-> 0, total |-> 0, inicial |-> 0]]
  /\ snapshot' = [snapshot EXCEPT ![t] = IF c = NoCustomer THEN NoValue ELSE Snapshot(b)]
  /\ Advance(t, {}, "productos")
  /\ UNCHANGED <<vars, draft>>

\* Mutant: the sale is read without locking it.
BeginCancelUnlocked(t, s) ==
  /\ phase[t] = "libre"
  /\ sales[s].estatus # "CANCELADA"
  /\ \E order \in Orders(DOMAIN sales[s].details) :
        request' = [request EXCEPT ![t] =
          [kind |-> "cancel", business |-> sales[s].business, customer |-> sales[s].customer,
           details |-> sales[s].details, order |-> order, sale |-> s,
           total |-> sales[s].total, inicial |-> sales[s].pagoInicial]]
  /\ snapshot' = [snapshot EXCEPT ![t] = Snapshot(sales[s].business)]
  /\ Advance(t, {}, IF sales[s].saldoPendiente > 0 THEN "cliente" ELSE "productos")
  /\ UNCHANGED <<vars, draft>>

\* cancel() up to its second lock: the sale is locked first; a sale without
\* debt is saved next, which takes the snapshot.
BeginCancel(t, s) ==
  /\ phase[t] = "libre"
  /\ Free(t, SaleRow(s))
  /\ sales[s].estatus # "CANCELADA"
  /\ \E order \in Orders(DOMAIN sales[s].details) :
        request' = [request EXCEPT ![t] =
          [kind |-> "cancel", business |-> sales[s].business, customer |-> sales[s].customer,
           details |-> sales[s].details, order |-> order, sale |-> s,
           total |-> sales[s].total, inicial |-> sales[s].pagoInicial]]
  /\ IF sales[s].saldoPendiente > 0
     THEN Advance(t, {SaleRow(s)}, "cliente") /\ UNCHANGED snapshot
     ELSE /\ Advance(t, {SaleRow(s)}, "productos")
          /\ snapshot' = [snapshot EXCEPT ![t] = Snapshot(sales[s].business)]
  /\ UNCHANGED <<vars, draft>>

\* The locking read of the next product of the sale.
LockProduct(t) ==
  /\ phase[t] = "productos" /\ Granted(t) /\ Accepted(t)
  /\ Advance(t, Wanted(t),
             IF ~ LastProduct(t) THEN "productos"
             ELSE IF request[t].kind = "create" THEN "precio" ELSE "final")
  /\ UNCHANGED <<vars, request, snapshot, draft>>

\* Reading the promotions takes the snapshot of a walk-in sale.
Price(t) ==
  /\ phase[t] = "precio"
  /\ \E total \in Totals, tipoPago \in PaymentType, pagoInicial \in Totals :
        LET inicial == Initial(tipoPago, total, pagoInicial) IN
        /\ ValidPayment(request[t].customer, tipoPago, total, inicial)
        /\ request' = [request EXCEPT ![t].total = total, ![t].inicial = inicial]
  /\ snapshot' = [snapshot EXCEPT ![t] = IF @ = NoValue THEN Snapshot(request[t].business) ELSE @]
  /\ Advance(t, {}, "folio")
  /\ UNCHANGED <<vars, draft>>

\* The sale goes in under the folio the snapshot suggests, which waits for an
\* uncommitted sale with the same one.
InsertSale(t) ==
  /\ phase[t] = "folio" /\ Granted(t) /\ Accepted(t)
  /\ Advance(t, Wanted(t), IF Pending(t) # 0 THEN "cliente" ELSE "final")
  /\ UNCHANGED <<vars, request, snapshot, draft>>

\* addMovement() locks the customer: the last lock of create(), the second of
\* cancel(), whose save() of the customer takes the snapshot.
LockCustomer(t) ==
  /\ phase[t] = "cliente" /\ Granted(t) /\ Accepted(t)
  /\ IF request[t].kind = "create"
     THEN Advance(t, Wanted(t), "final") /\ UNCHANGED snapshot
     ELSE /\ Advance(t, Wanted(t), "productos")
          /\ snapshot' = [snapshot EXCEPT ![t] = Snapshot(request[t].business)]
  /\ UNCHANGED <<vars, request, draft>>

Forget(t) ==
  /\ phase' = [phase EXCEPT ![t] = "libre"]
  /\ request' = [request EXCEPT ![t] = NoValue]
  /\ held' = [held EXCEPT ![t] = {}]
  /\ snapshot' = [snapshot EXCEPT ![t] = NoValue]

-----------------------------------------------------------------------------
\* What a transaction writes when it commits: the saves of its products and of
\* its customer skip unchanged columns, the rows of history are always inserted.
StockWritten(t, delta) ==
  [p \in Product |-> Saved(stock[p], snapshot[t].stock[p], Shifted(delta)[p])]

AccountWritten(t, tipo, cargo, abono, id) ==
  LET c == request[t].customer
      nuevo == balance[c] + cargo - abono
  IN IF Pending(t) # 0
     THEN /\ balance' = [balance EXCEPT ![c] = Saved(@, snapshot[t].balance[c], nuevo)]
          /\ account' = [account EXCEPT ![c] =
                           Append(@, AccountRow(c, tipo, cargo, abono, nuevo, id))]
          /\ UNCHANGED <<customers, payments>>
     ELSE UNCHANGED accountsVars

\* The sign in which a transaction moves the stock and the debt.
Delta(t) ==
  IF request[t].kind = "create" THEN Taken(request[t].details) ELSE request[t].details
Owed(t) == IF request[t].kind = "create" THEN Pending(t) ELSE - Pending(t)

Committable(t) ==
  /\ CanChange(Delta(t))
  /\ Pending(t) # 0 =>
       CanMove(request[t].customer, balance[request[t].customer] + Owed(t))
  /\ request[t].kind = "create" => Len(sales) < MaxSales

CommitCreate(t) ==
  LET r == request[t]
      id == Len(sales) + 1
  IN /\ phase[t] = "final" /\ r.kind = "create" /\ Committable(t)
     /\ sales' = Append(sales, NewSale(r.business, r.customer, r.details, r.total,
                                        r.inicial, Folio(t)))
     /\ stock' = StockWritten(t, Delta(t))
     /\ movements' = Recorded(Delta(t), "VENTA", id)
     /\ AccountWritten(t, "VENTA_CREDITO", Pending(t), 0, id)
     /\ Forget(t)
     /\ UNCHANGED <<productActive, draft>>

\* Mutants: the account is left alone; the sale forgets what it left unpaid.
CommitCancelKeepingDebt(t) ==
  LET r == request[t] IN
  /\ phase[t] = "final" /\ r.kind = "cancel" /\ Committable(t)
  /\ sales' = [sales EXCEPT ![r.sale].estatus = "CANCELADA"]
  /\ stock' = StockWritten(t, Delta(t))
  /\ movements' = Recorded(Delta(t), "CANCELACION_VENTA", r.sale)
  /\ Forget(t)
  /\ UNCHANGED <<accountsVars, productActive, draft>>

CommitCancelClearingSale(t) ==
  LET r == request[t] IN
  /\ phase[t] = "final" /\ r.kind = "cancel" /\ Committable(t)
  /\ sales' = [sales EXCEPT ![r.sale].estatus = "CANCELADA", ![r.sale].saldoPendiente = 0]
  /\ stock' = StockWritten(t, Delta(t))
  /\ movements' = Recorded(Delta(t), "CANCELACION_VENTA", r.sale)
  /\ AccountWritten(t, "CANCELACION_VENTA", 0, Pending(t), r.sale)
  /\ Forget(t)
  /\ UNCHANGED <<productActive, draft>>

CommitCancel(t) ==
  LET r == request[t] IN
  /\ phase[t] = "final" /\ r.kind = "cancel" /\ Committable(t)
  /\ sales' = [sales EXCEPT ![r.sale].estatus = "CANCELADA"]
  /\ stock' = StockWritten(t, Delta(t))
  /\ movements' = Recorded(Delta(t), "CANCELACION_VENTA", r.sale)
  /\ AccountWritten(t, "CANCELACION_VENTA", 0, Pending(t), r.sale)
  /\ Forget(t)
  /\ UNCHANGED <<productActive, draft>>

\* A check fails, or a write is out of range: the exception rolls back.
Refuse(t) ==
  /\ phase[t] # "libre" /\ Granted(t)
  /\ ~ Accepted(t) \/ (phase[t] = "final" /\ ~ Committable(t))
  /\ Forget(t)
  /\ UNCHANGED <<vars, draft>>

\* Mutant: nothing detects a deadlock.
DeadlockUndetected(S) == FALSE

\* InnoDB rolls back one transaction of a set in which each waits for another.
Deadlocked(S) == \A t \in S : \E u \in S \ {t} : Wanted(t) \cap held[u] # {}

DeadlockVictim(t) ==
  /\ \E S \in SUBSET Tx : t \in S /\ Deadlocked(S)
  /\ Forget(t)
  /\ UNCHANGED <<vars, draft>>

\* A lost connection, a stopped process or a lock wait that timed out.
Fail(t) ==
  /\ phase[t] # "libre"
  /\ Forget(t)
  /\ UNCHANGED <<vars, draft>>

-----------------------------------------------------------------------------
\* The requests that are one step, once the row they lock first is free.
EntryRequest(p) ==
  Unlocked(ProductRow(p)) /\ Entry(p) /\ UNCHANGED <<accountsVars, salesVars, txVars, draft>>

AdjustmentRequest(p) ==
  Unlocked(ProductRow(p)) /\ Adjustment(p) /\ UNCHANGED <<accountsVars, salesVars, txVars, draft>>

PaymentRequest(c) ==
  /\ Unlocked(CustomerRow(c))
  /\ CreatePayment(c)
  /\ UNCHANGED <<inventoryVars, salesVars, txVars, draft>>

CancelPaymentRequest(i) ==
  Unlocked(CustomerRow(payments[i].customer)) /\ PaymentStep(i) /\ UNCHANGED <<txVars, draft>>

\* updateProduct(), statusProduct() and updateCustomer() read the entity outside
\* any transaction and save all of it: a stock or a balance that has changed in
\* between differs from what they read and is written back.
ReadProduct(p) ==
  /\ draft' = [draft EXCEPT ![p] = stock[p]]
  /\ UNCHANGED <<vars, txVars>>

SaveProduct(p) ==
  /\ draft[p] # NoValue
  /\ Unlocked(ProductRow(p))
  /\ stock' = [stock EXCEPT ![p] = draft[p]]
  /\ \E activo \in BOOLEAN : productActive' = [productActive EXCEPT ![p] = activo]
  /\ draft' = [draft EXCEPT ![p] = NoValue]
  /\ UNCHANGED <<movements, accountsVars, sales, txVars>>

ReadCustomer(c) ==
  /\ customers[c] # "eliminado"
  /\ draft' = [draft EXCEPT ![c] = balance[c]]
  /\ UNCHANGED <<vars, txVars>>

SaveCustomer(c) ==
  /\ draft[c] # NoValue
  /\ Unlocked(CustomerRow(c))
  /\ balance' = [balance EXCEPT ![c] = draft[c]]
  /\ \E activo \in {"activo", "inactivo"} : customers' = [customers EXCEPT ![c] = activo]
  /\ draft' = [draft EXCEPT ![c] = NoValue]
  /\ UNCHANGED <<account, payments, inventoryVars, salesVars, txVars>>

DeleteRequest(c) ==
  /\ Unlocked(CustomerRow(c))
  /\ DeleteCustomer(c)
  /\ UNCHANGED <<inventoryVars, salesVars, txVars, draft>>

-----------------------------------------------------------------------------
Buyers == (IF "walkin" \in Kinds THEN {NoCustomer} ELSE {})
            \cup (IF "customer" \in Kinds THEN Customer ELSE {})

\* The steps of an open transaction that the server owes it.
Progress(t) ==
  \/ LockProduct(t) \/ Price(t) \/ InsertSale(t) \/ LockCustomer(t)
  \/ CommitCreate(t) \/ CommitCancel(t) \/ Refuse(t)

TxNext ==
  \/ \E t \in Tx :
        \/ /\ Len(sales) < MaxSales
           /\ \E b \in Business, c \in Buyers, quantities \in Quantities :
                 BeginCreate(t, b, c, quantities)
        \/ "cancel" \in Kinds /\ \E s \in DOMAIN sales : BeginCancel(t, s)
        \/ Progress(t)
        \/ DeadlockVictim(t)
        \/ Fail(t)
  \/ "entry" \in Kinds /\ \E p \in Product : EntryRequest(p)
  \/ "adjustment" \in Kinds /\ \E p \in Product : AdjustmentRequest(p)
  \/ "payment" \in Kinds /\ \E c \in Customer : PaymentRequest(c)
  \/ "payment" \in Kinds /\ \E i \in DOMAIN payments : CancelPaymentRequest(i)
  \/ "edit" \in Kinds /\ \E p \in Product : ReadProduct(p) \/ SaveProduct(p)
  \/ "edit" \in Kinds /\ \E c \in Customer : ReadCustomer(c) \/ SaveCustomer(c) \/ DeleteRequest(c)

TxSpec == TxInit /\ [][TxNext]_allVars

\* A transaction that can go on does.  A lock a transaction waits for is granted
\* in turn, so one that is free again and again is not kept from it for ever;
\* the deadlock detector runs on every wait.  Nothing fair makes a connection fail.
Fairness ==
  /\ \A t \in Tx : SF_allVars(Progress(t))
  /\ WF_allVars(\E t \in Tx : DeadlockVictim(t))

FairSpec == TxSpec /\ Fairness

-----------------------------------------------------------------------------
TxRequest ==
  [kind : {"create", "cancel"}, business : Business, customer : Customer \cup {NoCustomer},
   details : Quantities, order : Seq(Product), sale : Nat, total : Int, inicial : Int]

TxSnapshot == [stock : [Product -> Nat], balance : [Customer -> Nat], sales : Nat]

TxTypeOK ==
  /\ TypeOK
  /\ phase \in [Tx -> Phase]
  /\ request \in [Tx -> TxRequest \cup {NoValue}]
  /\ snapshot \in [Tx -> TxSnapshot \cup {NoValue}]
  /\ draft \in [Product \cup Customer -> Nat \cup {NoValue}]

\* No two open sales of a business hold the same folio, and none holds one that
\* is already in the table, although each counted the sales of its own snapshot.
FoliosReserved ==
  \A t \in Tx, b \in Business, n \in 1..MaxSales :
     FolioRow(b, n) \in held[t] =>
        /\ Free(t, FolioRow(b, n))
        /\ \A s \in SalesOf(b) : sales[s].folio < n

\* The ledger and the stock cannot tell these interleavings from some order of
\* whole requests: every step of the transactions is a step of Sales or none.
Serializable == Init /\ [][Next]_vars

\* Every request that opened a transaction ends, in a commit or a rollback.
EveryRequestEnds == \A t \in Tx : phase[t] # "libre" ~> phase[t] = "libre"

\* The units of a cancelled sale are back in stock: README.md:24.
CancelReturnsStock ==
  [][\A s \in DOMAIN sales : sales'[s].estatus # sales[s].estatus =>
        \A p \in DOMAIN sales[s].details : stock'[p] = stock[p] + sales[s].details[p]]_allVars
=============================================================================
