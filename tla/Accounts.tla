------------------------------- MODULE Accounts -------------------------------
(***************************************************************************)
(* What each customer owes, its history (cliente_cuenta_movimientos) and   *)
(* the payments (abonos_cliente): src/accounts/accounts.service.ts, with   *)
(* the customer's own states from src/catalog/catalog.service.ts.  Money   *)
(* is in cents.  A payment's amount is any positive number, so requests    *)
(* are in half cents and every write rounds to cents.                      *)
(***************************************************************************)
EXTENDS Integers, Sequences

CONSTANTS Customer,        \* customers of every business
          PaymentAmounts,  \* amounts a payment may ask for, in half cents
          BalanceLimit,    \* what the column saldo_actual DECIMAL(12,2) holds
          MaxAccountRows,  \* bound: rows of history kept for one customer
          MaxPayments      \* bound: payments ever made

ASSUME AccountsAssumption ==
  /\ PaymentAmounts \subseteq Nat \ {0}
  /\ BalanceLimit \in Nat
  /\ MaxAccountRows \in Nat
  /\ MaxPayments \in Nat

VARIABLES customers,  \* whether each customer is active, inactive or deleted
          balance,    \* saldoActual of each customer
          account,    \* the account movements of each customer, oldest first
          payments    \* every payment, in the order they were made

accountsVars == <<customers, balance, account, payments>>

CustomerState == {"activo", "inactivo", "eliminado"}

AccountMovementType ==
  {"VENTA_CREDITO", "ABONO", "CANCELACION_VENTA", "CANCELACION_ABONO"}

\* referencia is the number of the sale or of the payment, as tipo says.
AccountMovement ==
  [tipo : AccountMovementType, saldoAnterior : 0..BalanceLimit, cargo : Nat,
   abono : Nat, saldoNuevo : 0..BalanceLimit, referencia : Nat]

CustomerPayment == [customer : Customer, monto : Nat, cancelado : BOOLEAN]

AccountsInit ==
  /\ customers = [c \in Customer |-> "activo"]
  /\ balance = [c \in Customer |-> 0]
  /\ account = [c \in Customer |-> <<>>]
  /\ payments = <<>>

-----------------------------------------------------------------------------
\* toFixed(2) of an amount in half cents: either neighbour of a tie, since the
\* binary fraction the number really is may lie on either side of it.
Rounded(half) ==
  IF half % 2 = 0 THEN {half \div 2} ELSE {half \div 2, half \div 2 + 1}

\* Mutant: a payment above the balance is not refused.
CanMoveBelowZero(c, nuevo) ==
  /\ customers[c] = "activo"
  /\ nuevo <= BalanceLimit
  /\ Len(account[c]) < MaxAccountRows

\* addMovement() on the locked, active customer c; nuevo is the rounded result.
\* A negative result is refused (PAYMENT_EXCEEDS_BALANCE).
CanMove(c, nuevo) ==
  /\ customers[c] = "activo"
  /\ nuevo \in 0..BalanceLimit
  /\ Len(account[c]) < MaxAccountRows

\* Mutant: the row is made from the customer after its balance was set.
AccountRowLate(c, tipo, cargo, abono, nuevo, referencia) ==
  [tipo |-> tipo, saldoAnterior |-> nuevo, cargo |-> cargo, abono |-> abono,
   saldoNuevo |-> nuevo, referencia |-> referencia]

AccountRow(c, tipo, cargo, abono, nuevo, referencia) ==
  [tipo |-> tipo, saldoAnterior |-> balance[c], cargo |-> cargo, abono |-> abono,
   saldoNuevo |-> nuevo, referencia |-> referencia]

Move(c, tipo, cargo, abono, nuevo, referencia) ==
  /\ CanMove(c, nuevo)
  /\ balance' = [balance EXCEPT ![c] = nuevo]
  /\ account' = [account EXCEPT ![c] =
                   Append(@, AccountRow(c, tipo, cargo, abono, nuevo, referencia))]

\* A movement of whole cents leaves the exact result.
AddMovement(c, tipo, cargo, abono, referencia) ==
  Move(c, tipo, cargo, abono, balance[c] + cargo - abono, referencia)

\* createPayment(): the payment, the row and the new balance are rounded from
\* the requested amount, each on its own.
CreatePayment(c) ==
  \E half \in PaymentAmounts :
  \E monto \in Rounded(half), nuevo \in Rounded(2 * balance[c] - half) :
     /\ Len(payments) < MaxPayments
     /\ balance[c] > 0
     /\ half <= 2 * balance[c]
     /\ Move(c, "ABONO", 0, monto, nuevo, Len(payments) + 1)
     /\ payments' = Append(payments, [customer |-> c, monto |-> monto, cancelado |-> FALSE])
     /\ UNCHANGED customers

\* Mutants: a payment may be cancelled again; a payment is not marked.
CancelPaymentAgain(i) ==
  /\ AddMovement(payments[i].customer, "CANCELACION_ABONO", payments[i].monto, 0, i)
  /\ payments' = [payments EXCEPT ![i].cancelado = TRUE]
  /\ UNCHANGED customers

CancelPaymentUnmarked(i) ==
  /\ ~ payments[i].cancelado
  /\ AddMovement(payments[i].customer, "CANCELACION_ABONO", payments[i].monto, 0, i)
  /\ UNCHANGED <<customers, payments>>

\* cancelPayment() charges back what the payment recorded.
CancelPayment(i) ==
  /\ ~ payments[i].cancelado
  /\ AddMovement(payments[i].customer, "CANCELACION_ABONO", payments[i].monto, 0, i)
  /\ payments' = [payments EXCEPT ![i].cancelado = TRUE]
  /\ UNCHANGED customers

\* updateCustomer() may set activo either way, until the customer is deleted.
UpdateCustomer(c, activo) ==
  /\ customers[c] # "eliminado"
  /\ customers' = [customers EXCEPT ![c] = IF activo THEN "activo" ELSE "inactivo"]
  /\ UNCHANGED <<balance, account, payments>>

\* deleteCustomer() is a soft delete: the debt stays where it is.
DeleteCustomer(c) ==
  /\ customers[c] # "eliminado"
  /\ customers' = [customers EXCEPT ![c] = "eliminado"]
  /\ UNCHANGED <<balance, account, payments>>

-----------------------------------------------------------------------------
AccountsTypeOK ==
  /\ customers \in [Customer -> CustomerState]
  /\ balance \in [Customer -> 0..BalanceLimit]
  /\ account \in [Customer -> Seq(AccountMovement)]
  /\ payments \in Seq(CustomerPayment)

BalanceBefore(c, i) == IF i = 1 THEN 0 ELSE account[c][i-1].saldoNuevo

\* What a row's new balance exceeds the exact result of its charge and payment by.
RowDrift(r) == r.saldoNuevo - (r.saldoAnterior + r.cargo - r.abono)

\* The history of an account explains its balance: the rows chain from zero and
\* the last one leaves the balance the customer has; each row balances exactly,
\* but for a payment, whose two roundings may disagree by one cent.
BalanceFollowsAccount ==
  \A c \in Customer :
     /\ \A i \in 1..Len(account[c]) :
           /\ account[c][i].saldoAnterior = BalanceBefore(c, i)
           /\ RowDrift(account[c][i]) \in
                IF account[c][i].tipo = "ABONO" THEN -1..1 ELSE {0}
     /\ balance[c] = BalanceBefore(c, Len(account[c]) + 1)

Rows(c, tipo, referencia) ==
  {i \in 1..Len(account[c]) :
     account[c][i].tipo = tipo /\ account[c][i].referencia = referencia}

\* Payment i and the account of c tell the same story: one row with its amount, if
\* c made it, and one that charges it back if it is cancelled.
PaymentTold(c, i) ==
  LET mine == i <= Len(payments) /\ payments[i].customer = c IN
  /\ IF mine
     THEN \E k \in Rows(c, "ABONO", i) :
             Rows(c, "ABONO", i) = {k} /\ account[c][k].abono = payments[i].monto
     ELSE Rows(c, "ABONO", i) = {}
  /\ IF mine /\ payments[i].cancelado
     THEN \E k \in Rows(c, "CANCELACION_ABONO", i) :
             /\ Rows(c, "CANCELACION_ABONO", i) = {k}
             /\ account[c][k].cargo = payments[i].monto
     ELSE Rows(c, "CANCELACION_ABONO", i) = {}

\* Every payment is in its customer's account once, with its amount, and its
\* cancellation is there exactly when the payment is cancelled: the pair of
\* tables createPayment() and cancelPayment() write never disagree.
PaymentsInAccount == \A c \in Customer, i \in 1..(Len(payments) + 1) : PaymentTold(c, i)
=============================================================================
