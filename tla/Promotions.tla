----------------------------- MODULE Promotions -----------------------------
(***************************************************************************)
(* Discounts: promotions and their scopes as the administrator writes them *)
(* (create(), update() and assign() of promotions.service.ts, statement by *)
(* statement, with no transaction) and what a sale makes of them           *)
(* (applyImmediateSale() and the sums of sales.service.ts).  Amounts are   *)
(* in cents; an exact discount in hundredths of a cent.                    *)
(***************************************************************************)
EXTENDS Integers, Sequences, FiniteSets, FiniteSetsExt

CONSTANTS Product, Category,
          CategoryOf,      \* the category of each product
          PrecioVenta,     \* the price of each product
          Definition,      \* what an administrator may ask a promotion to be
          Unknown,         \* an id in a request that no product has
          Lists,           \* the scopes administrators ask for
          Keep,            \* a request that gives no scope
          Quantity,        \* units of one product in a sale
          MaxPromotions,   \* bound: promotions ever created
          MaxSales         \* bound: sales ever recorded

PromotionType == {"COMPRA_N_LLEVA_M", "DESCUENTO_PORCENTAJE", "DESCUENTO_MONTO", "LEALTAD"}

\* porcentaje in whole points, with no upper limit (PromotionDto has none).
Promotion == [tipo : PromotionType, objetivo : Nat \ {0}, beneficio : Nat,
              porcentaje : Nat, monto : Nat, requiereCliente : BOOLEAN, activo : BOOLEAN]

ASSUME PromotionsAssumption ==
  /\ IsFiniteSet(Product)
  /\ CategoryOf \in [Product -> Category]
  /\ PrecioVenta \in [Product -> Nat]
  /\ Definition \subseteq Promotion
  /\ Lists \subseteq SUBSET (Product \cup Category \cup {Unknown})
  /\ Keep \notin Lists
  /\ Product \cap Category = {} /\ Unknown \notin Product \cup Category
  /\ Quantity \subseteq Nat \ {0}
  /\ MaxPromotions \in Nat /\ MaxSales \in Nat

VARIABLES promotions,  \* promociones, in the order of their ids
          scope,       \* the products and categories each one names
          request,     \* how far the last request that gives it a scope has come
          sales        \* the sales recorded, with their venta_promociones

vars == <<promotions, scope, request, sales>>

Phase == {"products", "categories", "assign", "done", "interrupted"}

Init ==
  /\ promotions = <<>>
  /\ scope = <<>>
  /\ request = <<>>
  /\ sales = <<>>

-----------------------------------------------------------------------------
\* The administrator's requests, one at a time for each promotion.

AtPhase(id, phase) == id \in DOMAIN request /\ request[id].phase = phase

Idle(id) == AtPhase(id, "done") \/ AtPhase(id, "interrupted")

GoTo(id, phase) == request' = [request EXCEPT ![id].phase = phase]

Create(d, asked) ==
  /\ Len(promotions) < MaxPromotions
  /\ promotions' = Append(promotions, d)
  /\ scope' = Append(scope, {})
  /\ request' = Append(request, [phase |-> "assign", todo |-> asked, asked |-> asked])
  /\ UNCHANGED sales

Update(id, d, asked) ==
  /\ Idle(id)
  /\ promotions' = [promotions EXCEPT ![id] = d]
  /\ request' = [request EXCEPT ![id] =
       IF asked = Keep THEN @ ELSE [phase |-> "products", todo |-> asked, asked |-> asked]]
  /\ UNCHANGED <<scope, sales>>

DeleteProducts(id) ==
  /\ AtPhase(id, "products")
  /\ scope' = [scope EXCEPT ![id] = @ \ Product]
  /\ GoTo(id, "categories")
  /\ UNCHANGED <<promotions, sales>>

\* Mutant: the old categories stay.
DeleteNoCategories(id) ==
  /\ AtPhase(id, "categories")
  /\ GoTo(id, "assign")
  /\ UNCHANGED <<promotions, scope, sales>>

DeleteCategories(id) ==
  /\ AtPhase(id, "categories")
  /\ scope' = [scope EXCEPT ![id] = @ \ Category]
  /\ GoTo(id, "assign")
  /\ UNCHANGED <<promotions, sales>>

\* One turn of assign(): products before categories; an unknown id throws and
\* leaves what was done.
Assign(id) ==
  /\ AtPhase(id, "assign")
  /\ LET todo == request[id].todo
         products == todo \cap (Product \cup {Unknown})
     IN IF todo = {}
        THEN GoTo(id, "done") /\ UNCHANGED scope
        ELSE \E x \in IF products # {} THEN products ELSE todo :
               IF x = Unknown
               THEN GoTo(id, "interrupted") /\ UNCHANGED scope
               ELSE /\ scope' = [scope EXCEPT ![id] = @ \cup {x}]
                    /\ request' = [request EXCEPT ![id].todo = @ \ {x}]
  /\ UNCHANGED <<promotions, sales>>

\* The process stops, or the database fails, between two statements.
Interrupt(id) ==
  /\ \E phase \in {"products", "categories", "assign"} : AtPhase(id, phase)
  /\ GoTo(id, "interrupted")
  /\ UNCHANGED <<promotions, scope, sales>>

-----------------------------------------------------------------------------
\* What one promotion takes off one line of q units at a price.

\* Mutant: each cantidadObjetivo units bought give the benefit.
BenefitedByObjective(d, q) == (q \div d.objetivo) * d.beneficio

Benefited(d, q) ==
  IF d.tipo = "COMPRA_N_LLEVA_M"
  THEN (q \div (d.objetivo + d.beneficio)) * d.beneficio
  ELSE q

\* Mutant: the amount is not capped at the price.
ExactUncapped(d, q, price) ==
  CASE d.tipo = "COMPRA_N_LLEVA_M"     -> Benefited(d, q) * price * 100
    [] d.tipo = "DESCUENTO_PORCENTAJE" -> q * price * d.porcentaje
    [] d.tipo = "DESCUENTO_MONTO"      -> q * d.monto * 100

Exact(d, q, price) ==
  CASE d.tipo = "COMPRA_N_LLEVA_M"     -> Benefited(d, q) * price * 100
    [] d.tipo = "DESCUENTO_PORCENTAJE" -> q * price * d.porcentaje
    [] d.tipo = "DESCUENTO_MONTO"      -> q * (IF d.monto < price THEN d.monto ELSE price) * 100

Taken(id, lines, p) == Exact(promotions[id], lines[p], PrecioVenta[p])

\* Math.round(): a floating-point tie may lie on either side of the half cent.
Cents(exact, up) == (exact + (IF up THEN 50 ELSE 49)) \div 100

Ties(ids, lines) ==
  {x \in ids \X DOMAIN lines : Taken(x[1], lines, x[2]) % 100 = 50}

InScope(id, p) == scope[id] = {} \/ p \in scope[id] \/ CategoryOf[p] \in scope[id]

\* Those that apply: vigentes are the ones whose dates hold today's.
Immediate(vigentes, customer) ==
  {id \in vigentes : /\ promotions[id].tipo # "LEALTAD"
                     /\ promotions[id].activo
                     /\ promotions[id].requiereCliente => customer}

\* What may apply to a sale made now.
Applying ==
  {Immediate(vigentes, customer) : vigentes \in SUBSET DOMAIN promotions, customer \in BOOLEAN}

\* venta_promociones of a sale: one row for each promotion and line with a
\* discount; the row keeps the promotion as it was, like evidencia does.
Applications(ids, lines, up) ==
  UNION {{[promotion |-> id, evidencia |-> promotions[id], producto |-> p,
           cantidadBeneficiada |-> Benefited(promotions[id], lines[p]),
           descuento |-> Cents(Taken(id, lines, p), <<id, p>> \in up)] :
             p \in {p \in DOMAIN lines : InScope(id, p) /\ Taken(id, lines, p) > 0}} : id \in ids}

\* A line before discounts.
Base(lines, p) == lines[p] * PrecioVenta[p]

\* Mutant: the discounts of a line are added and then rounded.
LineDiscountOfSum(ids, lines, p, up) ==
  Cents(SumFunction([id \in {id \in ids : InScope(id, p)} |-> Taken(id, lines, p)]), up # {})

LineDiscount(ids, lines, p, up) ==
  SumFunction([id \in {id \in ids : InScope(id, p)} |->
                 Cents(Taken(id, lines, p), <<id, p>> \in up)])

\* Mutant: any total is a valid payment.
PayableAlways(total) == TRUE

\* No payment type lets a negative total pass.
Payable(total) == total >= 0

\* create() of a sale from its pricing to its last row; up are the ties that
\* Math.round() takes upwards, the same ones both times.
Sell(lines) ==
  /\ Len(sales) < MaxSales
  /\ \E ids \in Applying : \E up \in SUBSET Ties(ids, lines) :
       LET descuento == [p \in DOMAIN lines |-> LineDiscount(ids, lines, p, up)]
           total == SumFunction([p \in DOMAIN lines |-> Base(lines, p) - descuento[p]])
       IN /\ Payable(total)
          /\ sales' = Append(sales, [lines |-> lines, descuento |-> descuento, total |-> total,
                                     applications |-> Applications(ids, lines, up)])
  /\ UNCHANGED <<promotions, scope, request>>

Next ==
  \/ \E d \in Definition, asked \in Lists : Create(d, asked)
  \/ \E id \in DOMAIN promotions :
        \/ \E d \in Definition, asked \in Lists \cup {Keep} : Update(id, d, asked)
        \/ DeleteProducts(id)
        \/ DeleteCategories(id)
        \/ Assign(id)
        \/ Interrupt(id)
  \/ \E products \in SUBSET Product \ {{}} :
        \E lines \in [products -> Quantity] : Sell(lines)

Spec == Init /\ [][Next]_vars

-----------------------------------------------------------------------------
\* What the tables hold; no sale is recorded with a negative total.
PromotionsTypeOK ==
  /\ promotions \in Seq(Promotion)
  /\ DOMAIN scope = DOMAIN promotions /\ DOMAIN request = DOMAIN promotions
  /\ \A id \in DOMAIN promotions :
        /\ scope[id] \subseteq Product \cup Category
        /\ request[id].phase \in Phase
        /\ request[id].asked \in Lists /\ request[id].todo \subseteq request[id].asked
  /\ \A s \in DOMAIN sales :
        /\ sales[s].total \in Nat
        /\ \A p \in DOMAIN sales[s].lines : sales[s].descuento[p] \in Nat

Rows(s) == sales[s].applications

\* A line's discount is the sum of the rows that explain it, to the cent, though
\* the code rounds them in two places and leaves the empty ones out.
DetailsAddUp ==
  \A s \in DOMAIN sales : \A p \in DOMAIN sales[s].lines :
     sales[s].descuento[p] =
       SumFunction([r \in {r \in Rows(s) : r.producto = p} |-> r.descuento])

\* N units paid for each M free, and as many free as that allows, when one product
\* of the sale is in the promotion's scope: docs/promotions-loyalty-rules.md:3 says
\* so of COMPRA_N_LLEVA_M; what it says of several, the cheapest first, no code does.
FreeUnitsRule ==
  [][\A s \in DOMAIN sales' \ DOMAIN sales : \A r \in Rows(s)' :
       LET lines == sales'[s].lines
           n == r.evidencia.objetivo
           m == r.evidencia.beneficio
           q == lines[r.producto]
           groups == {k \in 0..q : k * n <= q - k * m}
       IN r.evidencia.tipo = "COMPRA_N_LLEVA_M"
            /\ {p \in DOMAIN lines : InScope(r.promotion, p)} = {r.producto} =>
            /\ r.cantidadBeneficiada = Max({k * m : k \in groups})
            /\ r.descuento = r.cantidadBeneficiada * PrecioVenta[r.producto]]_vars

\* No promotion on its own takes more off a line than the line is worth, if its
\* percentage is one.
WithinLine ==
  \A s \in DOMAIN sales : \A r \in Rows(s) :
     r.evidencia.porcentaje <= 100 => r.descuento <= Base(sales[s].lines, r.producto)

\* The scope of a promotion whose last request came to its end is the one it
\* asked for, whatever requests were cut short before.
ScopeAsAsked ==
  \A id \in DOMAIN promotions : AtPhase(id, "done") => scope[id] = request[id].asked

\* No line is sold below zero (docs/promotions-loyalty-rules.md:3).
LineNeverBelowZero ==
  \A s \in DOMAIN sales : \A p \in DOMAIN sales[s].lines :
     sales[s].descuento[p] <= Base(sales[s].lines, p)
=============================================================================
