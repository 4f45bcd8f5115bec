-------------------------- MODULE PromotionsProofs --------------------------
(***************************************************************************)
(* The invariants of Promotions hold in every reachable state, whatever    *)
(* requests are cut short and wherever: first what the tables of scopes    *)
(* hold (ScopeInv), then what each recorded sale says on its own (SaleOK). *)
(***************************************************************************)
EXTENDS Promotions, SumProofs, TLAPS

Id == Product \cup Category \cup {Unknown}

RequestRecord == [phase : Phase, todo : SUBSET Id, asked : Lists]

TablesTyped ==
  /\ scope \in Seq(SUBSET (Product \cup Category))
  /\ request \in Seq(RequestRecord)
  /\ Len(scope) = Len(request)
  /\ Len(promotions) = Len(request)
  /\ promotions \in Seq(Promotion)

\* How much of the old scope is gone, and of the new one there, at each phase.
Progressed(sc, rq) ==
  /\ rq.todo \subseteq rq.asked
  /\ rq.phase \in {"products", "categories"} => rq.todo = rq.asked
  /\ rq.phase = "categories" => sc \cap Product = {}
  /\ rq.phase = "assign" => sc = rq.asked \ rq.todo
  /\ rq.phase = "done" => sc = rq.asked

ScopeInv ==
  /\ TablesTyped
  /\ \A id \in DOMAIN request : Progressed(scope[id], request[id])

\* With no promotion there is no request.
LEMMA InitScope == Init => ScopeInv
BY DEF Init, ScopeInv, TablesTyped

\* A step that changes one promotion's scope and request, and leaves the others.
LEMMA OneChanges ==
  ASSUME ScopeInv, UNCHANGED promotions,
         NEW id \in DOMAIN request,
         NEW sc \in SUBSET (Product \cup Category), NEW rq \in RequestRecord,
         scope' = [scope EXCEPT ![id] = sc],
         request' = [request EXCEPT ![id] = rq],
         Progressed(sc, rq)
  PROVE  ScopeInv'
<1>1. TablesTyped'
  BY DEF ScopeInv, TablesTyped
<1>2. ASSUME NEW j \in DOMAIN request'
      PROVE  Progressed(scope'[j], request'[j])
  <2>1. j \in DOMAIN request /\ j \in DOMAIN scope
    BY <1>2 DEF ScopeInv, TablesTyped
  <2>2. CASE j = id
    <3>1. scope'[j] = sc /\ request'[j] = rq
      BY <2>1, <2>2
    <3> QED BY <3>1
  <2>3. CASE j # id
    <3>1. scope'[j] = scope[j] /\ request'[j] = request[j]
      BY <2>1, <2>3
    <3> QED BY <3>1, <2>1 DEF ScopeInv
  <2> QED BY <2>2, <2>3
<1> QED BY <1>1, <1>2 DEF ScopeInv

\* A new promotion has no scope and its whole request to do.
LEMMA CreateKeeps ==
  ASSUME ScopeInv, PromotionsAssumption, NEW d \in Definition, NEW asked \in Lists,
         Create(d, asked)
  PROVE  ScopeInv'
<1> DEFINE rq == [phase |-> "assign", todo |-> asked, asked |-> asked]
<1>1. rq \in RequestRecord /\ d \in Promotion
  BY DEF PromotionsAssumption, RequestRecord, Phase, Id
<1>2. Progressed({}, rq)
  BY DEF Progressed
<1>3. /\ scope' = Append(scope, {}) /\ request' = Append(request, rq)
      /\ promotions' = Append(promotions, d)
  BY DEF Create
<1> HIDE DEF rq
<1>4. TablesTyped'
  BY <1>1, <1>3 DEF ScopeInv, TablesTyped
<1>5. ASSUME NEW j \in DOMAIN request'
      PROVE  Progressed(scope'[j], request'[j])
  <2>1. CASE j \in DOMAIN request
    <3>1. scope'[j] = scope[j] /\ request'[j] = request[j]
      BY <2>1, <1>3 DEF ScopeInv, TablesTyped
    <3> QED BY <3>1, <2>1 DEF ScopeInv
  <2>2. CASE j \notin DOMAIN request
    <3>1. scope'[j] = {} /\ request'[j] = rq
      BY <2>2, <1>3, <1>5 DEF ScopeInv, TablesTyped
    <3> QED BY <3>1, <1>2
  <2> QED BY <2>1, <2>2
<1> QED BY <1>4, <1>5 DEF ScopeInv

\* An edit of the definition alone leaves scope and request; one that gives
\* lists starts over.
LEMMA UpdateKeeps ==
  ASSUME ScopeInv, PromotionsAssumption, NEW id \in DOMAIN promotions,
         NEW d \in Definition, NEW asked \in Lists \cup {Keep}, Update(id, d, asked)
  PROVE  ScopeInv'
<1> DEFINE rq == IF asked = Keep THEN request[id]
                 ELSE [phase |-> "products", todo |-> asked, asked |-> asked]
<1>1. id \in DOMAIN request /\ id \in DOMAIN scope
  BY DEF ScopeInv, TablesTyped
<1>2. rq \in RequestRecord
  <2>1. CASE asked = Keep
    BY <2>1, <1>1 DEF ScopeInv, TablesTyped
  <2>2. CASE asked # Keep
    BY <2>2 DEF PromotionsAssumption, RequestRecord, Phase, Id
  <2> QED BY <2>1, <2>2
<1>3. Progressed(scope[id], rq)
  <2>1. CASE asked = Keep
    BY <2>1, <1>1 DEF ScopeInv
  <2>2. CASE asked # Keep
    BY <2>2 DEF Progressed
  <2> QED BY <2>1, <2>2
<1>4. /\ scope' = scope /\ request' = [request EXCEPT ![id] = rq]
      /\ promotions' = [promotions EXCEPT ![id] = d]
  BY DEF Update
<1> HIDE DEF rq
<1>5. d \in Promotion
  BY DEF PromotionsAssumption
<1>6. TablesTyped'
  BY <1>1, <1>2, <1>4, <1>5 DEF ScopeInv, TablesTyped
<1>7. ASSUME NEW j \in DOMAIN request'
      PROVE  Progressed(scope'[j], request'[j])
  <2>1. j \in DOMAIN request
    BY <1>4, <1>7 DEF ScopeInv, TablesTyped
  <2>2. CASE j = id
    <3>1. request'[j] = rq
      BY <2>1, <2>2, <1>4
    <3> QED BY <3>1, <2>2, <1>3, <1>4
  <2>3. CASE j # id
    <3>1. request'[j] = request[j]
      BY <2>1, <2>3, <1>4
    <3> QED BY <3>1, <2>1, <1>4 DEF ScopeInv
  <2> QED BY <2>2, <2>3
<1> QED BY <1>6, <1>7 DEF ScopeInv

\* The phase of a request changes and its lists do not.
LEMMA GoToRecord ==
  ASSUME NEW id \in DOMAIN request, TablesTyped, NEW phase \in Phase, GoTo(id, phase)
  PROVE  /\ [request[id] EXCEPT !.phase = phase] \in RequestRecord
         /\ request' = [request EXCEPT ![id] = [request[id] EXCEPT !.phase = phase]]
<1>1. request[id] \in RequestRecord
  BY DEF TablesTyped
<1>2. [request[id] EXCEPT !.phase = phase] \in RequestRecord
  BY <1>1 DEF RequestRecord
<1> QED BY <1>2 DEF GoTo

\* Each delete takes its own table's rows.
LEMMA DeletesKeep ==
  ASSUME ScopeInv, PromotionsAssumption, NEW id \in DOMAIN promotions,
         DeleteProducts(id) \/ DeleteCategories(id)
  PROVE  ScopeInv'
<1> DEFINE rec(phase) == [request[id] EXCEPT !.phase = phase]
<1>1. id \in DOMAIN request /\ id \in DOMAIN scope /\ TablesTyped
  BY DEF ScopeInv, TablesTyped
<1>2. /\ scope[id] \in SUBSET (Product \cup Category)
      /\ request[id] \in RequestRecord
      /\ Progressed(scope[id], request[id])
  BY <1>1 DEF ScopeInv, TablesTyped
<1>3. CASE DeleteProducts(id)
  <2>1. /\ request[id].phase = "products"
        /\ GoTo(id, "categories")
        /\ scope' = [scope EXCEPT ![id] = scope[id] \ Product]
        /\ UNCHANGED promotions
    BY <1>3 DEF DeleteProducts, AtPhase
  <2>2. Progressed(scope[id] \ Product, rec("categories"))
    BY <1>2, <2>1 DEF Progressed, RequestRecord
  <2>3. "categories" \in Phase
    BY DEF Phase
  <2>4. /\ rec("categories") \in RequestRecord
        /\ request' = [request EXCEPT ![id] = rec("categories")]
    BY <1>1, <2>1, <2>3, GoToRecord
  <2>5. scope[id] \ Product \in SUBSET (Product \cup Category)
    BY <1>2
  <2> HIDE DEF rec
  <2> QED BY <1>1, <2>1, <2>2, <2>4, <2>5, OneChanges
<1>4. CASE DeleteCategories(id)
  <2>1. /\ request[id].phase = "categories"
        /\ GoTo(id, "assign")
        /\ scope' = [scope EXCEPT ![id] = scope[id] \ Category]
        /\ UNCHANGED promotions
    BY <1>4 DEF DeleteCategories, AtPhase
  <2>2. scope[id] \ Category = {}
    BY <1>2, <2>1 DEF Progressed
  <2>3. Progressed(scope[id] \ Category, rec("assign"))
    BY <1>2, <2>1, <2>2 DEF Progressed, RequestRecord
  <2>4. "assign" \in Phase
    BY DEF Phase
  <2>5. /\ rec("assign") \in RequestRecord
        /\ request' = [request EXCEPT ![id] = rec("assign")]
    BY <1>1, <2>1, <2>4, GoToRecord
  <2>6. scope[id] \ Category \in SUBSET (Product \cup Category)
    BY <1>2
  <2> HIDE DEF rec
  <2> QED BY <1>1, <2>1, <2>3, <2>5, <2>6, OneChanges
<1> QED BY <1>3, <1>4

\* A turn of assign() moves one id from what is to do to the scope, ends, or
\* stops at an unknown one.
LEMMA AssignKeeps ==
  ASSUME ScopeInv, PromotionsAssumption, NEW id \in DOMAIN promotions, Assign(id)
  PROVE  ScopeInv'
<1> DEFINE rec(phase) == [request[id] EXCEPT !.phase = phase]
<1>1. id \in DOMAIN request /\ id \in DOMAIN scope /\ TablesTyped
  BY DEF ScopeInv, TablesTyped
<1>2. /\ scope[id] \in SUBSET (Product \cup Category)
      /\ request[id] \in RequestRecord
      /\ Progressed(scope[id], request[id])
  BY <1>1 DEF ScopeInv, TablesTyped
<1>3. request[id].phase = "assign" /\ UNCHANGED promotions
  BY DEF Assign, AtPhase
<1>4. /\ scope[id] = request[id].asked \ request[id].todo
      /\ request[id].todo \subseteq request[id].asked
  BY <1>2, <1>3 DEF Progressed
<1>5. scope = [scope EXCEPT ![id] = scope[id]]
  BY <1>1 DEF TablesTyped
<1>6. CASE request[id].todo = {}
  <2>1. GoTo(id, "done") /\ UNCHANGED scope
    BY <1>6 DEF Assign
  <2>2. Progressed(scope[id], rec("done"))
    BY <1>2, <1>4, <1>6 DEF Progressed, RequestRecord
  <2>3. "done" \in Phase
    BY DEF Phase
  <2>4. /\ rec("done") \in RequestRecord
        /\ request' = [request EXCEPT ![id] = rec("done")]
    BY <1>1, <2>1, <2>3, GoToRecord
  <2> HIDE DEF rec
  <2> QED BY <1>1, <1>2, <1>3, <1>5, <2>1, <2>2, <2>4, OneChanges
<1>7. CASE request[id].todo # {}
  <2>1. PICK x \in request[id].todo :
          IF x = Unknown
          THEN GoTo(id, "interrupted") /\ UNCHANGED scope
          ELSE /\ scope' = [scope EXCEPT ![id] = scope[id] \cup {x}]
               /\ request' = [request EXCEPT ![id].todo = request[id].todo \ {x}]
    BY <1>7 DEF Assign
  <2>2. CASE x = Unknown
    <3>1. GoTo(id, "interrupted") /\ UNCHANGED scope
      BY <2>1, <2>2
    <3>2. Progressed(scope[id], rec("interrupted"))
      BY <1>2 DEF Progressed, RequestRecord
    <3>3. "interrupted" \in Phase
      BY DEF Phase
    <3>4. /\ rec("interrupted") \in RequestRecord
          /\ request' = [request EXCEPT ![id] = rec("interrupted")]
      BY <1>1, <3>1, <3>3, GoToRecord
    <3> HIDE DEF rec
    <3> QED BY <1>1, <1>2, <1>3, <1>5, <3>1, <3>2, <3>4, OneChanges
  <2>3. CASE x # Unknown
    <3> DEFINE rq == [request[id] EXCEPT !.todo = request[id].todo \ {x}]
    <3>1. /\ scope' = [scope EXCEPT ![id] = scope[id] \cup {x}]
          /\ request' = [request EXCEPT ![id] = rq]
      BY <2>1, <2>3
    <3>2. rq \in RequestRecord /\ scope[id] \cup {x} \in SUBSET (Product \cup Category)
      BY <1>2, <2>1, <2>3 DEF RequestRecord, Id
    <3>3. Progressed(scope[id] \cup {x}, rq)
      BY <1>2, <1>3, <1>4, <2>1 DEF Progressed, RequestRecord
    <3> HIDE DEF rq
    <3> QED BY <1>1, <1>3, <3>1, <3>2, <3>3, OneChanges
  <2> QED BY <2>2, <2>3
<1> QED BY <1>6, <1>7

\* A request cut short keeps what it had done.
LEMMA InterruptKeeps ==
  ASSUME ScopeInv, NEW id \in DOMAIN promotions, Interrupt(id)
  PROVE  ScopeInv'
<1> DEFINE rq == [request[id] EXCEPT !.phase = "interrupted"]
<1>1. id \in DOMAIN request /\ id \in DOMAIN scope /\ TablesTyped
  BY DEF ScopeInv, TablesTyped
<1>2. /\ scope[id] \in SUBSET (Product \cup Category) /\ request[id] \in RequestRecord
      /\ Progressed(scope[id], request[id])
  BY <1>1 DEF ScopeInv, TablesTyped
<1>3. GoTo(id, "interrupted") /\ UNCHANGED <<promotions, scope>>
  BY DEF Interrupt
<1>4. Progressed(scope[id], rq)
  BY <1>2 DEF Progressed, RequestRecord
<1>5. "interrupted" \in Phase
  BY DEF Phase
<1>6. rq \in RequestRecord /\ request' = [request EXCEPT ![id] = rq]
  BY <1>1, <1>3, <1>5, GoToRecord
<1>7. scope' = [scope EXCEPT ![id] = scope[id]]
  BY <1>1, <1>3 DEF TablesTyped
<1> HIDE DEF rq
<1> QED BY <1>1, <1>2, <1>3, <1>4, <1>6, <1>7, OneChanges

LEMMA NextScope ==
  ASSUME ScopeInv, PromotionsAssumption, [Next]_vars
  PROVE  ScopeInv'
<1>1. ASSUME NEW d \in Definition, NEW asked \in Lists, Create(d, asked)
      PROVE  ScopeInv'
  BY <1>1, CreateKeeps
<1>2. ASSUME NEW id \in DOMAIN promotions
      PROVE  /\ \A d \in Definition, asked \in Lists \cup {Keep} : Update(id, d, asked) => ScopeInv'
             /\ DeleteProducts(id) \/ DeleteCategories(id) => ScopeInv'
             /\ Assign(id) => ScopeInv'
             /\ Interrupt(id) => ScopeInv'
  BY <1>2, UpdateKeeps, DeletesKeep, AssignKeeps, InterruptKeeps
<1>3. ASSUME UNCHANGED <<promotions, scope, request>>
      PROVE  ScopeInv'
  BY <1>3 DEF ScopeInv, TablesTyped, Progressed
<1>4. ASSUME NEW lines, Sell(lines)
      PROVE  ScopeInv'
  BY <1>3, <1>4 DEF Sell
<1>5. CASE UNCHANGED vars
  BY <1>3, <1>5 DEF vars
<1> QED BY <1>1, <1>2, <1>4, <1>5 DEF Next

\* For any promotions, scopes and prices: whenever the last request that gives a
\* promotion a scope has come to its end, the tables hold the scope it asked for.
THEOREM ScopeHolds == Spec => []ScopeAsAsked
<1> USE PromotionsAssumption
<1>1. Init => ScopeInv
  BY InitScope
<1>2. ScopeInv /\ [Next]_vars => ScopeInv'
  BY NextScope
<1>3. ScopeInv => ScopeAsAsked
  BY DEF ScopeInv, TablesTyped, Progressed, ScopeAsAsked, AtPhase
<1> QED BY <1>1, <1>2, <1>3, PTL DEF Spec
-----------------------------------------------------------------------------
\* The arithmetic of one row.

\* The quotient is the largest number of whole groups.
LEMMA MostGroups ==
  ASSUME NEW q \in Nat, NEW b \in Nat \ {0}, NEW k \in Nat, k * b <= q
  PROVE  k <= q \div b
<1> DEFINE g == q \div b
<1>1. g \in Nat /\ q < (g + 1) * b
  BY Quotient
<1> HIDE DEF g
<1>2. SUFFICES ASSUME g + 1 <= k PROVE FALSE
  BY <1>1 DEF g
<1>3. (g + 1) * b <= k * b
  BY <1>1, <1>2
<1>4. (g + 1) * b \in Nat /\ k * b \in Nat
  BY <1>1
<1> QED BY <1>1, <1>3, <1>4

\* The most units that come free when n are paid for each m.
LEMMA MostFree ==
  ASSUME NEW q \in Nat, NEW n \in Nat \ {0}, NEW m \in Nat
  PROVE  LET g == q \div (n + m)
         IN /\ g \in Nat /\ g * m \in Nat /\ g * m <= q
            /\ Max({k * m : k \in {k \in 0..q : k * n <= q - k * m}}) = g * m
<1> DEFINE g == q \div (n + m)
           groups == {k \in 0..q : k * n <= q - k * m}
           F == {k * m : k \in groups}
<1>1. g \in Nat /\ g * (n + m) <= q
  <2>1. n + m \in Nat \ {0}
    OBVIOUS
  <2> QED BY <2>1, Quotient
<1>2. ASSUME NEW k \in Nat, k * n <= q - k * m PROVE k <= g
  <2>1. k * (n + m) = k * n + k * m /\ k * n \in Nat /\ k * m \in Nat
    OBVIOUS
  <2>2. k * (n + m) <= q
    BY <1>2, <2>1
  <2> QED BY <2>2, MostGroups
<1> HIDE DEF g
<1>3. /\ g * (n + m) = g * n + g * m /\ g * n \in Nat /\ g * m \in Nat
      /\ g * n >= g
  BY <1>1
<1>4. g <= q /\ g * m <= q /\ g * n <= q - g * m
  BY <1>1, <1>3
<1>5. g * m \in F
  BY <1>1, <1>4
<1>6. ASSUME NEW x \in F PROVE x \in Nat /\ x <= g * m
  <2>1. PICK k \in groups : x = k * m
    OBVIOUS
  <2>2. k \in Nat /\ k <= g
    BY <1>2
  <2> QED BY <1>1, <2>1, <2>2
<1> HIDE DEF F, groups
<1>7. \A x \in F : (\A y \in F : x >= y) <=> x = g * m
  BY <1>3, <1>5, <1>6
<1>8. Max(F) \in F /\ \A y \in F : Max(F) >= y
  <2>1. \E x \in F : \A y \in F : x >= y
    BY <1>5, <1>7
  <2> QED BY <2>1 DEF Max
<1>9. Max(F) = g * m
  BY <1>7, <1>8
<1> QED BY <1>1, <1>3, <1>4, <1>9 DEF g, F, groups

\* Math.round() of an exact discount, whichever way a tie falls.
LEMMA Rounded ==
  ASSUME NEW exact \in Nat, NEW up
  PROVE  /\ Cents(exact, up) \in Nat
         /\ exact = 0 => Cents(exact, up) = 0
         /\ \A x \in Nat : exact <= x * 100 => Cents(exact, up) <= x
         /\ \A x \in Nat : exact = x * 100 => Cents(exact, up) = x
<1> DEFINE half == IF up THEN 50 ELSE 49
           c == (exact + half) \div 100
<1>1. half \in Nat /\ half <= 50 /\ exact + half \in Nat
  OBVIOUS
<1> HIDE DEF half
<1>2. c \in Nat /\ c * 100 <= exact + half /\ exact + half < (c + 1) * 100
  BY <1>1, Quotient
<1>3. Cents(exact, up) = c
  BY DEF Cents, half
<1> HIDE DEF c
<1> QED BY <1>1, <1>2, <1>3

\* What one promotion takes off one line, exactly: a natural number, and no more
\* than the line is worth unless its percentage is above 100.
LEMMA ExactBounded ==
  ASSUME NEW d \in Promotion, d.tipo # "LEALTAD", NEW q \in Nat, NEW price \in Nat
  PROVE  /\ Exact(d, q, price) \in Nat /\ Benefited(d, q) \in Nat
         /\ d.porcentaje <= 100 => Exact(d, q, price) <= (q * price) * 100
<1>1. /\ d.objetivo \in Nat \ {0} /\ d.beneficio \in Nat /\ d.porcentaje \in Nat
      /\ d.monto \in Nat /\ d.tipo \in PromotionType
  BY DEF Promotion
<1>2. q * price \in Nat
  OBVIOUS
<1>3. CASE d.tipo = "COMPRA_N_LLEVA_M"
  <2>1. PICK g : g = q \div (d.objetivo + d.beneficio)
    OBVIOUS
  <2>2. PICK b : b = g * d.beneficio
    OBVIOUS
  <2>3. b \in Nat /\ b <= q
    BY <1>1, <2>1, <2>2, MostFree
  <2>4. Benefited(d, q) = b
    BY <1>3, <2>1, <2>2 DEF Benefited
  <2>5. Exact(d, q, price) = b * price * 100
    BY <1>3, <2>4 DEF Exact
  <2>6. b * price <= q * price /\ b * price \in Nat
    BY <2>3
  <2> QED BY <1>2, <2>3, <2>4, <2>5, <2>6
<1>4. CASE d.tipo = "DESCUENTO_PORCENTAJE"
  <2>1. Exact(d, q, price) = q * price * d.porcentaje /\ Benefited(d, q) = q
    BY <1>4 DEF Exact, Benefited
  <2>2. PICK l \in Nat : l = q * price
    BY <1>2
  <2>3. l * d.porcentaje \in Nat /\ (d.porcentaje <= 100 => l * d.porcentaje <= l * 100)
    BY <1>1
  <2> QED BY <2>1, <2>2, <2>3
<1>5. CASE d.tipo = "DESCUENTO_MONTO"
  <2>1. PICK off : off = IF d.monto < price THEN d.monto ELSE price
    OBVIOUS
  <2>2. off \in Nat /\ off <= price
    BY <1>1, <2>1
  <2>3. Exact(d, q, price) = q * off * 100 /\ Benefited(d, q) = q
    BY <1>5, <2>1 DEF Exact, Benefited
  <2>4. q * off <= q * price /\ q * off \in Nat
    BY <2>2
  <2> QED BY <1>2, <2>3, <2>4
<1> QED BY <1>1, <1>3, <1>4, <1>5 DEF PromotionType

-----------------------------------------------------------------------------
\* What a sale records.

Application == [promotion : Nat, evidencia : Promotion, producto : Product,
                cantidadBeneficiada : Nat, descuento : Nat]

Sale == [lines : UNION {[S -> Quantity] : S \in SUBSET Product},
         descuento : UNION {[S -> Nat] : S \in SUBSET Product},
         total : Nat, applications : SUBSET Application]

RowsSum(rows) == SumFunction([r \in rows |-> r.descuento])

RowsOfLine(sale, p) == {r \in sale.applications : r.producto = p}

\* The rows of a sale keep the rule of free units and stay within their lines.
RowOK(r, lines) ==
  /\ r.producto \in DOMAIN lines
  /\ r.evidencia.tipo = "COMPRA_N_LLEVA_M" =>
       /\ r.cantidadBeneficiada =
            Max({k * r.evidencia.beneficio :
                   k \in {k \in 0..lines[r.producto] :
                            k * r.evidencia.objetivo
                              <= lines[r.producto] - k * r.evidencia.beneficio}})
       /\ r.descuento = r.cantidadBeneficiada * PrecioVenta[r.producto]
  /\ r.evidencia.porcentaje <= 100 => r.descuento <= Base(lines, r.producto)

SaleOK(sale) ==
  /\ DOMAIN sale.descuento = DOMAIN sale.lines
  /\ \A r \in sale.applications : RowOK(r, sale.lines)
  /\ \A p \in DOMAIN sale.lines :
       sale.descuento[p] = RowsSum(RowsOfLine(sale, p))

\* A row of a sale.
Row(id, lines, p, up) ==
  [promotion |-> id, evidencia |-> promotions[id], producto |-> p,
   cantidadBeneficiada |-> Benefited(promotions[id], lines[p]),
   descuento |-> Cents(Taken(id, lines, p), <<id, p>> \in up)]

\* There is one for each promotion and line with a discount.
LEMMA RowsOfSale ==
  ASSUME NEW ids, NEW lines, NEW up, NEW r
  PROVE  r \in Applications(ids, lines, up) <=>
           \E id \in ids, p \in DOMAIN lines :
             InScope(id, p) /\ Taken(id, lines, p) > 0 /\ r = Row(id, lines, p, up)
<1> DEFINE P(id) == {p \in DOMAIN lines : InScope(id, p) /\ Taken(id, lines, p) > 0}
           R(id) == {Row(id, lines, p, up) : p \in P(id)}
<1>1. Applications(ids, lines, up) = UNION {R(id) : id \in ids}
  BY Zenon DEF Applications, Row
<1>2. \A id : r \in R(id) <=> \E p \in P(id) : r = Row(id, lines, p, up)
  OBVIOUS
<1> HIDE DEF R
<1>3. r \in Applications(ids, lines, up) <=> \E id \in ids : r \in R(id)
  BY <1>1
<1> QED BY <1>2, <1>3

\* What one promotion that is no loyalty programme takes off one line.
LEMMA TakenBounded ==
  ASSUME PromotionsAssumption, promotions \in Seq(Promotion), NEW id \in DOMAIN promotions,
         promotions[id].tipo # "LEALTAD",
         NEW S \in SUBSET Product, NEW lines \in [S -> Quantity], NEW p \in S
  PROVE  /\ lines[p] \in Nat /\ PrecioVenta[p] \in Nat /\ promotions[id] \in Promotion
         /\ Base(lines, p) \in Nat
         /\ Taken(id, lines, p) \in Nat /\ Benefited(promotions[id], lines[p]) \in Nat
         /\ promotions[id].porcentaje <= 100 => Taken(id, lines, p) <= Base(lines, p) * 100
<1>1. lines[p] \in Nat /\ PrecioVenta[p] \in Nat /\ promotions[id] \in Promotion
  <2>1. lines[p] \in Quantity /\ promotions[id] \in Promotion
    OBVIOUS
  <2>2. Quantity \subseteq Nat \ {0} /\ PrecioVenta[p] \in Nat
    BY DEF PromotionsAssumption
  <2> QED BY <2>1, <2>2
<1>2. Base(lines, p) \in Nat /\ Base(lines, p) = lines[p] * PrecioVenta[p]
  BY <1>1 DEF Base
<1> QED BY <1>1, <1>2, ExactBounded DEF Taken

\* Such a row is what venta_promociones holds, and is right on its own.
LEMMA RowRight ==
  ASSUME PromotionsAssumption, promotions \in Seq(Promotion), NEW id \in DOMAIN promotions,
         promotions[id].tipo # "LEALTAD",
         NEW S \in SUBSET Product, NEW lines \in [S -> Quantity], NEW p \in S, NEW up
  PROVE  /\ Row(id, lines, p, up) \in Application
         /\ RowOK(Row(id, lines, p, up), lines)
<1> DEFINE r == Row(id, lines, p, up)
           d == promotions[id]
           q == lines[p]
<1>1. /\ q \in Nat /\ PrecioVenta[p] \in Nat /\ d \in Promotion /\ Base(lines, p) \in Nat
      /\ Taken(id, lines, p) \in Nat /\ Benefited(d, q) \in Nat
      /\ d.porcentaje <= 100 => Taken(id, lines, p) <= Base(lines, p) * 100
  BY TakenBounded
<1>2. PICK c : c = Cents(Taken(id, lines, p), <<id, p>> \in up)
  OBVIOUS
<1>3. /\ c \in Nat
      /\ \A x \in Nat : Taken(id, lines, p) <= x * 100 => c <= x
      /\ \A x \in Nat : Taken(id, lines, p) = x * 100 => c = x
  BY <1>1, <1>2, Rounded
<1>4. /\ r.evidencia = d /\ r.producto = p /\ r.cantidadBeneficiada = Benefited(d, q)
      /\ r.descuento = c /\ r.promotion = id
      /\ r = [promotion |-> id, evidencia |-> d, producto |-> p,
              cantidadBeneficiada |-> Benefited(d, q), descuento |-> c]
  BY <1>2 DEF Row
<1>5. id \in Nat
  OBVIOUS
<1> HIDE DEF r
<1>6. r \in Application
  BY <1>1, <1>3, <1>4, <1>5 DEF Application
<1>7. d.porcentaje <= 100 => c <= Base(lines, p)
  BY <1>1, <1>3
<1>8. ASSUME d.tipo = "COMPRA_N_LLEVA_M"
      PROVE  /\ Benefited(d, q) = Max({k * d.beneficio :
                                         k \in {k \in 0..q : k * d.objetivo <= q - k * d.beneficio}})
             /\ c = Benefited(d, q) * PrecioVenta[p]
  <2>1. d.objetivo \in Nat \ {0} /\ d.beneficio \in Nat
    BY <1>1 DEF Promotion
  <2>2. Benefited(d, q) = (q \div (d.objetivo + d.beneficio)) * d.beneficio
    BY <1>8 DEF Benefited
  <2>3. Max({k * d.beneficio : k \in {k \in 0..q : k * d.objetivo <= q - k * d.beneficio}})
          = (q \div (d.objetivo + d.beneficio)) * d.beneficio
    BY <1>1, <2>1, MostFree
  <2>4. Taken(id, lines, p) = Benefited(d, q) * PrecioVenta[p] * 100
    BY <1>8 DEF Taken, Exact
  <2>5. Benefited(d, q) * PrecioVenta[p] \in Nat
    BY <1>1
  <2> QED BY <1>3, <2>2, <2>3, <2>4, <2>5
<1>9. RowOK(r, lines)
  BY <1>4, <1>7, <1>8 DEF RowOK
<1> QED BY <1>6, <1>9 DEF r

\* The discount of a line, in which every promotion in scope counts, is the sum of
\* the rows that name its product, from which those that take nothing are left out.
LEMMA LineAddsUp ==
  ASSUME PromotionsAssumption, promotions \in Seq(Promotion),
         NEW ids \in SUBSET DOMAIN promotions, \A id \in ids : promotions[id].tipo # "LEALTAD",
         NEW S \in SUBSET Product, NEW lines \in [S -> Quantity], NEW p \in S, NEW up,
         NEW R, R = {r \in Applications(ids, lines, up) : r.producto = p}
  PROVE  /\ LineDiscount(ids, lines, p, up) \in Nat
         /\ RowsSum(R) = LineDiscount(ids, lines, p, up)
<1> DEFINE T == {id \in ids : InScope(id, p)}
           J == {id \in T : Taken(id, lines, p) > 0}
           f == [id \in T |-> Cents(Taken(id, lines, p), <<id, p>> \in up)]
           g == [r \in R |-> r.descuento]
           h == [id \in J |-> Row(id, lines, p, up)]
<1>1. IsFiniteSet(T) /\ IsFiniteSet(J) /\ J \in SUBSET T
  <2>1. IsFiniteSet(DOMAIN promotions)
    BY FS_Interval
  <2>2. T \subseteq DOMAIN promotions /\ J \subseteq DOMAIN promotions
    OBVIOUS
  <2> HIDE DEF T, J
  <2> QED BY <2>1, <2>2, FS_Subset DEF J
<1>2. ASSUME NEW id \in T
      PROVE  /\ f[id] \in Nat /\ Taken(id, lines, p) \in Nat
             /\ id \notin J => f[id] = 0
  <2>1. f[id] = Cents(Taken(id, lines, p), <<id, p>> \in up)
    OBVIOUS
  <2>2. Taken(id, lines, p) \in Nat
    BY TakenBounded
  <2>3. id \notin J => Taken(id, lines, p) = 0
    BY <2>2
  <2> HIDE DEF f, T, J
  <2> QED BY <2>1, <2>2, <2>3, Rounded
<1>3. ASSUME NEW id \in J PROVE h[id] \in R /\ g[h[id]] = f[id]
  <2>1. h[id] = Row(id, lines, p, up) /\ f[id] = Cents(Taken(id, lines, p), <<id, p>> \in up)
    OBVIOUS
  <2>2. Row(id, lines, p, up) \in Applications(ids, lines, up)
    BY RowsOfSale
  <2>3. /\ Row(id, lines, p, up).producto = p
        /\ Row(id, lines, p, up).descuento = Cents(Taken(id, lines, p), <<id, p>> \in up)
    BY DEF Row
  <2>4. Row(id, lines, p, up) \in R
    BY <2>2, <2>3
  <2>5. g[Row(id, lines, p, up)] = Row(id, lines, p, up).descuento
    BY <2>4
  <2> QED BY <2>1, <2>3, <2>4, <2>5
<1>4. \A i, j \in J : h[i] = h[j] => i = j
  BY DEF Row
<1>5. R = {h[id] : id \in J}
  <2>1. ASSUME NEW r \in R PROVE \E id \in J : r = h[id]
    <3>1. PICK id \in ids, x \in DOMAIN lines :
            InScope(id, x) /\ Taken(id, lines, x) > 0 /\ r = Row(id, lines, x, up)
      BY RowsOfSale
    <3>2. x = p
      BY <3>1 DEF Row
    <3> QED BY <3>1, <3>2
  <2> HIDE DEF h, J, g, f
  <2>2. R \subseteq {h[id] : id \in J}
    BY <2>1
  <2>3. {h[id] : id \in J} \subseteq R
    BY <1>3
  <2> QED BY <2>2, <2>3
<1> HIDE DEF f, g, h, J, T
<1>6. \A id \in J : f[id] \in Int /\ g[h[id]] = f[id]
  BY <1>1, <1>2, <1>3
<1>7. SumFunctionOnSet(g, {h[id] : id \in J}) = SumFunctionOnSet(f, J)
  BY <1>1, <1>4, <1>6, SumRenamed, SMTT(60)
<1>8. SumFunctionOnSet(f, J) = SumFunctionOnSet(f, T) /\ SumFunctionOnSet(f, T) \in Nat
  BY <1>1, <1>2, SumOfPart, SumNatural
<1>9. DOMAIN f = T /\ DOMAIN g = R
  BY DEF f, g
<1>10. LineDiscount(ids, lines, p, up) = SumFunctionOnSet(f, T)
  BY <1>9 DEF LineDiscount, SumFunction, f, T
<1> QED BY <1>5, <1>7, <1>8, <1>9, <1>10 DEF SumFunction, RowsSum, g

\* Those that apply to a sale are in force and none is a loyalty programme.
LEMMA ImmediateOnes ==
  ASSUME NEW vigentes \in SUBSET DOMAIN promotions, NEW customer
  PROVE  /\ Immediate(vigentes, customer) \in SUBSET DOMAIN promotions
         /\ \A id \in Immediate(vigentes, customer) : promotions[id].tipo # "LEALTAD"
BY DEF Immediate

\* What create() records when the promotions of ids apply.
Sold(ids, lines, up) ==
  LET descuento == [p \in DOMAIN lines |-> LineDiscount(ids, lines, p, up)]
      total == SumFunction([p \in DOMAIN lines |-> Base(lines, p) - descuento[p]])
  IN /\ Payable(total)
     /\ sales' = Append(sales, [lines |-> lines, descuento |-> descuento, total |-> total,
                                applications |-> Applications(ids, lines, up)])

LEMMA SellIsSold ==
  ASSUME NEW lines, Sell(lines)
  PROVE  \E ids, up : /\ ids \in SUBSET DOMAIN promotions
                      /\ \A id \in ids : promotions[id].tipo # "LEALTAD"
                      /\ Sold(ids, lines, up)
<1>1. PICK ids \in Applying : \E up : Sold(ids, lines, up)
  BY DEF Sell, Sold
<1>2. PICK vigentes \in SUBSET DOMAIN promotions, customer \in BOOLEAN :
        ids = Immediate(vigentes, customer)
  BY DEF Applying
<1> QED BY <1>1, <1>2, ImmediateOnes

\* A sale that is recorded adds up, and each of its rows is right.
LEMMA SaleRight ==
  ASSUME PromotionsAssumption, promotions \in Seq(Promotion),
         NEW S \in SUBSET Product, NEW lines \in [S -> Quantity], Sell(lines)
  PROVE  \E new \in Sale : SaleOK(new) /\ sales' = Append(sales, new)
<1>1. PICK ids, up : /\ ids \in SUBSET DOMAIN promotions
                     /\ \A id \in ids : promotions[id].tipo # "LEALTAD"
                     /\ Sold(ids, lines, up)
  BY SellIsSold
<1> DEFINE descuento == [p \in S |-> LineDiscount(ids, lines, p, up)]
           net == [p \in S |-> Base(lines, p) - descuento[p]]
           rows == Applications(ids, lines, up)
           new == [lines |-> lines, descuento |-> descuento, total |-> SumFunction(net),
                   applications |-> rows]
<1>4. DOMAIN lines = S
  OBVIOUS
<1>5. Payable(SumFunction(net)) /\ sales' = Append(sales, new)
  BY <1>1, <1>4, Zenon DEF Sold
<1>6. ids \in SUBSET DOMAIN promotions /\ \A id \in ids : promotions[id].tipo # "LEALTAD"
  BY <1>1
<1>7. ASSUME NEW p \in S
      PROVE  /\ LineDiscount(ids, lines, p, up) \in Nat
             /\ \A R : R = {r \in rows : r.producto = p} =>
                  RowsSum(R) = LineDiscount(ids, lines, p, up)
  <2>1. ASSUME NEW R, R = {r \in Applications(ids, lines, up) : r.producto = p}
        PROVE  RowsSum(R) = LineDiscount(ids, lines, p, up)
    <3> HIDE DEF new, net, descuento, rows
    <3> QED BY <1>6, <2>1, LineAddsUp
  <2>2. LineDiscount(ids, lines, p, up) \in Nat
    <3> HIDE DEF new, net, descuento, rows
    <3> QED BY <1>6, LineAddsUp
  <2> HIDE DEF new, net, descuento
  <2> QED BY <2>1, <2>2, Zenon
<1>8. descuento \in [S -> Nat]
  <2> HIDE DEF rows, new, net
  <2> QED BY <1>7
<1>9. SumFunction(net) \in Nat
  <2>1. IsFiniteSet(S)
    BY FS_Subset DEF PromotionsAssumption
  <2>2. ASSUME NEW p \in S PROVE net[p] \in Int
    <3>1. Base(lines, p) \in Nat
      <4>1. lines[p] \in Quantity
        OBVIOUS
      <4>2. lines[p] \in Nat /\ PrecioVenta[p] \in Nat
        BY <4>1 DEF PromotionsAssumption
      <4> QED BY <4>2 DEF Base
    <3>2. descuento[p] \in Nat
      BY <1>8
    <3>3. net[p] = Base(lines, p) - descuento[p]
      OBVIOUS
    <3> HIDE DEF net, descuento
    <3> QED BY <3>1, <3>2, <3>3
  <2>3. DOMAIN net = S
    OBVIOUS
  <2> HIDE DEF net
  <2>4. SumFunctionOnSet(net, S) \in Int
    BY <2>1, <2>2, SumTyped
  <2>5. SumFunction(net) \in Int
    BY <2>3, <2>4 DEF SumFunction
  <2> QED BY <1>5, <2>5 DEF Payable
<1>10. ASSUME NEW r \in rows PROVE r \in Application /\ RowOK(r, lines)
  <2>1. PICK id \in ids, p \in DOMAIN lines : r = Row(id, lines, p, up)
    BY <1>10, RowsOfSale
  <2> QED BY <1>4, <1>6, <2>1, RowRight
<1>11. new \in Sale
  <2>1. rows \in SUBSET Application
    BY <1>10
  <2>2. lines \in UNION {[P -> Quantity] : P \in SUBSET Product}
    OBVIOUS
  <2>3. descuento \in UNION {[P -> Nat] : P \in SUBSET Product}
    BY <1>8
  <2> HIDE DEF rows, descuento, net
  <2> QED BY <1>9, <2>1, <2>2, <2>3 DEF Sale
<1>12. SaleOK(new)
  <2>1. /\ new.lines = lines /\ new.descuento = descuento /\ new.applications = rows
        /\ DOMAIN descuento = S /\ \A p \in S : descuento[p] = LineDiscount(ids, lines, p, up)
    OBVIOUS
  <2> HIDE DEF new, descuento, rows
  <2>2. ASSUME NEW p \in S
        PROVE  descuento[p] = RowsSum(RowsOfLine(new, p))
    <3>1. RowsOfLine(new, p) = {r \in rows : r.producto = p}
      BY <2>1 DEF RowsOfLine
    <3> QED BY <1>7, <2>1, <3>1
  <2> QED BY <1>4, <1>10, <2>1, <2>2 DEF SaleOK
<1> HIDE DEF new
<1> QED BY <1>5, <1>11, <1>12

\* What every reachable state satisfies: the requests as in ScopeInv, and each
\* sale as its own rows tell it.  A promotion may be edited after a sale, so what
\* is said of a sale is said of the evidence it kept, never of promotions.
SalesKept == sales \in Seq(Sale) /\ \A s \in DOMAIN sales : SaleOK(sales[s])

PInv == ScopeInv /\ SalesKept

\* A step that records no sale leaves what is said of sales.
LEMMA SalesStay ==
  ASSUME SalesKept, UNCHANGED sales
  PROVE  SalesKept'
BY DEF SalesKept

\* A sale keeps those before it and adds one that is right.
LEMMA SellKeeps ==
  ASSUME PromotionsAssumption, PInv,
         NEW S \in SUBSET Product, NEW lines \in [S -> Quantity], Sell(lines)
  PROVE  SalesKept'
<1>1. promotions \in Seq(Promotion) /\ sales \in Seq(Sale) /\ \A s \in DOMAIN sales : SaleOK(sales[s])
  BY DEF PInv, ScopeInv, TablesTyped, SalesKept
<1>2. PICK new \in Sale : SaleOK(new) /\ sales' = Append(sales, new)
  BY <1>1, SaleRight
<1>3. sales' \in Seq(Sale)
  BY <1>1, <1>2
<1>4. ASSUME NEW s \in DOMAIN sales' PROVE SaleOK(sales'[s])
  <2>1. \/ s \in DOMAIN sales /\ sales'[s] = sales[s]
        \/ sales'[s] = new
    BY <1>1, <1>2
  <2> QED BY <1>1, <1>2, <2>1
<1> QED BY <1>3, <1>4 DEF SalesKept

LEMMA NextKept ==
  ASSUME PromotionsAssumption, PInv, [Next]_vars
  PROVE  PInv'
<1>1. SUFFICES SalesKept'
  BY NextScope DEF PInv
<1>2. SalesKept
  BY DEF PInv
<1>3. CASE UNCHANGED sales
  BY <1>2, <1>3, SalesStay
<1>4. ASSUME NEW d, NEW asked, NEW id,
             \/ Create(d, asked) \/ Update(id, d, asked)
             \/ DeleteProducts(id) \/ DeleteCategories(id) \/ Assign(id) \/ Interrupt(id)
      PROVE  UNCHANGED sales
  BY <1>4 DEF Create, Update, DeleteProducts, DeleteCategories, Assign, Interrupt
<1>5. ASSUME NEW products \in SUBSET Product \ {{}}, NEW lines \in [products -> Quantity], Sell(lines)
      PROVE  SalesKept'
  <2>1. products \in SUBSET Product
    OBVIOUS
  <2> QED BY <1>5, <2>1, SellKeeps
<1>6. CASE UNCHANGED vars
  BY <1>3, <1>6 DEF vars
<1>7. CASE Next
  BY <1>3, <1>4, <1>5, <1>7 DEF Next
<1> QED BY <1>6, <1>7

\* For any promotions, prices, lines, edits and failures, and however Math.round()
\* takes a tie: the invariant the four theorems below rest on.
THEOREM PromotionsInvariant == Spec => []PInv
<1> USE PromotionsAssumption
<1>1. Init => PInv
  <2>1. Init => ScopeInv
    BY InitScope
  <2>2. Init => SalesKept
    BY DEF Init, SalesKept
  <2> QED BY <2>1, <2>2 DEF PInv
<1>2. PInv /\ [Next]_vars => PInv'
  BY NextKept
<1> QED BY <1>1, <1>2, PTL DEF Spec

\* The tables hold what their columns allow, the scope of a promotion names
\* products and categories alone, and no sale is recorded with a negative total,
\* however many promotions fall on one line.
THEOREM PromotionsTyped == Spec => []PromotionsTypeOK
<1>1. PInv => PromotionsTypeOK
  <2> SUFFICES ASSUME PInv PROVE PromotionsTypeOK
    OBVIOUS
  <2>1. /\ promotions \in Seq(Promotion)
        /\ DOMAIN scope = DOMAIN promotions /\ DOMAIN request = DOMAIN promotions
    BY DEF PInv, ScopeInv, TablesTyped
  <2>2. ASSUME NEW id \in DOMAIN promotions
        PROVE  /\ scope[id] \subseteq Product \cup Category
               /\ request[id].phase \in Phase
               /\ request[id].asked \in Lists /\ request[id].todo \subseteq request[id].asked
    <3>1. /\ scope[id] \in SUBSET (Product \cup Category) /\ request[id] \in RequestRecord
          /\ Progressed(scope[id], request[id])
      BY <2>1 DEF PInv, ScopeInv, TablesTyped
    <3> QED BY <3>1 DEF RequestRecord, Progressed
  <2>3. ASSUME NEW s \in DOMAIN sales
        PROVE  /\ sales[s].total \in Nat
               /\ \A p \in DOMAIN sales[s].lines : sales[s].descuento[p] \in Nat
    <3>1. sales[s] \in Sale /\ SaleOK(sales[s])
      BY DEF PInv, SalesKept
    <3>2. PICK S \in SUBSET Product : sales[s].descuento \in [S -> Nat]
      BY <3>1 DEF Sale
    <3> QED BY <3>1, <3>2 DEF Sale, SaleOK
  <2> QED BY <2>1, <2>2, <2>3 DEF PromotionsTypeOK
<1> QED BY <1>1, PromotionsInvariant, PTL

\* The discount of every line is the sum of the rows that explain it.
THEOREM DetailsAlwaysAddUp == Spec => []DetailsAddUp
<1>1. PInv => DetailsAddUp
  BY DEF PInv, SalesKept, SaleOK, RowsOfLine, RowsSum, Rows, DetailsAddUp
<1> QED BY <1>1, PromotionsInvariant, PTL

\* N paid for each M free, and never a free unit more or less than that allows,
\* when one product of the sale is in the promotion's scope.
THEOREM FreeUnitsKept == Spec => FreeUnitsRule
<1> DEFINE Right == \A s \in DOMAIN sales : \A r \in Rows(s) : RowOK(r, sales[s].lines)
<1>1. PInv /\ [Next]_vars => Right'
  <2>1. PInv => Right
    BY DEF PInv, SalesKept, SaleOK, Rows
  <2>2. PInv /\ [Next]_vars => PInv'
    BY NextKept, PromotionsAssumption
  <2> QED BY <2>1, <2>2, PTL
<1>2. Right' => \A s \in DOMAIN sales' \ DOMAIN sales : \A r \in Rows(s)' :
                  LET lines == sales'[s].lines
                      n == r.evidencia.objetivo
                      m == r.evidencia.beneficio
                      q == lines[r.producto]
                      groups == {k \in 0..q : k * n <= q - k * m}
                  IN r.evidencia.tipo = "COMPRA_N_LLEVA_M"
                       /\ {p \in DOMAIN lines : InScope(r.promotion, p)} = {r.producto} =>
                       /\ r.cantidadBeneficiada = Max({k * m : k \in groups})
                       /\ r.descuento = r.cantidadBeneficiada * PrecioVenta[r.producto]
  BY DEF RowOK, Rows
<1> HIDE DEF Right
<1> QED BY <1>1, <1>2, PromotionsInvariant, PTL DEF Spec, FreeUnitsRule

\* A promotion with a percentage up to 100 takes no more off a line than the line
\* is worth, after rounding too.
THEOREM DiscountsWithinLine == Spec => []WithinLine
<1>1. PInv => WithinLine
  BY DEF PInv, SalesKept, SaleOK, RowOK, Rows, WithinLine
<1> QED BY <1>1, PromotionsInvariant, PTL
=============================================================================
