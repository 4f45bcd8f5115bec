---------------------------- MODULE LoyaltyProofs ----------------------------
(***************************************************************************)
(* Theorems about Loyalty for every number of customers, programmes,       *)
(* connections and sales and every goal: what rewards and progress come to *)
(* although each sale counts what its own snapshot shows.                  *)
(***************************************************************************)
EXTENDS Loyalty, SumProofs, SequenceTheorems

\* More units are no fewer goals.
LEMMA CyclesGrow ==
  ASSUME NEW n \in Nat, NEW m \in Nat, n <= m, NEW g \in Nat \ {0}
  PROVE  n \div g <= m \div g
<1> DEFINE k == n \div g
           j == m \div g
<1>1. k \in Nat /\ j \in Nat /\ k * g <= n /\ m < (j + 1) * g
  BY Quotient
<1> HIDE DEF k, j
<1>2. SUFFICES ASSUME j + 1 <= k PROVE FALSE
  BY <1>1 DEF k, j
<1>3. (j + 1) * g <= k * g
  BY <1>1, <1>2
<1> QED BY <1>1, <1>3

\* A cycle that more than a goals and no more than a + k make up.
LEMMA CyclesBetween ==
  ASSUME NEW a \in Nat, NEW k \in Nat, NEW h \in Nat, NEW g \in Nat, NEW b \in Nat, NEW u \in Nat,
         1 <= h, h <= k, b < (a + 1) * g, (a + k) * g <= b + u
  PROVE  b < (a + h) * g /\ (a + h) * g <= b + u
<1>1. ASSUME NEW x \in Nat, NEW y \in Nat, x <= y
      PROVE  x * g <= y * g /\ x * g \in Nat /\ y * g \in Nat
  BY <1>1
<1>2. a + 1 \in Nat /\ a + h \in Nat /\ a + k \in Nat /\ a + 1 <= a + h /\ a + h <= a + k
  OBVIOUS
<1> DEFINE x == (a + 1) * g
           y == (a + h) * g
           z == (a + k) * g
<1>3. x <= y /\ y <= z /\ x \in Nat /\ y \in Nat /\ z \in Nat
  BY <1>1, <1>2
<1>4. b < x /\ z <= b + u
  OBVIOUS
<1> HIDE DEF x, y, z
<1>5. b < y /\ y <= b + u
  BY <1>3, <1>4
<1> QED BY <1>5 DEF y

-----------------------------------------------------------------------------
(***************************************************************************)
(* The units of programme p in a table of sales, and in some of its sales; *)
(* the sales to c, those in force, and those up to the n-th.               *)
(***************************************************************************)
Units(sq, p) == [s \in DOMAIN sq |-> sq[s].eligible[p]]
UnitsIn(sq, p, S) == SumFunctionOnSet(Units(sq, p), S)

To(sq, c) == {s \in DOMAIN sq : sq[s].customer = c}
InForce(sq, c) == {s \in To(sq, c) : sq[s].estatus = "COMPLETADA"}
UpTo(sq, c, n) == {s \in To(sq, c) : s <= n}

\* The events a table of sales leaves for programme p.
EventsOf(sq, p) ==
  [s \in {s \in DOMAIN sq : sq[s].estatus = "COMPLETADA" /\ sq[s].eligible[p] > 0}
     |-> sq[s].eligible[p]]

\* A sale is of its type, and a set of sales is finite.
LEMMA SalesTyped ==
  ASSUME NEW sq \in Seq(Sale)
  PROVE  /\ Len(sq) \in Nat /\ DOMAIN sq = 1..Len(sq)
         /\ \A S \in SUBSET DOMAIN sq : IsFiniteSet(S)
         /\ \A s \in DOMAIN sq :
              /\ sq[s] \in Sale /\ sq[s].customer \in Customer
              /\ sq[s].estatus \in {"COMPLETADA", "CANCELADA"}
              /\ \A p \in Promotion : sq[s].eligible[p] \in Nat
<1>1. Len(sq) \in Nat /\ DOMAIN sq = 1..Len(sq)
  OBVIOUS
<1>2. IsFiniteSet(1..Len(sq))
  BY <1>1, FS_Interval
<1>3. \A S \in SUBSET DOMAIN sq : IsFiniteSet(S)
  BY <1>1, <1>2, FS_Subset
<1>4. \A s \in DOMAIN sq : sq[s] \in Sale
  OBVIOUS
<1>5. \A x \in Sale : /\ x.customer \in Customer /\ x.estatus \in {"COMPLETADA", "CANCELADA"}
                      /\ \A p \in Promotion : x.eligible[p] \in Nat
  BY LoyaltyAssumption DEF Sale
<1> QED BY <1>1, <1>3, <1>4, <1>5

\* The units of any sales are a natural number.
LEMMA UnitIs ==
  ASSUME NEW sq \in Seq(Sale), NEW p \in Promotion, NEW S \in SUBSET DOMAIN sq
  PROVE  \A s \in S : Units(sq, p)[s] = sq[s].eligible[p]
BY SalesTyped DEF Units

LEMMA UnitsTyped ==
  ASSUME NEW sq \in Seq(Sale), NEW p \in Promotion, NEW S \in SUBSET DOMAIN sq
  PROVE  /\ UnitsIn(sq, p, S) \in Nat
         /\ IsFiniteSet(S) /\ \A s \in S : Units(sq, p)[s] = sq[s].eligible[p]
         /\ \A s \in S : Units(sq, p)[s] \in Nat
<1>1. \A s \in S : Units(sq, p)[s] = sq[s].eligible[p] /\ sq[s].eligible[p] \in Nat
  BY SalesTyped DEF Units
<1>2. IsFiniteSet(S)
  BY SalesTyped
<1>3. \A s \in S : Units(sq, p)[s] \in Nat
  BY <1>1
<1> HIDE DEF Units
<1> QED BY <1>1, <1>2, <1>3, SumNatural DEF UnitsIn

\* Fewer sales have no more units.
LEMMA UnitsOfPart ==
  ASSUME NEW sq \in Seq(Sale), NEW p \in Promotion,
         NEW T \in SUBSET DOMAIN sq, NEW S \in SUBSET T
  PROVE  /\ UnitsIn(sq, p, S) <= UnitsIn(sq, p, T)
         /\ (\A s \in T \ S : sq[s].eligible[p] = 0) => UnitsIn(sq, p, S) = UnitsIn(sq, p, T)
<1>1. /\ IsFiniteSet(T) /\ \A s \in T : Units(sq, p)[s] \in Nat
      /\ \A s \in T : Units(sq, p)[s] = sq[s].eligible[p]
  BY UnitsTyped
<1> DEFINE f == Units(sq, p)
<1>2. /\ SumFunctionOnSet(f, S) <= SumFunctionOnSet(f, T)
      /\ (\A s \in T \ S : f[s] = 0) => SumFunctionOnSet(f, S) = SumFunctionOnSet(f, T)
  <2> HIDE DEF f
  <2>1. \A s \in T : f[s] \in Nat
    BY <1>1 DEF f
  <2> QED BY <1>1, <2>1, SumOfPart
<1> QED BY <1>1, <1>2 DEF UnitsIn

\* What the events of the sales to c add up to is what their sales in force have.
LEMMA EventsAddUp ==
  ASSUME NEW sq \in Seq(Sale), NEW p \in Promotion, NEW c
  PROVE  SumFunction(Restrict(EventsOf(sq, p), DOMAIN EventsOf(sq, p) \cap To(sq, c)))
            = UnitsIn(sq, p, InForce(sq, c))
<1> DEFINE D == DOMAIN EventsOf(sq, p) \cap To(sq, c)
           f == Restrict(EventsOf(sq, p), D)
<1>1. D = {s \in InForce(sq, c) : sq[s].eligible[p] > 0}
  BY DEF EventsOf, InForce, To
<1>2. \A s \in D : f[s] = Units(sq, p)[s]
  BY DEF EventsOf, Restrict, Units
<1>3. DOMAIN f = D
  BY DEF Restrict
<1>4. InForce(sq, c) \in SUBSET DOMAIN sq /\ D \in SUBSET InForce(sq, c)
  BY <1>1 DEF InForce, To
<1>5. IsFiniteSet(D)
  BY <1>4, SalesTyped
<1>6. \A s \in InForce(sq, c) \ D : sq[s].eligible[p] = 0
  <2>1. \A s \in InForce(sq, c) : sq[s].eligible[p] \in Nat
    BY <1>4, SalesTyped
  <2> QED BY <1>1, <2>1
<1> HIDE DEF D, f
<1>7. SumFunction(f) = UnitsIn(sq, p, D)
  BY <1>2, <1>3, <1>5, SumSame DEF SumFunction, UnitsIn
<1>8. UnitsIn(sq, p, D) = UnitsIn(sq, p, InForce(sq, c))
  BY <1>4, <1>6, UnitsOfPart
<1> QED BY <1>7, <1>8 DEF f, D

\* Bought() counts the sales up to the n-th, in force or not.
LEMMA BoughtAddsUp ==
  ASSUME NEW sq \in Seq(Sale), NEW p \in Promotion, NEW c, NEW n
  PROVE  SumFunction([r \in {r \in To(sq, c) : r <= n} |-> sq[r].eligible[p]])
            = UnitsIn(sq, p, UpTo(sq, c, n))
<1> DEFINE D == UpTo(sq, c, n)
           f == [r \in D |-> sq[r].eligible[p]]
<1>1. D \in SUBSET DOMAIN sq /\ DOMAIN f = D
  BY DEF UpTo, To
<1>2. \A s \in D : f[s] = Units(sq, p)[s]
  BY <1>1 DEF Units
<1>3. IsFiniteSet(D)
  BY <1>1, SalesTyped
<1>4. f = [r \in {r \in To(sq, c) : r <= n} |-> sq[r].eligible[p]]
  BY DEF UpTo
<1> HIDE DEF D, f
<1>5. SumFunction(f) = UnitsIn(sq, p, D)
  BY <1>1, <1>2, <1>3, SumSame DEF SumFunction, UnitsIn
<1> QED BY <1>4, <1>5 DEF D

-----------------------------------------------------------------------------
\* Total() and Bought() are such sums, before a step and after it.
LEMMA SumsAre ==
  ASSUME sales \in Seq(Sale), EventsOfSalesInForce, NEW c, NEW p \in Promotion
  PROVE  /\ Total(c, p) = UnitsIn(sales, p, InForce(sales, c))
         /\ \A n : Bought(c, p, n) = UnitsIn(sales, p, UpTo(sales, c, n))
<1>1. events[p] = EventsOf(sales, p) /\ SalesTo(c) = To(sales, c)
  BY DEF EventsOfSalesInForce, EventsOf, SalesTo, To
<1>2. Total(c, p) = UnitsIn(sales, p, InForce(sales, c))
  BY <1>1, EventsAddUp DEF Total
<1>3. ASSUME NEW n PROVE Bought(c, p, n) = UnitsIn(sales, p, UpTo(sales, c, n))
  BY <1>1, BoughtAddsUp DEF Bought
<1> QED BY <1>2, <1>3

LEMMA SumsAreNext ==
  ASSUME sales' \in Seq(Sale), EventsOfSalesInForce', NEW c, NEW p \in Promotion
  PROVE  /\ Total(c, p)' = UnitsIn(sales', p, InForce(sales', c))
         /\ \A n : Bought(c, p, n)' = UnitsIn(sales', p, UpTo(sales', c, n))
<1>1. events'[p] = EventsOf(sales', p) /\ SalesTo(c)' = To(sales', c)
  BY DEF EventsOfSalesInForce, EventsOf, SalesTo, To
<1>2. Total(c, p)' = UnitsIn(sales', p, InForce(sales', c))
  BY <1>1, EventsAddUp DEF Total
<1>3. ASSUME NEW n PROVE Bought(c, p, n)' = UnitsIn(sales', p, UpTo(sales', c, n))
  BY <1>1, BoughtAddsUp DEF Bought
<1> QED BY <1>2, <1>3

\* What the sums are at any moment: natural numbers, of which what is in force is
\* no more than what was bought, and all of it while no sale is cancelled.
LEMMA SumsTyped ==
  ASSUME sales \in Seq(Sale), EventsOfSalesInForce, NEW c, NEW p \in Promotion
  PROVE  /\ Total(c, p) \in Nat /\ \A n : Bought(c, p, n) \in Nat
         /\ Total(c, p) <= Bought(c, p, Len(sales))
         /\ NothingCancelled(c, p) => Total(c, p) = Bought(c, p, Len(sales))
<1> DEFINE n0 == Len(sales)
           S == InForce(sales, c)
           T == UpTo(sales, c, n0)
<1>1. S \in SUBSET T /\ T \in SUBSET DOMAIN sales
  BY SalesTyped DEF InForce, UpTo, To
<1>2. NothingCancelled(c, p) => S = T
  BY <1>1 DEF NothingCancelled, SalesTo, InForce, UpTo, To
<1>3. \A n : UpTo(sales, c, n) \in SUBSET DOMAIN sales
  BY DEF UpTo, To
<1>4. /\ Total(c, p) = UnitsIn(sales, p, S)
      /\ \A n : Bought(c, p, n) = UnitsIn(sales, p, UpTo(sales, c, n))
  BY SumsAre
<1>5. UnitsIn(sales, p, S) \in Nat /\ \A n : UnitsIn(sales, p, UpTo(sales, c, n)) \in Nat
  BY <1>1, <1>3, UnitsTyped
<1>6. UnitsIn(sales, p, S) <= UnitsIn(sales, p, T)
  BY <1>1, UnitsOfPart
<1> HIDE DEF S
<1> QED BY <1>2, <1>4, <1>5, <1>6

-----------------------------------------------------------------------------
\* A sale more adds its own units to the sets it is in and changes no other.
LEMMA UnitsOfNew ==
  ASSUME NEW sq \in Seq(Sale), NEW new \in Sale, NEW p \in Promotion,
         NEW S \in SUBSET DOMAIN sq
  PROVE  LET sq2 == Append(sq, new)
             id == Len(sq) + 1
         IN /\ UnitsIn(sq2, p, S) = UnitsIn(sq, p, S)
            /\ UnitsIn(sq2, p, S \cup {id}) = UnitsIn(sq, p, S) + new.eligible[p]
<1> DEFINE sq2 == Append(sq, new)
           id == Len(sq) + 1
           T == S \cup {id}
<1>1. /\ sq2 \in Seq(Sale) /\ Len(sq2) = id /\ sq2[id] = new
      /\ \A s \in DOMAIN sq : sq2[s] = sq[s]
      /\ Len(sq) \in Nat /\ DOMAIN sq = 1..Len(sq)
  BY AppendProperties
<1>2. DOMAIN sq2 = 1..id
  BY <1>1
<1> HIDE DEF sq2
<1>3. id \notin S /\ T \in SUBSET DOMAIN sq2 /\ S \in SUBSET DOMAIN sq2 /\ T \ {id} = S /\ id \in T
  BY <1>1, <1>2
<1> HIDE DEF id, T
<1>4. \A s \in S : Units(sq2, p)[s] = Units(sq, p)[s]
  <2>1. \A s \in S : Units(sq, p)[s] = sq[s].eligible[p]
    BY UnitsTyped
  <2>2. \A s \in S : Units(sq2, p)[s] = sq2[s].eligible[p]
    BY <1>1, <1>3, UnitIs
  <2> QED BY <1>1, <2>1, <2>2
<1>5. IsFiniteSet(S) /\ IsFiniteSet(T)
  BY <1>1, <1>3, UnitsTyped
<1>6. UnitsIn(sq2, p, S) = UnitsIn(sq, p, S)
  <2> HIDE DEF Units
  <2> QED BY <1>4, <1>5, SumSame DEF UnitsIn
<1>7. \A s \in T : Units(sq2, p)[s] \in Nat
  BY <1>1, <1>3, UnitsTyped
<1>8. Units(sq2, p)[id] = new.eligible[p]
  BY <1>1, <1>3 DEF Units
<1>9. UnitsIn(sq2, p, T) = new.eligible[p] + UnitsIn(sq2, p, S)
  <2> DEFINE f == Units(sq2, p)
  <2>1. \A s \in T : f[s] \in Int
    BY <1>7
  <2> HIDE DEF f
  <2>2. SumFunctionOnSet(f, T) = f[id] + SumFunctionOnSet(f, T \ {id})
    BY <1>3, <1>5, <2>1, SumTakeOut
  <2> QED BY <1>3, <1>8, <2>2 DEF f, UnitsIn
<1>10. UnitsIn(sq, p, S) \in Nat /\ new.eligible[p] \in Int
  BY <1>3, <1>7, <1>8, UnitsTyped
<1> QED BY <1>6, <1>9, <1>10 DEF T, id, sq2

\* The sets a sale more is in.
LEMMA SetsOfNew ==
  ASSUME NEW sq \in Seq(Sale), NEW new \in Sale, new.estatus = "COMPLETADA", NEW c
  PROVE  LET sq2 == Append(sq, new)
             id == Len(sq) + 1
             added == IF c = new.customer THEN {id} ELSE {}
         IN /\ To(sq2, c) = To(sq, c) \cup added
            /\ InForce(sq2, c) = InForce(sq, c) \cup added
            /\ UpTo(sq2, c, id) = UpTo(sq, c, Len(sq)) \cup added
            /\ \A n \in Nat : n <= Len(sq) => UpTo(sq2, c, n) = UpTo(sq, c, n)
<1> DEFINE sq2 == Append(sq, new)
           id == Len(sq) + 1
           added == IF c = new.customer THEN {id} ELSE {}
<1>1. /\ Len(sq) \in Nat /\ DOMAIN sq = 1..Len(sq) /\ DOMAIN sq2 = 1..id /\ sq2[id] = new
      /\ \A s \in 1..Len(sq) : sq2[s] = sq[s]
  BY AppendProperties
<1> HIDE DEF sq2
<1>2. 1..id = 1..Len(sq) \cup {id} /\ id \notin 1..Len(sq)
  BY <1>1
<1>3. To(sq2, c) = To(sq, c) \cup added
  BY <1>1, <1>2 DEF To
<1>4. InForce(sq2, c) = InForce(sq, c) \cup added
  BY <1>1, <1>2, <1>3 DEF InForce, To
<1>5. UpTo(sq2, c, id) = UpTo(sq, c, Len(sq)) \cup added
  BY <1>1, <1>2, <1>3 DEF UpTo, To
<1>6. ASSUME NEW n \in Nat, n <= Len(sq) PROVE UpTo(sq2, c, n) = UpTo(sq, c, n)
  BY <1>1, <1>2, <1>3, <1>6 DEF UpTo, To
<1> QED BY <1>3, <1>4, <1>5, <1>6 DEF sq2

\* What a sale more does to the sums.
LEMMA SaleCounted ==
  ASSUME sales \in Seq(Sale), EventsOfSalesInForce,
         NEW new \in Sale, new.estatus = "COMPLETADA", sales' = Append(sales, new),
         EventsOfSalesInForce', NEW c, NEW p \in Promotion
  PROVE  LET more == IF c = new.customer THEN new.eligible[p] ELSE 0
             n0 == Len(sales)
         IN /\ Total(c, p)' = Total(c, p) + more
            /\ \A n \in Nat : n <= n0 => Bought(c, p, n)' = Bought(c, p, n)
            /\ \A n : n = n0 + 1 => Bought(c, p, n)' = Bought(c, p, n0) + more
<1> DEFINE more == IF c = new.customer THEN new.eligible[p] ELSE 0
           n0 == Len(sales)
           id == Len(sales) + 1
           added == IF c = new.customer THEN {id} ELSE {}
<1>1. sales' \in Seq(Sale)
  BY AppendProperties
<1>2. /\ InForce(sales', c) = InForce(sales, c) \cup added
      /\ UpTo(sales', c, id) = UpTo(sales, c, n0) \cup added
      /\ \A n \in Nat : n <= n0 => UpTo(sales', c, n) = UpTo(sales, c, n)
  BY SetsOfNew
<1>3. ASSUME NEW S \in SUBSET DOMAIN sales
      PROVE  /\ UnitsIn(sales', p, S) = UnitsIn(sales, p, S)
             /\ UnitsIn(sales', p, S \cup added) = UnitsIn(sales, p, S) + more
  <2>1. /\ UnitsIn(sales', p, S) = UnitsIn(sales, p, S)
        /\ UnitsIn(sales', p, S \cup {id}) = UnitsIn(sales, p, S) + new.eligible[p]
    BY UnitsOfNew
  <2>2. UnitsIn(sales, p, S) \in Nat
    BY UnitsTyped
  <2>3. CASE c = new.customer
    BY <2>1, <2>3
  <2>4. CASE c # new.customer
    <3>1. added = {} /\ more = 0
      BY <2>4
    <3>2. \A T : T = S => UnitsIn(sales', p, T) = UnitsIn(sales, p, S) + 0
      BY <2>1, <2>2
    <3>3. \A T : T = {} => S \cup T = S
      OBVIOUS
    <3> HIDE DEF added, more
    <3> QED BY <2>1, <3>1, <3>2, <3>3
  <2> QED BY <2>3, <2>4
<1>4. /\ InForce(sales, c) \in SUBSET DOMAIN sales
      /\ \A n : UpTo(sales, c, n) \in SUBSET DOMAIN sales
  BY DEF InForce, UpTo, To
<1>5. /\ Total(c, p) = UnitsIn(sales, p, InForce(sales, c))
      /\ \A n : Bought(c, p, n) = UnitsIn(sales, p, UpTo(sales, c, n))
  BY SumsAre
<1>6. /\ Total(c, p)' = UnitsIn(sales', p, InForce(sales', c))
      /\ \A n : Bought(c, p, n)' = UnitsIn(sales', p, UpTo(sales', c, n))
  BY <1>1, SumsAreNext
<1> HIDE DEF added, more
<1>7. Total(c, p)' = Total(c, p) + more
  BY <1>2, <1>3, <1>4, <1>5, <1>6
<1>8. ASSUME NEW n \in Nat, n <= n0 PROVE Bought(c, p, n)' = Bought(c, p, n)
  <2>1. UpTo(sales', c, n) = UpTo(sales, c, n)
    BY <1>2, <1>8
  <2>2. UnitsIn(sales', p, UpTo(sales, c, n)) = UnitsIn(sales, p, UpTo(sales, c, n))
    BY <1>3, <1>4
  <2> QED BY <1>5, <1>6, <2>1, <2>2
<1>9. ASSUME NEW n, n = id PROVE Bought(c, p, n)' = Bought(c, p, n0) + more
  <2>1. UpTo(sales', c, n) = UpTo(sales, c, n0) \cup added
    BY <1>2, <1>9
  <2>2. UnitsIn(sales', p, UpTo(sales, c, n0) \cup added)
          = UnitsIn(sales, p, UpTo(sales, c, n0)) + more
    BY <1>3, <1>4
  <2> QED BY <1>5, <1>6, <2>1, <2>2
<1> QED BY <1>7, <1>8, <1>9 DEF more

-----------------------------------------------------------------------------
\* cancel() of a sale changes its status alone.
LEMMA SaleMarked ==
  ASSUME NEW sq \in Seq(Sale), NEW r \in DOMAIN sq
  PROVE  LET sq2 == [sq EXCEPT ![r].estatus = "CANCELADA"]
         IN /\ sq2 \in Seq(Sale) /\ Len(sq2) = Len(sq) /\ DOMAIN sq2 = DOMAIN sq
            /\ sq2[r].estatus = "CANCELADA"
            /\ \A s \in DOMAIN sq : /\ sq2[s].customer = sq[s].customer
                                    /\ sq2[s].eligible = sq[s].eligible
                                    /\ s # r => sq2[s] = sq[s]
<1> DEFINE sq2 == [sq EXCEPT ![r].estatus = "CANCELADA"]
           new == [sq[r] EXCEPT !.estatus = "CANCELADA"]
<1>1. r \in 1..Len(sq) /\ sq[r] \in Sale /\ sq2 = [sq EXCEPT ![r] = new]
  OBVIOUS
<1>2. /\ new \in Sale /\ new.estatus = "CANCELADA" /\ new.customer = sq[r].customer
      /\ new.eligible = sq[r].eligible
  BY <1>1 DEF Sale
<1> HIDE DEF new, sq2
<1>3. /\ sq2 \in Seq(Sale) /\ Len(sq2) = Len(sq) /\ DOMAIN sq2 = DOMAIN sq /\ sq2[r] = new
      /\ \A s \in DOMAIN sq : s # r => sq2[s] = sq[s]
  BY <1>1, <1>2, ExceptSeq
<1> QED BY <1>2, <1>3 DEF sq2

\* What the cancellation of a sale does to the sums.
LEMMA SaleUncounted ==
  ASSUME sales \in Seq(Sale), EventsOfSalesInForce, NEW r \in DOMAIN sales,
         sales' = [sales EXCEPT ![r].estatus = "CANCELADA"],
         EventsOfSalesInForce', NEW c, NEW p \in Promotion
  PROVE  /\ To(sales', c) = To(sales, c)
         /\ \A n : Bought(c, p, n)' = Bought(c, p, n)
         /\ Total(c, p)' \in Nat /\ Total(c, p)' <= Total(c, p)
         /\ c # sales[r].customer => Total(c, p)' = Total(c, p)
<1>1. /\ sales' \in Seq(Sale) /\ Len(sales') = Len(sales) /\ DOMAIN sales' = DOMAIN sales
      /\ sales'[r].estatus = "CANCELADA"
      /\ \A s \in DOMAIN sales : /\ sales'[s].customer = sales[s].customer
                                 /\ sales'[s].eligible = sales[s].eligible
                                 /\ s # r => sales'[s] = sales[s]
  BY SaleMarked
<1>2. To(sales', c) = To(sales, c) /\ \A n : UpTo(sales', c, n) = UpTo(sales, c, n)
  BY <1>1 DEF To, UpTo
<1>3. InForce(sales', c) = InForce(sales, c) \ {r}
  BY <1>1, <1>2 DEF InForce
<1>4. ASSUME NEW S \in SUBSET DOMAIN sales
      PROVE  UnitsIn(sales', p, S) = UnitsIn(sales, p, S)
  <2>1. IsFiniteSet(S) /\ \A s \in S : Units(sales, p)[s] = sales[s].eligible[p]
    BY UnitsTyped
  <2>2. \A s \in S : Units(sales', p)[s] = sales'[s].eligible[p]
    BY <1>1, UnitsTyped
  <2>3. ASSUME NEW s \in S PROVE Units(sales', p)[s] = Units(sales, p)[s]
    <3>1. sales'[s].eligible = sales[s].eligible
      BY <1>1
    <3> QED BY <2>1, <2>2, <3>1
  <2> DEFINE f == Units(sales', p)
             g == Units(sales, p)
  <2>4. \A s \in S : f[s] = g[s]
    BY <2>3
  <2> HIDE DEF f, g
  <2>5. SumFunctionOnSet(f, S) = SumFunctionOnSet(g, S)
    BY <2>1, <2>4, SumSame
  <2> QED BY <2>5 DEF f, g, UnitsIn
<1>5. /\ InForce(sales, c) \in SUBSET DOMAIN sales
      /\ InForce(sales, c) \ {r} \in SUBSET InForce(sales, c)
      /\ \A n : UpTo(sales, c, n) \in SUBSET DOMAIN sales
  BY DEF InForce, UpTo, To
<1>6. /\ Total(c, p) = UnitsIn(sales, p, InForce(sales, c))
      /\ \A n : Bought(c, p, n) = UnitsIn(sales, p, UpTo(sales, c, n))
  BY SumsAre
<1>7. /\ Total(c, p)' = UnitsIn(sales', p, InForce(sales', c))
      /\ \A n : Bought(c, p, n)' = UnitsIn(sales', p, UpTo(sales', c, n))
  BY <1>1, SumsAreNext
<1>8. ASSUME NEW n PROVE Bought(c, p, n)' = Bought(c, p, n)
  <2>1. UnitsIn(sales', p, UpTo(sales, c, n)) = UnitsIn(sales, p, UpTo(sales, c, n))
    BY <1>4, <1>5
  <2> QED BY <1>2, <1>6, <1>7, <2>1
<1> DEFINE S == InForce(sales, c) \ {r}
<1>9. Total(c, p)' = UnitsIn(sales, p, S)
  BY <1>3, <1>4, <1>5, <1>7
<1>10. UnitsIn(sales, p, S) \in Nat /\ UnitsIn(sales, p, S) <= UnitsIn(sales, p, InForce(sales, c))
  BY <1>5, UnitsTyped, UnitsOfPart
<1>11. c # sales[r].customer => S = InForce(sales, c)
  BY DEF InForce, To
<1> HIDE DEF S
<1> QED BY <1>2, <1>6, <1>8, <1>9, <1>10, <1>11

-----------------------------------------------------------------------------
\* The rewards of c in the rewards of one programme, and those it may redeem.
EarnedBy(rs, c) == {i \in DOMAIN rs : rs[i].customer = c}
AvailableTo(rs, c) == {i \in EarnedBy(rs, c) : rs[i].estatus = "DISPONIBLE"}

\* They can be counted.
LEMMA RewardsCounted ==
  ASSUME NEW rs \in Seq(Reward)
  PROVE  /\ Len(rs) \in Nat /\ DOMAIN rs = 1..Len(rs)
         /\ \A S \in SUBSET DOMAIN rs : IsFiniteSet(S) /\ Cardinality(S) \in Nat
<1>1. Len(rs) \in Nat /\ DOMAIN rs = 1..Len(rs)
  OBVIOUS
<1>2. IsFiniteSet(1..Len(rs))
  BY <1>1, FS_Interval
<1> QED BY <1>1, <1>2, FS_Subset, FS_CardinalityType

\* k elements more, above all the others.
LEMMA CountMore ==
  ASSUME NEW n \in Nat, NEW S \in SUBSET (1..n), NEW k \in Nat
  PROVE  /\ Cardinality(S) \in Nat
         /\ Cardinality(S \cup ((n + 1)..(n + k))) = Cardinality(S) + k
<1>1. IsFiniteSet(S) /\ Cardinality(S) \in Nat
  <2>1. IsFiniteSet(1..n)
    BY FS_Interval
  <2>2. IsFiniteSet(S)
    BY <2>1, FS_Subset
  <2> QED BY <2>2, FS_CardinalityType
<1> DEFINE I == (n + 1)..(n + k)
<1>2. IsFiniteSet(I) /\ Cardinality(I) = k
  <2>1. n + 1 \in Int /\ n + k \in Int
    OBVIOUS
  <2>2. IsFiniteSet(I) /\ Cardinality(I) = IF n + 1 > n + k THEN 0 ELSE (n + k) - (n + 1) + 1
    BY <2>1, FS_Interval
  <2> HIDE DEF I
  <2> QED BY <2>2
<1>3. S \cap I = {}
  OBVIOUS
<1>4. Cardinality({}) = 0
  BY FS_EmptySet
<1> HIDE DEF I
<1>5. Cardinality(S \cup I) = Cardinality(S) + Cardinality(I) - Cardinality(S \cap I)
  BY <1>1, <1>2, FS_Union
<1>6. Cardinality(S \cap I) = 0
  BY <1>3, <1>4
<1>7. Cardinality(S \cup I) = Cardinality(S) + k
  BY <1>1, <1>2, <1>5, <1>6
<1> QED BY <1>1, <1>7 DEF I

\* n rewards alike.
Alike(row, n) == [i \in 1..n |-> row]

\* Rewards that applySale() adds.
\* What n more for c are, where there were m.
MoreFor(c, rs, m, n, rs2, row) ==
  /\ rs2 \in Seq(Reward) /\ m \in Nat /\ DOMAIN rs2 = 1..(m + n)
  /\ \A i \in 1..m : rs2[i] = rs[i]
  /\ \A i \in (m + 1)..(m + n) : rs2[i] = row
  /\ EarnedBy(rs2, c) = EarnedBy(rs, c) \cup ((m + 1)..(m + n))
  /\ AvailableTo(rs2, c) = AvailableTo(rs, c) \cup ((m + 1)..(m + n))
  /\ \A d : d # c => /\ EarnedBy(rs2, d) = EarnedBy(rs, d)
                     /\ AvailableTo(rs2, d) = AvailableTo(rs, d)

LEMMA RewardsAdded ==
  ASSUME NEW rs \in Seq(Reward), NEW n \in Nat, NEW row \in Reward, row.estatus = "DISPONIBLE"
  PROVE  MoreFor(row.customer, rs, Len(rs), n, rs \o Alike(row, n), row)
<1> DEFINE c == row.customer
           m == Len(rs)
           rs2 == rs \o Alike(row, n)
<1> DEFINE more == Alike(row, n)
           I == (m + 1)..(m + n)
<1>1. more \in Seq(Reward) /\ Len(more) = n /\ \A i \in 1..n : more[i] = row
  BY DEF Alike
<1> HIDE DEF more, rs2
<1>2. /\ rs2 \in Seq(Reward) /\ Len(rs2) = m + n /\ m \in Nat
      /\ \A i \in 1..(m + n) : rs2[i] = IF i <= m THEN rs[i] ELSE more[i - m]
  <2>1. /\ rs \o more \in Seq(Reward) /\ Len(rs \o more) = Len(rs) + Len(more)
        /\ \A i \in 1..(Len(rs) + Len(more)) :
             (rs \o more)[i] = IF i <= Len(rs) THEN rs[i] ELSE more[i - Len(rs)]
    BY <1>1, ConcatProperties
  <2>2. rs2 = rs \o more
    BY DEF more, rs2
  <2> QED BY <1>1, <2>1, <2>2
<1>3. /\ DOMAIN rs2 = 1..(m + n) /\ DOMAIN rs = 1..m /\ 1..(m + n) = 1..m \cup I
      /\ \A i \in 1..m : i \notin I
  BY <1>2
<1>4. \A i \in 1..m : rs2[i] = rs[i]
  BY <1>2
<1>5. \A i \in I : rs2[i] = row
  <2> SUFFICES ASSUME NEW i \in I PROVE rs2[i] = row
    OBVIOUS
  <2>1. i \in 1..(m + n) /\ ~ i <= m /\ i - m \in 1..n
    BY <1>2
  <2> QED BY <1>1, <1>2, <2>1
<1> HIDE DEF I, m, c
<1>6. EarnedBy(rs2, c) = EarnedBy(rs, c) \cup I
  BY <1>3, <1>4, <1>5 DEF EarnedBy, c
<1>7. AvailableTo(rs2, c) = AvailableTo(rs, c) \cup I
  BY <1>3, <1>4, <1>5 DEF AvailableTo, EarnedBy, c
<1>8. ASSUME NEW d, d # c
      PROVE  EarnedBy(rs2, d) = EarnedBy(rs, d) /\ AvailableTo(rs2, d) = AvailableTo(rs, d)
  BY <1>3, <1>4, <1>5, <1>8 DEF AvailableTo, EarnedBy, c
<1>9. MoreFor(c, rs, m, n, rs2, row)
  BY <1>2, <1>3, <1>4, <1>5, <1>6, <1>7, <1>8 DEF MoreFor, I
<1> QED BY <1>9 DEF c, m, rs2

\* A reward that is redeemed or cancelled is still earned, and no longer available.
LEMMA RewardMarked ==
  ASSUME NEW rs \in Seq(Reward), NEW i \in DOMAIN rs, NEW e \in {"CANJEADA", "CANCELADA"},
         NEW rs2, rs2 = [rs EXCEPT ![i].estatus = e]
  PROVE  /\ rs2 \in Seq(Reward) /\ Len(rs2) = Len(rs) /\ DOMAIN rs2 = DOMAIN rs
         /\ \A j \in DOMAIN rs : rs2[j].sale = rs[j].sale
         /\ rs2[i].estatus = e
         /\ \A c : /\ EarnedBy(rs2, c) = EarnedBy(rs, c)
                   /\ AvailableTo(rs2, c) = AvailableTo(rs, c) \ {i}
<1> DEFINE new == [rs[i] EXCEPT !.estatus = e]
<1>1. i \in 1..Len(rs) /\ rs[i] \in Reward /\ rs2 = [rs EXCEPT ![i] = new]
  OBVIOUS
<1>2. /\ new \in Reward /\ new.estatus = e /\ new.customer = rs[i].customer
      /\ new.sale = rs[i].sale
  BY <1>1 DEF Reward, RewardStatus
<1> HIDE DEF new
<1>3. /\ rs2 \in Seq(Reward) /\ Len(rs2) = Len(rs) /\ DOMAIN rs2 = DOMAIN rs /\ rs2[i] = new
      /\ \A j \in DOMAIN rs : j # i => rs2[j] = rs[j]
  BY <1>1, <1>2, ExceptSeq
<1>4. \A j \in DOMAIN rs : rs2[j].customer = rs[j].customer /\ rs2[j].sale = rs[j].sale
  BY <1>2, <1>3
<1>5. ASSUME NEW c PROVE EarnedBy(rs2, c) = EarnedBy(rs, c)
  BY <1>3, <1>4 DEF EarnedBy
<1>6. ASSUME NEW c PROVE AvailableTo(rs2, c) = AvailableTo(rs, c) \ {i}
  BY <1>2, <1>3, <1>5 DEF AvailableTo, EarnedBy
<1> QED BY <1>2, <1>3, <1>4, <1>5, <1>6

-----------------------------------------------------------------------------
(***************************************************************************)
(* The inductive invariant.  A snapshot may be older than what the tables  *)
(* hold; as long as no sale has been committed since, it bounds them, and  *)
(* it is exact while nothing of the customer is cancelled.  The unique     *)
(* folio lets no other snapshot commit.                                    *)
(***************************************************************************)
Snapshot == [customer : Customer, sales : Nat, total : [Promotion -> Nat],
             available : [Promotion -> Nat]]

SnapshotOK(t) ==
  LET read == open[t]
      c == read.customer
  IN /\ read.sales <= Len(sales)
     /\ FolioFree(t) => \A p \in Promotion :
          /\ Total(c, p) <= read.total[p] /\ read.total[p] <= Bought(c, p, Len(sales))
          /\ Available(c, p) <= read.available[p]
          /\ NothingCancelled(c, p) =>
               read.total[p] = Total(c, p) /\ read.available[p] = Available(c, p)

OpenSales ==
  /\ open \in [Tx -> Snapshot \cup {NoValue}]
  /\ \A t \in Tx : open[t] # NoValue => SnapshotOK(t)

\* An edit of a reward was read from one, and only takes it away.
Drafts ==
  \A d \in drafts : \E p \in Promotion : \E i \in DOMAIN rewards[p], e \in {"CANJEADA", "CANCELADA"} :
     d = <<p, i, e>>

Tables ==
  /\ sales \in Seq(Sale)
  /\ rewards \in [Promotion -> Seq(Reward)]
  /\ \A p \in Promotion : \A i \in DOMAIN rewards[p] : rewards[p][i].sale \in DOMAIN sales
  /\ progress \in [Customer -> [Promotion -> CustomerPromotion \cup {NoValue}]]
  /\ \A c \in Customer, p \in Promotion :
       progress[c][p] # NoValue => progress[c][p].progresoActual < Goal[p]
  /\ EventsOfSalesInForce

LoyaltyInv ==
  Tables /\ OpenSales /\ Drafts /\ AvailableBacked /\ ProgressShown /\ OneRewardPerCycle

\* The numbers of a customer under a programme.
LEMMA NumbersTyped ==
  ASSUME Tables, NEW c, NEW p \in Promotion
  PROVE  /\ Goal[p] \in Nat \ {0} /\ Len(sales) \in Nat
         /\ Total(c, p) \in Nat /\ \A n : Bought(c, p, n) \in Nat
         /\ Total(c, p) <= Bought(c, p, Len(sales))
         /\ NothingCancelled(c, p) => Total(c, p) = Bought(c, p, Len(sales))
         /\ Earned(c, p) = EarnedBy(rewards[p], c)
         /\ Available(c, p) = Cardinality(AvailableTo(rewards[p], c))
         /\ Available(c, p) \in Nat
         /\ NothingCancelled(c, p) => AvailableTo(rewards[p], c) = EarnedBy(rewards[p], c)
<1>1. Goal[p] \in Nat \ {0} /\ Len(sales) \in Nat
  BY LoyaltyAssumption DEF Tables
<1>2. /\ Total(c, p) \in Nat /\ \A n : Bought(c, p, n) \in Nat
      /\ Total(c, p) <= Bought(c, p, Len(sales))
      /\ NothingCancelled(c, p) => Total(c, p) = Bought(c, p, Len(sales))
  BY SumsTyped DEF Tables
<1>3. /\ Earned(c, p) = EarnedBy(rewards[p], c)
      /\ Available(c, p) = Cardinality(AvailableTo(rewards[p], c))
  BY DEF Earned, Available, EarnedBy, AvailableTo
<1>4. Cardinality(AvailableTo(rewards[p], c)) \in Nat
  <2>1. rewards[p] \in Seq(Reward) /\ AvailableTo(rewards[p], c) \in SUBSET DOMAIN rewards[p]
    BY DEF Tables, AvailableTo, EarnedBy
  <2> QED BY <2>1, RewardsCounted
<1>5. NothingCancelled(c, p) => AvailableTo(rewards[p], c) = EarnedBy(rewards[p], c)
  BY <1>3 DEF NothingCancelled, AvailableTo
<1> QED BY <1>1, <1>2, <1>3, <1>4, <1>5

\* The rewards of c name the sales that completed their cycles.
CycleNamed(rs, sq, c, p) ==
  \A i \in EarnedBy(rs, c) :
     LET cycle == Cardinality({j \in EarnedBy(rs, c) : j <= i})
         s == rs[i].sale
     IN /\ UnitsIn(sq, p, UpTo(sq, c, s - 1)) < cycle * Goal[p]
        /\ cycle * Goal[p] <= UnitsIn(sq, p, UpTo(sq, c, s))

OneRewardIs ==
  Tables => (OneRewardPerCycle <=>
    \A c \in Customer, p \in Promotion :
       NothingCancelled(c, p) =>
          /\ Cardinality(Earned(c, p)) = Total(c, p) \div Goal[p]
          /\ CycleNamed(rewards[p], sales, c, p))

LEMMA OneRewardSame == OneRewardIs
<1> SUFFICES ASSUME Tables
    PROVE  OneRewardPerCycle <=>
             \A c \in Customer, p \in Promotion :
                NothingCancelled(c, p) =>
                   /\ Cardinality(Earned(c, p)) = Total(c, p) \div Goal[p]
                   /\ CycleNamed(rewards[p], sales, c, p)
  BY DEF OneRewardIs
<1>1. ASSUME NEW c \in Customer, NEW p \in Promotion
      PROVE  CycleNamed(rewards[p], sales, c, p) <=>
             \A i \in Earned(c, p) :
               LET cycle == Cardinality({j \in Earned(c, p) : j <= i})
                   s == rewards[p][i].sale
               IN Bought(c, p, s - 1) < cycle * Goal[p] /\ cycle * Goal[p] <= Bought(c, p, s)
  <2>1. Earned(c, p) = EarnedBy(rewards[p], c)
    BY NumbersTyped
  <2>2. \A n : Bought(c, p, n) = UnitsIn(sales, p, UpTo(sales, c, n))
    BY SumsAre DEF Tables
  <2> QED BY <2>1, <2>2 DEF CycleNamed
<1> QED BY <1>1 DEF OneRewardPerCycle

LEMMA OneRewardNext == OneRewardIs'
BY OneRewardSame, PTL

\* A step that commits no sale: it takes units or rewards away or leaves them, and
\* what it leaves uncancelled it leaves as it was.
Lessens ==
  /\ Len(sales') = Len(sales) /\ UNCHANGED progress
  /\ \A c \in Customer, p \in Promotion :
       /\ Total(c, p)' \in Nat /\ Total(c, p)' <= Total(c, p)
       /\ Available(c, p)' \in Nat /\ Available(c, p)' <= Available(c, p)
       /\ \A n : Bought(c, p, n)' = Bought(c, p, n)
       /\ Earned(c, p)' = Earned(c, p)
       /\ \A i \in Earned(c, p) : rewards'[p][i].sale = rewards[p][i].sale
       /\ NothingCancelled(c, p)' => /\ NothingCancelled(c, p)
                                     /\ Total(c, p)' = Total(c, p)
                                     /\ Available(c, p)' = Available(c, p)

\* The units bought so far, while no sale is committed.
LEMMA BoughtStays ==
  ASSUME Lessens, NEW c \in Customer, NEW p \in Promotion
  PROVE  Bought(c, p, Len(sales))' = Bought(c, p, Len(sales))
<1>1. PICK n : n = Len(sales)
  OBVIOUS
<1>2. Bought(c, p, n)' = Bought(c, p, n)
  BY DEF Lessens
<1>3. Bought(c, p, Len(sales))' = Bought(c, p, n)'
  BY <1>1 DEF Lessens, Bought
<1> QED BY <1>1, <1>2, <1>3

\* Such a step leaves a snapshot a bound of the tables.
LEMMA LessSnapshot ==
  ASSUME Tables, Lessens, NEW t \in Tx, open[t] \in Snapshot, SnapshotOK(t), open'[t] = open[t]
  PROVE  SnapshotOK(t)'
<1>1. PICK read \in Snapshot, c \in Customer : read = open[t] /\ c = read.customer
  BY DEF Snapshot
<1>2. \A p \in Promotion : read.total[p] \in Nat /\ read.available[p] \in Nat
  BY <1>1 DEF Snapshot
<1>3. Len(sales') = Len(sales) /\ FolioFree(t)' = FolioFree(t)
  BY DEF Lessens, FolioFree
<1>4. ASSUME FolioFree(t), NEW p \in Promotion
      PROVE  /\ Total(c, p)' <= read.total[p] /\ read.total[p] <= Bought(c, p, Len(sales))
             /\ Available(c, p)' <= read.available[p]
             /\ NothingCancelled(c, p)' =>
                  read.total[p] = Total(c, p)' /\ read.available[p] = Available(c, p)'
  <2>1. /\ Total(c, p) <= read.total[p] /\ read.total[p] <= Bought(c, p, Len(sales))
        /\ Available(c, p) <= read.available[p]
        /\ NothingCancelled(c, p) =>
             read.total[p] = Total(c, p) /\ read.available[p] = Available(c, p)
    BY <1>1, <1>4 DEF SnapshotOK
  <2>2. /\ Total(c, p)' \in Nat /\ Total(c, p)' <= Total(c, p)
        /\ Available(c, p)' \in Nat /\ Available(c, p)' <= Available(c, p)
        /\ NothingCancelled(c, p)' => /\ NothingCancelled(c, p)
                                      /\ Total(c, p)' = Total(c, p)
                                      /\ Available(c, p)' = Available(c, p)
    BY <1>1 DEF Lessens
  <2>3. Total(c, p) \in Nat /\ Available(c, p) \in Nat
    BY NumbersTyped
  <2> QED BY <1>2, <2>1, <2>2, <2>3
<1>5. \A p \in Promotion : Bought(c, p, Len(sales))' = Bought(c, p, Len(sales))
  BY BoughtStays
<1>6. read = open'[t]
  BY <1>1
<1>7. read.sales <= Len(sales')
  BY <1>1, <1>3 DEF SnapshotOK
<1>8. FolioFree(t)' => \A p \in Promotion :
          /\ Total(c, p)' <= read.total[p] /\ read.total[p] <= Bought(c, p, Len(sales))'
          /\ Available(c, p)' <= read.available[p]
          /\ NothingCancelled(c, p)' =>
               read.total[p] = Total(c, p)' /\ read.available[p] = Available(c, p)'
  BY <1>3, <1>4, <1>5
<1> QED BY <1>1, <1>6, <1>7, <1>8 DEF SnapshotOK

\* It keeps what is said of the rewards and of the progress.
LEMMA LessKept ==
  ASSUME Tables, Tables', Lessens, AvailableBacked, ProgressShown, OneRewardPerCycle
  PROVE  AvailableBacked' /\ ProgressShown' /\ OneRewardPerCycle'
<1>1. ASSUME NEW c \in Customer, NEW p \in Promotion
      PROVE  /\ Total(c, p)' \in Nat /\ Total(c, p)' <= Total(c, p)
             /\ Available(c, p)' \in Nat /\ Available(c, p)' <= Available(c, p)
             /\ \A n : Bought(c, p, n)' = Bought(c, p, n)
             /\ Earned(c, p)' = Earned(c, p)
             /\ \A i \in Earned(c, p) : rewards'[p][i].sale = rewards[p][i].sale
             /\ NothingCancelled(c, p)' => /\ NothingCancelled(c, p)
                                           /\ Total(c, p)' = Total(c, p)
                                           /\ Available(c, p)' = Available(c, p)
  BY DEF Lessens
<1>2. ASSUME NEW c \in Customer, NEW p \in Promotion
      PROVE  /\ Goal[p] \in Nat \ {0} /\ Total(c, p) \in Nat /\ Available(c, p) \in Nat
             /\ Bought(c, p, Len(sales)) \in Nat
  BY NumbersTyped
<1>3. AvailableBacked'
  <2> SUFFICES ASSUME NEW c \in Customer, NEW p \in Promotion
               PROVE  (Available(c, p) * Goal[p] <= Bought(c, p, Len(sales)))'
    BY DEF AvailableBacked
  <2>1. Available(c, p) * Goal[p] <= Bought(c, p, Len(sales))
    BY DEF AvailableBacked
  <2>2. Bought(c, p, Len(sales))' = Bought(c, p, Len(sales))
    BY BoughtStays
  <2>3. ASSUME NEW a \in Nat, NEW b \in Nat, NEW g \in Nat, b <= a PROVE b * g <= a * g
    BY <2>3
  <2>4. Available(c, p)' * Goal[p] <= Available(c, p) * Goal[p]
    BY <1>1, <1>2, <2>3
  <2>5. /\ Available(c, p)' * Goal[p] \in Nat /\ Available(c, p) * Goal[p] \in Nat
        /\ Bought(c, p, Len(sales)) \in Nat
    BY <1>1, <1>2
  <2> QED BY <2>1, <2>2, <2>4, <2>5
<1>4. ProgressShown'
  <2> SUFFICES ASSUME NEW c \in Customer, NEW p \in Promotion
               PROVE  LET row == progress[c][p]'
                          shown == row.progresoActual + Goal[p] * row.recompensasGeneradas
                      IN IF row = NoValue THEN Total(c, p)' = 0
                         ELSE /\ shown >= Total(c, p)'
                              /\ NothingCancelled(c, p)' =>
                                   /\ shown = Total(c, p)'
                                   /\ row.recompensasDisponibles = Available(c, p)'
    BY DEF ProgressShown
  <2> DEFINE row == progress[c][p]
             shown == row.progresoActual + Goal[p] * row.recompensasGeneradas
  <2>1. progress[c][p]' = row
    BY DEF Lessens
  <2>2. IF row = NoValue THEN Total(c, p) = 0
        ELSE /\ shown >= Total(c, p)
             /\ NothingCancelled(c, p) =>
                  shown = Total(c, p) /\ row.recompensasDisponibles = Available(c, p)
    BY DEF ProgressShown
  <2>3. row # NoValue => shown \in Nat
    <3>1. progress[c] \in [Promotion -> CustomerPromotion \cup {NoValue}]
      BY DEF Tables
    <3>2. row \in CustomerPromotion \cup {NoValue}
      BY <3>1
    <3>3. \A x \in CustomerPromotion : x.progresoActual \in Nat /\ x.recompensasGeneradas \in Nat
      BY DEF CustomerPromotion
    <3>4. ASSUME NEW g \in Nat, NEW a \in Nat, NEW b \in Nat PROVE a + g * b \in Nat
      OBVIOUS
    <3> HIDE DEF row
    <3>5. row # NoValue => row.progresoActual \in Nat /\ row.recompensasGeneradas \in Nat
      BY <3>2, <3>3
    <3> QED BY <1>2, <3>4, <3>5
  <2> HIDE DEF shown
  <2>4. IF row = NoValue THEN Total(c, p)' = 0
        ELSE /\ shown >= Total(c, p)'
             /\ NothingCancelled(c, p)' =>
                  shown = Total(c, p)' /\ row.recompensasDisponibles = Available(c, p)'
    BY <1>1, <1>2, <2>2, <2>3
  <2> QED BY <2>1, <2>4 DEF shown
<1>5. OneRewardPerCycle'
  <2>1. ASSUME NEW c \in Customer, NEW p \in Promotion, NothingCancelled(c, p)'
        PROVE  /\ Cardinality(Earned(c, p)') = Total(c, p)' \div Goal[p]
               /\ CycleNamed(rewards'[p], sales', c, p)
    <3>1. /\ Cardinality(Earned(c, p)) = Total(c, p) \div Goal[p]
          /\ CycleNamed(rewards[p], sales, c, p)
      BY <1>1, <2>1, OneRewardSame DEF OneRewardIs
    <3>2. \A n : UnitsIn(sales', p, UpTo(sales', c, n)) = UnitsIn(sales, p, UpTo(sales, c, n))
      <4>1. \A n : Bought(c, p, n) = UnitsIn(sales, p, UpTo(sales, c, n))
        BY SumsAre DEF Tables
      <4>2. \A n : Bought(c, p, n)' = UnitsIn(sales', p, UpTo(sales', c, n))
        BY SumsAreNext DEF Tables
      <4> QED BY <1>1, <4>1, <4>2
    <3>3. EarnedBy(rewards'[p], c) = EarnedBy(rewards[p], c)
      <4>1. Earned(c, p) = EarnedBy(rewards[p], c) /\ Earned(c, p)' = EarnedBy(rewards'[p], c)
        BY DEF Earned, EarnedBy
      <4> QED BY <1>1, <4>1
    <3>4. \A i \in EarnedBy(rewards[p], c) : rewards'[p][i].sale = rewards[p][i].sale
      BY <1>1 DEF Earned, EarnedBy
    <3>5. CycleNamed(rewards'[p], sales', c, p)
      BY <3>1, <3>2, <3>3, <3>4 DEF CycleNamed
    <3> QED BY <1>1, <2>1, <3>1, <3>5
  <2> QED BY <2>1, OneRewardNext DEF OneRewardIs
<1> QED BY <1>3, <1>4, <1>5

\* Nothing a snapshot bounds changes while the tables do not.
LEMMA StillTables ==
  ASSUME Tables, UNCHANGED <<sales, events, rewards, progress>>
  PROVE  Tables' /\ Lessens
<1>1. Tables'
  BY DEF Tables, EventsOfSalesInForce
<1>2. ASSUME NEW c \in Customer, NEW p \in Promotion
      PROVE  /\ Total(c, p)' = Total(c, p) /\ Available(c, p)' = Available(c, p)
             /\ \A n : Bought(c, p, n)' = Bought(c, p, n)
             /\ Earned(c, p)' = Earned(c, p)
             /\ NothingCancelled(c, p)' <=> NothingCancelled(c, p)
  BY DEF Total, Available, Bought, Earned, NothingCancelled, SalesTo
<1>3. \A c \in Customer, p \in Promotion : Total(c, p) \in Nat /\ Available(c, p) \in Nat
  BY NumbersTyped
<1>4. \A c \in Customer, p \in Promotion :
        Total(c, p)' \in Nat /\ Total(c, p)' <= Total(c, p)
        /\ Available(c, p)' \in Nat /\ Available(c, p)' <= Available(c, p)
  BY <1>2, <1>3
<1> QED BY <1>1, <1>2, <1>4 DEF Lessens

\* Sales that stay open, and those that end, while no sale is committed.
LEMMA OpenKept ==
  ASSUME Tables, Lessens, OpenSales, open' \in [Tx -> Snapshot \cup {NoValue}],
         \A t \in Tx : open'[t] = open[t] \/ open'[t] = NoValue
  PROVE  OpenSales'
<1>1. ASSUME NEW t \in Tx, open'[t] # NoValue PROVE SnapshotOK(t)'
  <2>1. open'[t] = open[t] /\ open[t] # NoValue
    BY <1>1
  <2>2. open[t] \in Snapshot /\ SnapshotOK(t)
    BY <2>1 DEF OpenSales
  <2> QED BY <2>1, <2>2, LessSnapshot
<1> QED BY <1>1 DEF OpenSales

\* What is about to be saved stays an edit of a reward there is.
LEMMA DraftsKept ==
  ASSUME Drafts, \A p \in Promotion : DOMAIN rewards[p] \subseteq DOMAIN rewards'[p],
         \A d \in drafts' \ drafts : \E p \in Promotion : \E i \in DOMAIN rewards[p], e \in {"CANJEADA", "CANCELADA"} :
            d = <<p, i, e>>
  PROVE  Drafts'
BY DEF Drafts

\* A sale begins: what it reads is what there is.
LEMMA BeginKeeps ==
  ASSUME LoyaltyInv, NEW t \in Tx, NEW c \in Customer, BeginSale(t, c)
  PROVE  LoyaltyInv'
<1>1. Tables /\ OpenSales /\ Drafts /\ AvailableBacked /\ ProgressShown /\ OneRewardPerCycle
  BY DEF LoyaltyInv
<1>2. Tables' /\ Lessens /\ UNCHANGED <<sales, events, rewards, progress, drafts>>
  BY <1>1, StillTables DEF BeginSale
<1>3. AvailableBacked' /\ ProgressShown' /\ OneRewardPerCycle'
  BY <1>1, <1>2, LessKept
<1>4. Drafts'
  BY <1>1, <1>2, DraftsKept
<1> DEFINE read == [customer |-> c, sales |-> Len(sales),
                    total |-> [p \in Promotion |-> Total(c, p)],
                    available |-> [p \in Promotion |-> Available(c, p)]]
<1>5. \A p \in Promotion :
        /\ Total(c, p) \in Nat /\ Available(c, p) \in Nat /\ Bought(c, p, Len(sales)) \in Nat
        /\ Total(c, p) <= Bought(c, p, Len(sales))
  BY <1>1, NumbersTyped
<1>6. Len(sales) \in Nat
  BY <1>1, SalesTyped DEF Tables
<1>7. /\ read \in Snapshot /\ read.customer = c /\ read.sales = Len(sales)
      /\ \A p \in Promotion : read.total[p] = Total(c, p) /\ read.available[p] = Available(c, p)
  BY <1>5, <1>6 DEF Snapshot
<1>8. open' = [open EXCEPT ![t] = read]
  BY DEF BeginSale
<1> HIDE DEF read
<1>9. open' \in [Tx -> Snapshot \cup {NoValue}] /\ open'[t] = read
  BY <1>1, <1>7, <1>8 DEF OpenSales
<1>10. \A u \in Tx : u # t => open'[u] = open[u]
  BY <1>1, <1>8 DEF OpenSales
<1>11. ASSUME NEW u \in Tx, open'[u] # NoValue PROVE SnapshotOK(u)'
  <2>1. CASE u # t
    <3>1. open'[u] = open[u] /\ open[u] \in Snapshot /\ SnapshotOK(u)
      BY <1>1, <1>9, <1>10, <1>11, <2>1 DEF OpenSales
    <3> QED BY <1>1, <1>2, <3>1, LessSnapshot
  <2>2. CASE u = t
    <3>1. open'[u] = read /\ Len(sales') = Len(sales)
      BY <1>2, <1>9, <2>2
    <3>2. \A p \in Promotion :
            /\ Total(c, p)' = Total(c, p) /\ Available(c, p)' = Available(c, p)
            /\ Bought(c, p, Len(sales))' = Bought(c, p, Len(sales))
      BY <1>2 DEF Total, Available, Bought, Earned, SalesTo
    <3>3. \A p \in Promotion :
            /\ Total(c, p)' <= read.total[p] /\ read.total[p] <= Bought(c, p, Len(sales))'
            /\ Available(c, p)' <= read.available[p]
            /\ read.total[p] = Total(c, p)' /\ read.available[p] = Available(c, p)'
      BY <1>5, <1>7, <3>2
    <3>4. read.sales <= Len(sales')
      BY <1>6, <1>7, <3>1
    <3> QED BY <1>7, <3>1, <3>3, <3>4 DEF SnapshotOK
  <2> QED BY <2>1, <2>2
<1>12. OpenSales'
  BY <1>9, <1>11 DEF OpenSales
<1> QED BY <1>2, <1>3, <1>4, <1>12 DEF LoyaltyInv

\* The steps that leave the tables alone and begin no sale.
LEMMA QuietKeeps ==
  ASSUME LoyaltyInv, UNCHANGED <<sales, events, rewards, progress>>,
         open' = open \/ (\E t \in Tx : open' = [open EXCEPT ![t] = NoValue]),
         \A d \in drafts' \ drafts : \E p \in Promotion : \E i \in DOMAIN rewards[p], e \in {"CANJEADA", "CANCELADA"} :
            d = <<p, i, e>>
  PROVE  LoyaltyInv'
<1>1. Tables /\ OpenSales /\ Drafts /\ AvailableBacked /\ ProgressShown /\ OneRewardPerCycle
  BY DEF LoyaltyInv
<1>2. Tables' /\ Lessens
  BY <1>1, StillTables
<1>3. AvailableBacked' /\ ProgressShown' /\ OneRewardPerCycle'
  BY <1>1, <1>2, LessKept
<1>4. Drafts'
  BY <1>1, <1>2, DraftsKept
<1>5. open' \in [Tx -> Snapshot \cup {NoValue}]
      /\ \A t \in Tx : open'[t] = open[t] \/ open'[t] = NoValue
  BY <1>1 DEF OpenSales
<1>6. OpenSales'
  BY <1>1, <1>2, <1>5, OpenKept
<1> QED BY <1>2, <1>3, <1>4, <1>6 DEF LoyaltyInv

\* redeem() and cancel() of a reward read one, and what they will save takes it away.
LEMMA ReadingKeeps ==
  ASSUME LoyaltyInv, NEW p \in Promotion, NEW i \in DOMAIN rewards[p], NEW c,
         Redeem(p, i, c) \/ CancelReward(p, i)
  PROVE  LoyaltyInv'
<1>1. /\ drafts' \ drafts \subseteq {<<p, i, "CANJEADA">>, <<p, i, "CANCELADA">>}
      /\ UNCHANGED <<sales, events, rewards, progress, open>>
  BY DEF Redeem, CancelReward
<1> QED BY <1>1, QuietKeeps

\* The cancellation of a sale takes its units away, and leaves the rewards.
LEMMA CancelKeeps ==
  ASSUME LoyaltyInv, NEW r \in DOMAIN sales, CancelSale(r)
  PROVE  LoyaltyInv'
<1>1. /\ Tables /\ OpenSales /\ Drafts /\ AvailableBacked /\ ProgressShown /\ OneRewardPerCycle
      /\ EventsOfSalesInForce /\ sales \in Seq(Sale)
  BY DEF LoyaltyInv, Tables
<1>2. /\ sales' = [sales EXCEPT ![r].estatus = "CANCELADA"] /\ sales[r].estatus = "COMPLETADA"
      /\ events' = [p \in Promotion |-> Restrict(events[p], DOMAIN events[p] \ {r})]
      /\ UNCHANGED <<rewards, progress, open, drafts>>
  BY DEF CancelSale
<1>3. /\ sales' \in Seq(Sale) /\ Len(sales') = Len(sales) /\ DOMAIN sales' = DOMAIN sales
      /\ sales'[r].estatus = "CANCELADA"
      /\ \A s \in DOMAIN sales : /\ sales'[s].customer = sales[s].customer
                                 /\ sales'[s].eligible = sales[s].eligible
                                 /\ s # r => sales'[s] = sales[s]
  BY <1>1, <1>2, SaleMarked
<1>4. ASSUME NEW p \in Promotion PROVE events'[p] = EventsOf(sales', p)
  <2>1. events[p] = EventsOf(sales, p)
    BY <1>1 DEF EventsOfSalesInForce, EventsOf
  <2>2. events'[p] = Restrict(events[p], DOMAIN events[p] \ {r})
    BY <1>2
  <2> DEFINE D == {s \in DOMAIN sales : sales[s].estatus = "COMPLETADA" /\ sales[s].eligible[p] > 0}
             E == {s \in DOMAIN sales' : sales'[s].estatus = "COMPLETADA" /\ sales'[s].eligible[p] > 0}
  <2>3. D \ {r} = E
    BY <1>3
  <2>4. DOMAIN events[p] = D /\ \A s \in D : events[p][s] = sales[s].eligible[p]
    BY <2>1 DEF EventsOf
  <2>5. events'[p] = [s \in E |-> events[p][s]]
    BY <2>2, <2>3, <2>4 DEF Restrict
  <2>6. \A s \in E : events[p][s] = sales'[s].eligible[p]
    BY <1>3, <2>3, <2>4
  <2>7. EventsOf(sales', p) = [s \in E |-> sales'[s].eligible[p]]
    BY DEF EventsOf
  <2> HIDE DEF E
  <2> QED BY <2>5, <2>6, <2>7
<1>5. EventsOfSalesInForce'
  BY <1>4 DEF EventsOfSalesInForce, EventsOf
<1>6. Tables'
  BY <1>1, <1>2, <1>3, <1>5 DEF Tables
<1>7. Lessens
  <2>1. ASSUME NEW c \in Customer, NEW p \in Promotion
        PROVE  /\ Total(c, p)' \in Nat /\ Total(c, p)' <= Total(c, p)
               /\ \A n : Bought(c, p, n)' = Bought(c, p, n)
               /\ Available(c, p)' = Available(c, p) /\ Available(c, p) \in Nat
               /\ Earned(c, p)' = Earned(c, p)
               /\ NothingCancelled(c, p)' => c # sales[r].customer
               /\ NothingCancelled(c, p)' => NothingCancelled(c, p) /\ Total(c, p)' = Total(c, p)
    <3>1. /\ Total(c, p)' \in Nat /\ Total(c, p)' <= Total(c, p)
          /\ \A n : Bought(c, p, n)' = Bought(c, p, n)
          /\ c # sales[r].customer => Total(c, p)' = Total(c, p)
          /\ To(sales', c) = To(sales, c)
      BY <1>1, <1>2, <1>5, SaleUncounted
    <3>2. /\ Available(c, p)' = Available(c, p) /\ Earned(c, p)' = Earned(c, p)
          /\ Available(c, p) \in Nat
      BY <1>1, <1>2, NumbersTyped, ZenonT(60) DEF Available, Earned
    <3>3. SalesTo(c)' = SalesTo(c)
      BY <3>1 DEF SalesTo, To
    <3>4. NothingCancelled(c, p)' => c # sales[r].customer
      BY <1>3, <3>3 DEF NothingCancelled, SalesTo
    <3>5. NothingCancelled(c, p)' => NothingCancelled(c, p)
      BY <1>2, <1>3, <3>2, <3>3, <3>4 DEF NothingCancelled, SalesTo
    <3> QED BY <3>1, <3>2, <3>4, <3>5
  <2>2. \A c \in Customer, p \in Promotion : Available(c, p)' <= Available(c, p)
    BY <2>1
  <2> QED BY <1>2, <1>3, <2>1, <2>2 DEF Lessens
<1>8. AvailableBacked' /\ ProgressShown' /\ OneRewardPerCycle'
  BY <1>1, <1>6, <1>7, LessKept
<1>9. OpenSales'
  BY <1>1, <1>2, <1>7, OpenKept DEF OpenSales
<1>10. Drafts'
  BY <1>1, <1>2, DraftsKept
<1> QED BY <1>6, <1>8, <1>9, <1>10 DEF LoyaltyInv

\* Saving an edit of a reward takes it away.
LEMMA SavingKeeps ==
  ASSUME LoyaltyInv, NEW d \in drafts, SaveReward(d)
  PROVE  LoyaltyInv'
<1>1. /\ Tables /\ OpenSales /\ Drafts /\ AvailableBacked /\ ProgressShown /\ OneRewardPerCycle
      /\ EventsOfSalesInForce /\ sales \in Seq(Sale) /\ rewards \in [Promotion -> Seq(Reward)]
  BY DEF LoyaltyInv, Tables
<1>2. PICK q \in Promotion : \E i \in DOMAIN rewards[q], e \in {"CANJEADA", "CANCELADA"} : d = <<q, i, e>>
  BY <1>1 DEF Drafts
<1>3. PICK k \in DOMAIN rewards[q], e \in {"CANJEADA", "CANCELADA"} : d = <<q, k, e>>
  BY <1>2
<1> DEFINE rs2 == [rewards[q] EXCEPT ![k].estatus = e]
<1>4. /\ rewards' = [rewards EXCEPT ![q] = rs2]
      /\ drafts' = drafts \ {d} /\ UNCHANGED <<sales, events, progress, open>>
  BY <1>3 DEF SaveReward
<1>5. /\ rs2 \in Seq(Reward) /\ DOMAIN rs2 = DOMAIN rewards[q]
      /\ \A j \in DOMAIN rewards[q] : rs2[j].sale = rewards[q][j].sale
      /\ rs2[k].estatus = e
      /\ \A c : /\ EarnedBy(rs2, c) = EarnedBy(rewards[q], c)
                /\ AvailableTo(rs2, c) = AvailableTo(rewards[q], c) \ {k}
  <2>1. rewards[q] \in Seq(Reward) /\ rs2 = [rewards[q] EXCEPT ![k].estatus = e]
    BY <1>1
  <2> HIDE DEF rs2
  <2>2. k \in DOMAIN rewards[q] /\ e \in {"CANJEADA", "CANCELADA"}
    BY <1>3
  <2>3. rs2 \in Seq(Reward)
    BY <2>1, <2>2, RewardMarked
  <2>4. DOMAIN rs2 = DOMAIN rewards[q]
    BY <2>1, <2>2, RewardMarked
  <2>5. \A j \in DOMAIN rewards[q] : rs2[j].sale = rewards[q][j].sale
    BY <2>1, <2>2, RewardMarked
  <2>6. rs2[k].estatus = e
    BY <2>1, <2>2, RewardMarked
  <2>7. \A c : EarnedBy(rs2, c) = EarnedBy(rewards[q], c)
    BY <2>1, <2>2, RewardMarked
  <2>8. \A c : AvailableTo(rs2, c) = AvailableTo(rewards[q], c) \ {k}
    BY <2>1, <2>2, RewardMarked
  <2> QED BY <2>3, <2>4, <2>5, <2>6, <2>7, <2>8
<1> HIDE DEF rs2
<1>6. /\ rewards' \in [Promotion -> Seq(Reward)] /\ rewards'[q] = rs2
      /\ \A p \in Promotion : p # q => rewards'[p] = rewards[p]
  BY <1>1, <1>4, <1>5
<1>7. ASSUME NEW p \in Promotion
      PROVE  /\ DOMAIN rewards'[p] = DOMAIN rewards[p]
             /\ \A j \in DOMAIN rewards[p] : rewards'[p][j].sale = rewards[p][j].sale
             /\ \A c : /\ EarnedBy(rewards'[p], c) = EarnedBy(rewards[p], c)
                       /\ AvailableTo(rewards'[p], c) \in SUBSET AvailableTo(rewards[p], c)
  <2>1. CASE p = q
    BY <1>5, <1>6, <2>1
  <2>2. CASE p # q
    BY <1>6, <2>2
  <2> QED BY <2>1, <2>2
<1>8. Tables'
  <2>1. \A p \in Promotion : \A i \in DOMAIN rewards'[p] : rewards'[p][i].sale \in DOMAIN sales'
    BY <1>1, <1>4, <1>7 DEF Tables
  <2>2. EventsOfSalesInForce'
    BY <1>1, <1>4, ZenonT(60) DEF EventsOfSalesInForce
  <2>3. sales' \in Seq(Sale)
    BY <1>1, <1>4
  <2>4. /\ progress' \in [Customer -> [Promotion -> CustomerPromotion \cup {NoValue}]]
        /\ \A c \in Customer, p \in Promotion :
             progress'[c][p] # NoValue => progress'[c][p].progresoActual < Goal[p]
    BY <1>1, <1>4 DEF Tables
  <2> QED BY <1>6, <2>1, <2>2, <2>3, <2>4 DEF Tables
<1>9. Lessens
  <2>1. ASSUME NEW c \in Customer, NEW p \in Promotion
        PROVE  /\ Total(c, p)' = Total(c, p) /\ Total(c, p) \in Nat
               /\ \A n : Bought(c, p, n)' = Bought(c, p, n)
               /\ Available(c, p)' \in Nat /\ Available(c, p)' <= Available(c, p)
               /\ Earned(c, p)' = Earned(c, p)
               /\ \A i \in Earned(c, p) : rewards'[p][i].sale = rewards[p][i].sale
               /\ NothingCancelled(c, p)' => NothingCancelled(c, p) /\ Available(c, p)' = Available(c, p)
    <3>1. Total(c, p)' = Total(c, p) /\ \A n : Bought(c, p, n)' = Bought(c, p, n)
      BY <1>4 DEF Total, Bought, SalesTo
    <3>2. /\ Earned(c, p) = EarnedBy(rewards[p], c) /\ Earned(c, p)' = EarnedBy(rewards'[p], c)
          /\ Available(c, p) = Cardinality(AvailableTo(rewards[p], c))
          /\ Available(c, p)' = Cardinality(AvailableTo(rewards'[p], c))
      BY DEF Earned, EarnedBy, Available, AvailableTo
    <3>3. Earned(c, p)' = Earned(c, p)
      BY <1>7, <3>2
    <3>4. \A i \in Earned(c, p) : rewards'[p][i].sale = rewards[p][i].sale
      BY <1>7 DEF Earned
    <3> DEFINE S == AvailableTo(rewards'[p], c)
               T == AvailableTo(rewards[p], c)
    <3>5. S \in SUBSET T
      BY <1>7
    <3>6. IsFiniteSet(T) /\ Cardinality(T) \in Nat /\ Cardinality(S) \in Nat
      <4>1. rewards[p] \in Seq(Reward) /\ T \in SUBSET DOMAIN rewards[p] /\ S \in SUBSET DOMAIN rewards[p]
        BY <1>1, <3>5 DEF AvailableTo, EarnedBy
      <4> QED BY <4>1, RewardsCounted
    <3>7. Cardinality(S) <= Cardinality(T)
      <4> HIDE DEF S, T
      <4> QED BY <3>5, <3>6, FS_Subset
    <3>8. NothingCancelled(c, p)' => NothingCancelled(c, p) /\ S = T
      <4> SUFFICES ASSUME NothingCancelled(c, p)'
                   PROVE  NothingCancelled(c, p) /\ S = T
        OBVIOUS
      <4>1. \A i \in Earned(c, p) : rewards'[p][i].estatus = "DISPONIBLE"
        BY <3>3 DEF NothingCancelled
      <4>2. S = EarnedBy(rewards[p], c)
        BY <1>7, <3>2, <4>1 DEF AvailableTo
      <4>3. T = EarnedBy(rewards[p], c)
        BY <3>5, <4>2 DEF AvailableTo
      <4>4. \A i \in Earned(c, p) : rewards[p][i].estatus = "DISPONIBLE"
        BY <3>2, <4>3 DEF AvailableTo
      <4>5. \A s \in SalesTo(c) : sales[s].estatus = "COMPLETADA"
        BY <1>4 DEF NothingCancelled, SalesTo
      <4> QED BY <4>2, <4>3, <4>4, <4>5 DEF NothingCancelled
    <3>9. Total(c, p) \in Nat
      BY <1>1, NumbersTyped
    <3> HIDE DEF S, T
    <3>10. /\ Available(c, p)' = Cardinality(S) /\ Available(c, p) = Cardinality(T)
      BY <3>2 DEF S, T
    <3> QED BY <3>1, <3>3, <3>4, <3>6, <3>7, <3>8, <3>9, <3>10
  <2>2. \A c \in Customer, p \in Promotion : Total(c, p)' \in Nat /\ Total(c, p)' <= Total(c, p)
    BY <2>1
  <2> QED BY <1>4, <2>1, <2>2 DEF Lessens
<1>10. AvailableBacked' /\ ProgressShown' /\ OneRewardPerCycle'
  BY <1>1, <1>8, <1>9, LessKept
<1>11. OpenSales'
  BY <1>1, <1>4, <1>9, OpenKept DEF OpenSales
<1>12. Drafts'
  BY <1>1, <1>4, <1>7, DraftsKept
<1> QED BY <1>8, <1>10, <1>11, <1>12 DEF LoyaltyInv

-----------------------------------------------------------------------------
\* What was bought up to an earlier sale does not change with a sale more.
LEMMA EarlierUnits ==
  ASSUME NEW sq \in Seq(Sale), NEW new \in Sale, new.estatus = "COMPLETADA",
         NEW c, NEW p \in Promotion, NEW n \in Nat, n <= Len(sq)
  PROVE  UnitsIn(Append(sq, new), p, UpTo(Append(sq, new), c, n)) = UnitsIn(sq, p, UpTo(sq, c, n))
<1>1. UpTo(Append(sq, new), c, n) = UpTo(sq, c, n)
  BY SetsOfNew
<1>2. UpTo(sq, c, n) \in SUBSET DOMAIN sq
  BY DEF UpTo, To
<1>3. UnitsIn(Append(sq, new), p, UpTo(sq, c, n)) = UnitsIn(sq, p, UpTo(sq, c, n))
  BY <1>2, UnitsOfNew
<1> QED BY <1>1, <1>3

\* A sale that brings c no reward leaves those of c named by the sales that
\* completed their cycles.
LEMMA NamedStays ==
  ASSUME NEW sq \in Seq(Sale), NEW new \in Sale, new.estatus = "COMPLETADA",
         NEW sq2, sq2 = Append(sq, new), NEW rs, NEW rs2, NEW c, NEW p \in Promotion,
         EarnedBy(rs2, c) = EarnedBy(rs, c),
         \A i \in EarnedBy(rs, c) : rs2[i].sale = rs[i].sale /\ rs[i].sale \in 1..Len(sq),
         CycleNamed(rs, sq, c, p)
  PROVE  CycleNamed(rs2, sq2, c, p)
<1> SUFFICES ASSUME NEW i \in EarnedBy(rs, c)
             PROVE  LET cycle == Cardinality({j \in EarnedBy(rs, c) : j <= i})
                        s == rs[i].sale
                    IN /\ UnitsIn(sq2, p, UpTo(sq2, c, s - 1)) < cycle * Goal[p]
                       /\ cycle * Goal[p] <= UnitsIn(sq2, p, UpTo(sq2, c, s))
  BY DEF CycleNamed
<1>1. rs[i].sale \in 1..Len(sq)
  OBVIOUS
<1>2. PICK s \in 1..Len(sq) : s = rs[i].sale
  BY <1>1
<1>3. /\ UnitsIn(sq2, p, UpTo(sq2, c, s)) = UnitsIn(sq, p, UpTo(sq, c, s))
      /\ UnitsIn(sq2, p, UpTo(sq2, c, s - 1)) = UnitsIn(sq, p, UpTo(sq, c, s - 1))
  <2>1. s \in Nat /\ s - 1 \in Nat /\ s <= Len(sq) /\ s - 1 <= Len(sq)
    BY <1>2
  <2>2. \A n \in Nat : n <= Len(sq) =>
          UnitsIn(sq2, p, UpTo(sq2, c, n)) = UnitsIn(sq, p, UpTo(sq, c, n))
    BY EarlierUnits
  <2> QED BY <2>1, <2>2
<1> QED BY <1>2, <1>3 DEF CycleNamed

\* k rewards more for c, the cycles that the units of the new sale complete.
LEMMA NamedMore ==
  ASSUME NEW sq \in Seq(Sale), NEW new \in Sale, new.estatus = "COMPLETADA",
         NEW sq2, sq2 = Append(sq, new), NEW rs \in Seq(Reward), NEW rs2,
         NEW p \in Promotion, NEW c, c = new.customer, NEW k \in Nat, NEW m, m = Len(rs),
         EarnedBy(rs2, c) = EarnedBy(rs, c) \cup ((m + 1)..(m + k)),
         \A i \in 1..m : rs2[i] = rs[i],
         \A i \in (m + 1)..(m + k) : rs2[i].sale = Len(sq) + 1,
         \A i \in EarnedBy(rs, c) : rs[i].sale \in 1..Len(sq),
         CycleNamed(rs, sq, c, p),
         NEW a \in Nat, a = Cardinality(EarnedBy(rs, c)),
         NEW b \in Nat, b = UnitsIn(sq, p, UpTo(sq, c, Len(sq))),
         b < (a + 1) * Goal[p], (a + k) * Goal[p] <= b + new.eligible[p]
  PROVE  CycleNamed(rs2, sq2, c, p)
<1> DEFINE E == EarnedBy(rs, c)
           I == (m + 1)..(m + k)
<1>1. m \in Nat /\ E \in SUBSET (1..m) /\ Len(sq) \in Nat
  BY RewardsCounted DEF EarnedBy
<1>2. ASSUME NEW i \in E \cup I
      PROVE  LET cycle == Cardinality({j \in E \cup I : j <= i})
                 s == rs2[i].sale
             IN /\ UnitsIn(sq2, p, UpTo(sq2, c, s - 1)) < cycle * Goal[p]
                /\ cycle * Goal[p] <= UnitsIn(sq2, p, UpTo(sq2, c, s))
  <2>1. CASE i \in E
    <3>1. i \in 1..m /\ rs2[i].sale = rs[i].sale /\ rs[i].sale \in 1..Len(sq)
      BY <1>1, <2>1
    <3>2. PICK s \in 1..Len(sq) : s = rs[i].sale
      BY <3>1
    <3>3. /\ UnitsIn(sq2, p, UpTo(sq2, c, s)) = UnitsIn(sq, p, UpTo(sq, c, s))
          /\ UnitsIn(sq2, p, UpTo(sq2, c, s - 1)) = UnitsIn(sq, p, UpTo(sq, c, s - 1))
      <4>1. s \in Nat /\ s - 1 \in Nat /\ s <= Len(sq) /\ s - 1 <= Len(sq)
        BY <3>2, SMTT(60)
      <4>2. \A n \in Nat : n <= Len(sq) =>
              UnitsIn(sq2, p, UpTo(sq2, c, n)) = UnitsIn(sq, p, UpTo(sq, c, n))
        BY EarlierUnits
      <4> QED BY <4>1, <4>2
    <3>4. {j \in E \cup I : j <= i} = {j \in E : j <= i}
      BY <1>1, <3>1, SMTT(60)
    <3>5. /\ UnitsIn(sq, p, UpTo(sq, c, s - 1)) < Cardinality({j \in E : j <= i}) * Goal[p]
          /\ Cardinality({j \in E : j <= i}) * Goal[p] <= UnitsIn(sq, p, UpTo(sq, c, s))
      BY <2>1, <3>2 DEF CycleNamed
    <3> QED BY <3>1, <3>2, <3>3, <3>4, <3>5
  <2>2. CASE i \in I
    <3>1. PICK h \in Nat : i = m + h /\ 1 <= h /\ h <= k
      <4>1. i - m \in Nat /\ i = m + (i - m) /\ 1 <= i - m /\ i - m <= k
        BY <1>1, <2>2
      <4> QED BY <4>1
    <3>2. {j \in E \cup I : j <= i} = E \cup ((m + 1)..(m + h))
      BY <1>1, <3>1, SMTT(60)
    <3>3. Cardinality({j \in E \cup I : j <= i}) = a + h
      <4> HIDE DEF E
      <4>1. Cardinality(E \cup ((m + 1)..(m + h))) = Cardinality(E) + h
        BY <1>1, CountMore, ZenonT(60)
      <4> QED BY <3>2, <4>1 DEF E
    <3>4. rs2[i].sale = Len(sq) + 1
      BY <2>2
    <3>5. \A n : n = Len(sq) + 1 => UnitsIn(sq2, p, UpTo(sq2, c, n)) = b + new.eligible[p]
      <4>1. UpTo(sq2, c, Len(sq) + 1) = UpTo(sq, c, Len(sq)) \cup {Len(sq) + 1}
        BY SetsOfNew
      <4>2. UpTo(sq, c, Len(sq)) \in SUBSET DOMAIN sq
        BY DEF UpTo, To
      <4>3. UnitsIn(sq2, p, UpTo(sq, c, Len(sq)) \cup {Len(sq) + 1})
              = UnitsIn(sq, p, UpTo(sq, c, Len(sq))) + new.eligible[p]
        BY <4>2, UnitsOfNew
      <4> QED BY <4>1, <4>3
    <3>6. \A n : n = Len(sq) => UnitsIn(sq2, p, UpTo(sq2, c, n)) = b
      <4>1. \A n \in Nat : n <= Len(sq) => UpTo(sq2, c, n) = UpTo(sq, c, n)
        BY SetsOfNew
      <4>2. UpTo(sq, c, Len(sq)) \in SUBSET DOMAIN sq
        BY DEF UpTo, To
      <4>3. UnitsIn(sq2, p, UpTo(sq, c, Len(sq))) = UnitsIn(sq, p, UpTo(sq, c, Len(sq)))
        BY <4>2, UnitsOfNew, ZenonT(60)
      <4> QED BY <1>1, <4>1, <4>3, SMTT(60)
    <3>7. b < (a + h) * Goal[p] /\ (a + h) * Goal[p] <= b + new.eligible[p]
      <4>1. PICK g \in Nat : g = Goal[p]
        BY LoyaltyAssumption
      <4>2. new.eligible[p] \in Nat
        BY LoyaltyAssumption DEF Sale
      <4>3. b < (a + h) * g /\ (a + h) * g <= b + new.eligible[p]
        BY <3>1, <4>1, <4>2, CyclesBetween, ZenonT(60)
      <4> QED BY <4>1, <4>3
    <3>8. PICK s : s = rs2[i].sale
      OBVIOUS
    <3>9. s = Len(sq) + 1 /\ s - 1 = Len(sq)
      BY <1>1, <3>4, <3>8
    <3>10. /\ UnitsIn(sq2, p, UpTo(sq2, c, s - 1)) = b
           /\ UnitsIn(sq2, p, UpTo(sq2, c, s)) = b + new.eligible[p]
      BY <3>5, <3>6, <3>9
    <3> QED BY <3>3, <3>7, <3>8, <3>10
  <2> QED BY <2>1, <2>2
<1> QED BY <1>2 DEF CycleNamed

-----------------------------------------------------------------------------
\* A sale that commits: what it has read, the row it adds to the sales and the
\* one it adds as often as it earns rewards, and what it writes.
Committed(t, read, new, row) ==
  /\ read = open[t] /\ SnapshotOK(t) /\ FolioFree(t)
  /\ new.customer = read.customer /\ new.estatus = "COMPLETADA"
  /\ row.customer = read.customer /\ row.estatus = "DISPONIBLE" /\ row.sale = Len(sales) + 1
  /\ \A p \in Promotion : new.eligible[p] \in Nat
  /\ sales' = Append(sales, new)
  /\ \A p \in Promotion :
       /\ new.eligible[p] > 0 =>
            /\ events'[p] = [s \in DOMAIN events[p] \cup {Len(sales) + 1} |->
                 IF s = Len(sales) + 1 THEN new.eligible[p] ELSE events[p][s]]
            /\ rewards'[p] = rewards[p] \o Alike(row, NewRewards(read, p, new.eligible[p]))
            /\ progress'[read.customer][p] = ProgressRow(read, p, new.eligible[p])
       /\ ~ (new.eligible[p] > 0) =>
            /\ events'[p] = events[p]
            /\ rewards'[p] = rewards[p] \o Alike(row, 0)
            /\ progress'[read.customer][p] = progress[read.customer][p]
  /\ \A c \in Customer : c # read.customer => progress'[c] = progress[c]
  /\ DOMAIN rewards' = Promotion /\ rewards' = [p \in Promotion |-> rewards'[p]]
  /\ progress' = [c \in Customer |-> progress'[c]]
  /\ progress'[read.customer] = [p \in Promotion |-> progress'[read.customer][p]]
  /\ open' = [open EXCEPT ![t] = NoValue] /\ UNCHANGED drafts

LEMMA CommitIs ==
  ASSUME Tables, OpenSales, NEW t \in Tx, CommitSale(t)
  PROVE  \E read \in Snapshot, new \in Sale, row \in Reward : Committed(t, read, new, row)
<1>1. PICK eligible \in [Promotion -> 0..MaxEligible] :
        LET read == open[t]
            c == read.customer
            id == Len(sales) + 1
            counted == {p \in Promotion : eligible[p] > 0}
            New(p) == IF p \in counted THEN NewRewards(read, p, eligible[p]) ELSE 0
        IN /\ read # NoValue
           /\ FolioFree(t)
           /\ Len(sales) < MaxSales
           /\ sales' = Append(sales, [customer |-> c, eligible |-> eligible,
                                      estatus |-> "COMPLETADA"])
           /\ events' = [p \in Promotion |->
                IF p \in counted
                THEN [s \in DOMAIN events[p] \cup {id} |-> IF s = id THEN eligible[p] ELSE events[p][s]]
                ELSE events[p]]
           /\ rewards' = [p \in Promotion |->
                rewards[p] \o [i \in 1..New(p) |-> [customer |-> c, estatus |-> "DISPONIBLE", sale |-> id]]]
           /\ progress' = [progress EXCEPT ![c] =
                [p \in Promotion |-> IF p \in counted THEN ProgressRow(read, p, eligible[p]) ELSE @[p]]]
           /\ open' = [open EXCEPT ![t] = NoValue]
           /\ UNCHANGED drafts
  BY Zenon DEF CommitSale
<1>2. PICK read \in Snapshot : read = open[t]
  BY <1>1 DEF OpenSales
<1>3. /\ read.customer \in Customer /\ SnapshotOK(t) /\ FolioFree(t)
  BY <1>1, <1>2 DEF OpenSales, Snapshot
<1>4. Len(sales) \in Nat /\ Len(sales) < MaxSales
  BY <1>1, SalesTyped DEF Tables
<1>5. PICK new \in Sale : new = [customer |-> read.customer, eligible |-> eligible, estatus |-> "COMPLETADA"]
  BY <1>1, <1>3 DEF Sale
<1>6. PICK row \in Reward : row = [customer |-> read.customer, estatus |-> "DISPONIBLE", sale |-> Len(sales) + 1]
  <2>1. Len(sales) + 1 \in 1..MaxSales
    BY <1>4, LoyaltyAssumption
  <2> QED BY <1>3, <2>1 DEF Reward, RewardStatus
<1>7. /\ new.customer = read.customer /\ new.estatus = "COMPLETADA" /\ new.eligible = eligible
      /\ row.customer = read.customer /\ row.estatus = "DISPONIBLE" /\ row.sale = Len(sales) + 1
  BY <1>5, <1>6
<1>8. sales' = Append(sales, new)
  BY <1>1, <1>2, <1>5
<1>9. \A p \in Promotion : new.eligible[p] \in Nat
  BY <1>1, <1>7, LoyaltyAssumption
<1> DEFINE id == Len(sales) + 1
<1>10. ASSUME NEW p \in Promotion
       PROVE  /\ events'[p] = IF new.eligible[p] > 0
                              THEN [s \in DOMAIN events[p] \cup {id} |->
                                      IF s = id THEN new.eligible[p] ELSE events[p][s]]
                              ELSE events[p]
              /\ rewards'[p] = IF new.eligible[p] > 0
                               THEN rewards[p] \o Alike(row, NewRewards(read, p, new.eligible[p]))
                               ELSE rewards[p] \o Alike(row, 0)
  BY <1>1, <1>2, <1>6, <1>7, Zenon DEF Alike
<1>11. /\ \A p \in Promotion : progress'[read.customer][p] =
            IF new.eligible[p] > 0 THEN ProgressRow(read, p, new.eligible[p])
            ELSE progress[read.customer][p]
       /\ progress' = [c \in Customer |-> progress'[c]]
       /\ progress'[read.customer] = [p \in Promotion |-> progress'[read.customer][p]]
       /\ \A c \in Customer : c # read.customer => progress'[c] = progress[c]
  <2> DEFINE q == [p \in Promotion |-> IF new.eligible[p] > 0 THEN ProgressRow(read, p, new.eligible[p])
                                       ELSE progress[read.customer][p]]
  <2>1. progress' = [progress EXCEPT ![read.customer] = q]
    BY <1>1, <1>2, <1>7
  <2>2. DOMAIN q = Promotion /\ \A p \in Promotion : q[p] =
            IF new.eligible[p] > 0 THEN ProgressRow(read, p, new.eligible[p])
            ELSE progress[read.customer][p]
    OBVIOUS
  <2>3. q = [p \in Promotion |-> q[p]]
    OBVIOUS
  <2> HIDE DEF q
  <2>4. DOMAIN progress = Customer /\ progress = [c \in Customer |-> progress[c]]
    BY DEF Tables
  <2>5. progress'[read.customer] = q
    BY <1>3, <2>1, <2>4
  <2>6. progress' = [c \in Customer |-> progress'[c]]
    BY <1>3, <2>1, <2>4
  <2> QED BY <1>3, <2>1, <2>2, <2>3, <2>4, <2>5, <2>6
<1>12. DOMAIN rewards' = Promotion /\ rewards' = [p \in Promotion |-> rewards'[p]]
  BY <1>1
<1>13. open' = [open EXCEPT ![t] = NoValue] /\ UNCHANGED drafts
  BY <1>1
<1>14. \A p \in Promotion :
         /\ new.eligible[p] > 0 =>
              /\ events'[p] = [s \in DOMAIN events[p] \cup {Len(sales) + 1} |->
                   IF s = Len(sales) + 1 THEN new.eligible[p] ELSE events[p][s]]
              /\ rewards'[p] = rewards[p] \o Alike(row, NewRewards(read, p, new.eligible[p]))
              /\ progress'[read.customer][p] = ProgressRow(read, p, new.eligible[p])
         /\ ~ (new.eligible[p] > 0) =>
              /\ events'[p] = events[p]
              /\ rewards'[p] = rewards[p] \o Alike(row, 0)
              /\ progress'[read.customer][p] = progress[read.customer][p]
  BY <1>10, <1>11, Zenon
<1>15. Committed(t, read, new, row)
  BY <1>2, <1>3, <1>7, <1>8, <1>9, <1>11, <1>12, <1>13, <1>14 DEF Committed
<1> QED BY <1>15

\* What a sale of q units comes to: the rewards it adds make up for the cycles the
\* available ones do not reach, and the row it writes is the whole count.
LEMMA NewIs ==
  ASSUME NEW read \in Snapshot, NEW p \in Promotion, NEW q \in Nat,
         NEW k, k = NewRewards(read, p, q), NEW row, row = ProgressRow(read, p, q),
         NEW n, n = read.total[p] + q
  PROVE  /\ k \in Nat /\ n \in Nat /\ read.available[p] \in Nat /\ n \div Goal[p] \in Nat
         /\ k = 0 \/ read.available[p] + k = n \div Goal[p]
         /\ n \div Goal[p] <= read.available[p] + k
         /\ (n \div Goal[p]) * Goal[p] <= n
         /\ row \in CustomerPromotion /\ row.progresoActual < Goal[p]
         /\ row.progresoActual + Goal[p] * row.recompensasGeneradas = n
         /\ row.recompensasDisponibles = read.available[p] + k
<1>1. read.total[p] \in Nat /\ read.available[p] \in Nat /\ Goal[p] \in Nat \ {0}
  BY LoyaltyAssumption DEF Snapshot
<1>2. n \in Nat
  BY <1>1
<1> DEFINE g == n \div Goal[p]
           m == n % Goal[p]
<1>3. /\ g \in Nat /\ m \in Nat /\ m < Goal[p]
      /\ m + Goal[p] * g = n /\ g * Goal[p] <= n
  BY <1>1, <1>2, Quotient
<1>4. k = IF g > read.available[p] THEN g - read.available[p] ELSE 0
  BY DEF NewRewards
<1>5. /\ row = [progresoActual |-> m, recompensasGeneradas |-> g,
                recompensasDisponibles |-> read.available[p] + k]
  BY DEF ProgressRow
<1> HIDE DEF g, m
<1>6. /\ k \in Nat /\ (k = 0 \/ read.available[p] + k = g) /\ g <= read.available[p] + k
  BY <1>1, <1>3, <1>4
<1>7. /\ row.progresoActual = m /\ row.recompensasGeneradas = g
      /\ row.recompensasDisponibles = read.available[p] + k
  BY <1>5
<1>8. row \in CustomerPromotion
  BY <1>1, <1>3, <1>5, <1>6 DEF CustomerPromotion
<1> QED BY <1>1, <1>2, <1>3, <1>6, <1>7, <1>8 DEF g

\* The events of a programme after a sale are those of the sales there are then.
LEMMA EventsOfNew ==
  ASSUME NEW sq \in Seq(Sale), NEW new \in Sale, new.estatus = "COMPLETADA", NEW p \in Promotion
  PROVE  /\ new.eligible[p] > 0 =>
              EventsOf(Append(sq, new), p)
                = [s \in DOMAIN EventsOf(sq, p) \cup {Len(sq) + 1} |->
                     IF s = Len(sq) + 1 THEN new.eligible[p] ELSE EventsOf(sq, p)[s]]
         /\ ~ (new.eligible[p] > 0) => EventsOf(Append(sq, new), p) = EventsOf(sq, p)
<1> DEFINE sq2 == Append(sq, new)
           id == Len(sq) + 1
           D == {s \in DOMAIN sq : sq[s].estatus = "COMPLETADA" /\ sq[s].eligible[p] > 0}
           E == {s \in DOMAIN sq2 : sq2[s].estatus = "COMPLETADA" /\ sq2[s].eligible[p] > 0}
<1>1. /\ Len(sq) \in Nat /\ DOMAIN sq = 1..Len(sq) /\ DOMAIN sq2 = 1..id /\ sq2[id] = new
      /\ \A s \in 1..Len(sq) : sq2[s] = sq[s]
  BY AppendProperties
<1>2. 1..id = 1..Len(sq) \cup {id} /\ id \notin 1..Len(sq)
  BY <1>1
<1>3. /\ EventsOf(sq, p) = [s \in D |-> sq[s].eligible[p]]
      /\ EventsOf(sq2, p) = [s \in E |-> sq2[s].eligible[p]]
  BY DEF EventsOf
<1> HIDE DEF sq2, id
<1>4. /\ new.eligible[p] > 0 => E = D \cup {id}
      /\ ~ (new.eligible[p] > 0) => E = D
  BY <1>1, <1>2
<1>5. /\ \A s \in D : sq2[s].eligible[p] = sq[s].eligible[p] /\ s # id
      /\ sq2[id].eligible[p] = new.eligible[p]
  BY <1>1, <1>2
<1> HIDE DEF D, E
<1>6. ASSUME new.eligible[p] > 0
      PROVE  EventsOf(sq2, p) = [s \in DOMAIN EventsOf(sq, p) \cup {id} |->
                                   IF s = id THEN new.eligible[p] ELSE EventsOf(sq, p)[s]]
  <2>1. DOMAIN EventsOf(sq, p) = D /\ \A s \in D : EventsOf(sq, p)[s] = sq[s].eligible[p]
    BY <1>3
  <2>2. EventsOf(sq2, p) = [s \in D \cup {id} |-> sq2[s].eligible[p]]
    BY <1>3, <1>4, <1>6
  <2>3. \A s \in D \cup {id} : sq2[s].eligible[p] = IF s = id THEN new.eligible[p] ELSE EventsOf(sq, p)[s]
    BY <1>5, <2>1
  <2> QED BY <2>1, <2>2, <2>3
<1>7. ASSUME ~ (new.eligible[p] > 0) PROVE EventsOf(sq2, p) = EventsOf(sq, p)
  BY <1>3, <1>4, <1>5, <1>7
<1> QED BY <1>6, <1>7 DEF sq2, id

\* The rewards a sale of its units adds.
Added(read, new, p) ==
  IF new.eligible[p] > 0 THEN NewRewards(read, p, new.eligible[p]) ELSE 0

\* The rewards after a sale, the customer's own and those of the others.
LEMMA CommitRewards ==
  ASSUME Tables, NEW t, NEW read \in Snapshot, NEW new \in Sale, NEW row \in Reward,
         Committed(t, read, new, row), NEW p \in Promotion
  PROVE  /\ Added(read, new, p) \in Nat /\ row.sale = Len(sales) + 1
         /\ MoreFor(read.customer, rewards[p], Len(rewards[p]), Added(read, new, p), rewards'[p], row)
<1> DEFINE k == Added(read, new, p)
<1>1. new.eligible[p] \in Nat /\ row.customer = read.customer /\ row.estatus = "DISPONIBLE"
      /\ row.sale = Len(sales) + 1
  BY DEF Committed
<1>2. k \in Nat
  <2>1. CASE new.eligible[p] > 0
    BY <1>1, <2>1, NewIs DEF Added
  <2>2. CASE ~ (new.eligible[p] > 0)
    BY <2>2 DEF Added
  <2> QED BY <2>1, <2>2
<1>3. rewards'[p] = rewards[p] \o Alike(row, k)
  <2>1. CASE new.eligible[p] > 0
    BY <2>1 DEF Committed, Added
  <2>2. CASE ~ (new.eligible[p] > 0)
    BY <2>2 DEF Committed, Added
  <2> QED BY <2>1, <2>2
<1>4. rewards[p] \in Seq(Reward)
  BY DEF Tables
<1> HIDE DEF k
<1>5. MoreFor(row.customer, rewards[p], Len(rewards[p]), k, rewards[p] \o Alike(row, k), row)
  BY <1>1, <1>2, <1>4, RewardsAdded
<1>6. MoreFor(read.customer, rewards[p], Len(rewards[p]), k, rewards'[p], row)
  BY <1>1, <1>3, <1>5
<1> QED BY <1>1, <1>2, <1>6 DEF k

\* The tables stay what they are.
LEMMA CommitTables ==
  ASSUME Tables, NEW t, NEW read \in Snapshot, NEW new \in Sale, NEW row \in Reward,
         Committed(t, read, new, row)
  PROVE  Tables'
<1>1. /\ sales \in Seq(Sale) /\ Len(sales) \in Nat /\ DOMAIN sales = 1..Len(sales)
      /\ sales' = Append(sales, new) /\ new.estatus = "COMPLETADA" /\ read.customer \in Customer
  BY SalesTyped DEF Tables, Committed, Snapshot
<1>2. sales' \in Seq(Sale) /\ DOMAIN sales' = 1..(Len(sales) + 1)
  BY <1>1, AppendProperties
<1>3. EventsOfSalesInForce'
  <2>1. ASSUME NEW p \in Promotion PROVE events'[p] = EventsOf(sales', p)
    <3>1. events[p] = EventsOf(sales, p)
      BY DEF Tables, EventsOfSalesInForce, EventsOf
    <3>2. CASE new.eligible[p] > 0
      <4>1. events'[p] = [s \in DOMAIN events[p] \cup {Len(sales) + 1} |->
                            IF s = Len(sales) + 1 THEN new.eligible[p] ELSE events[p][s]]
        BY <3>2 DEF Committed
      <4>2. EventsOf(Append(sales, new), p)
              = [s \in DOMAIN EventsOf(sales, p) \cup {Len(sales) + 1} |->
                   IF s = Len(sales) + 1 THEN new.eligible[p] ELSE EventsOf(sales, p)[s]]
        BY <1>1, <3>2, EventsOfNew
      <4> QED BY <1>1, <3>1, <4>1, <4>2, Zenon
    <3>3. CASE ~ (new.eligible[p] > 0)
      <4>1. events'[p] = events[p]
        BY <3>3 DEF Committed
      <4>2. EventsOf(Append(sales, new), p) = EventsOf(sales, p)
        BY <1>1, <3>3, EventsOfNew
      <4> QED BY <1>1, <3>1, <4>1, <4>2, Zenon
    <3> QED BY <3>2, <3>3
  <2> QED BY <2>1 DEF EventsOfSalesInForce, EventsOf
<1>4. ASSUME NEW p \in Promotion
      PROVE  /\ rewards'[p] \in Seq(Reward)
             /\ \A i \in DOMAIN rewards'[p] : rewards'[p][i].sale \in DOMAIN sales'
  <2>1. PICK k \in Nat : MoreFor(read.customer, rewards[p], Len(rewards[p]), k, rewards'[p], row)
    BY CommitRewards
  <2>2. PICK m : m = Len(rewards[p])
    OBVIOUS
  <2>3. /\ k \in Nat /\ m \in Nat
        /\ rewards'[p] \in Seq(Reward) /\ DOMAIN rewards'[p] = 1..(m + k)
        /\ \A i \in 1..m : rewards'[p][i] = rewards[p][i]
        /\ \A i \in (m + 1)..(m + k) : rewards'[p][i].sale = Len(sales) + 1
    <3>1. row.sale = Len(sales) + 1
      BY DEF Committed
    <3> QED BY <2>1, <2>2, <3>1 DEF MoreFor
  <2>4. DOMAIN rewards[p] = 1..m /\ \A i \in 1..m : rewards[p][i].sale \in DOMAIN sales
    <3>1. rewards[p] \in Seq(Reward)
      BY DEF Tables
    <3>2. DOMAIN rewards[p] = 1..m
      BY <2>2, <3>1
    <3> QED BY <3>2 DEF Tables
  <2>5. ASSUME NEW i \in 1..(m + k) PROVE rewards'[p][i].sale \in 1..(Len(sales) + 1)
    <3>1. CASE i \in 1..m
      <4>1. rewards'[p][i] = rewards[p][i] /\ rewards[p][i].sale \in 1..Len(sales)
        BY <1>1, <2>3, <2>4, <3>1
      <4> QED BY <1>1, <4>1
    <3>2. CASE i \in (m + 1)..(m + k)
      BY <1>1, <2>3, <3>2
    <3> QED BY <2>3, <3>1, <3>2
  <2> QED BY <1>2, <2>3, <2>5
<1>5. rewards' \in [Promotion -> Seq(Reward)]
  BY <1>4 DEF Committed
<1>6. ASSUME NEW c \in Customer
      PROVE  /\ progress'[c] \in [Promotion -> CustomerPromotion \cup {NoValue}]
             /\ \A p \in Promotion : progress'[c][p] # NoValue => progress'[c][p].progresoActual < Goal[p]
  <2>1. progress[c] \in [Promotion -> CustomerPromotion \cup {NoValue}]
    BY DEF Tables
  <2>2. \A p \in Promotion : progress[c][p] # NoValue => progress[c][p].progresoActual < Goal[p]
    BY DEF Tables
  <2>3. CASE c # read.customer
    BY <2>1, <2>2, <2>3 DEF Committed
  <2>4. CASE c = read.customer
    <3>1. ASSUME NEW p \in Promotion
          PROVE  /\ progress'[c][p] \in CustomerPromotion \cup {NoValue}
                 /\ progress'[c][p] # NoValue => progress'[c][p].progresoActual < Goal[p]
      <4>1. CASE new.eligible[p] > 0
        <5>1. /\ progress'[c][p] = ProgressRow(read, p, new.eligible[p])
              /\ new.eligible[p] \in Nat
          BY <2>4, <4>1 DEF Committed
        <5> QED BY <5>1, NewIs
      <4>2. CASE ~ (new.eligible[p] > 0)
        <5>1. progress'[c][p] = progress[c][p]
          BY <2>4, <4>2 DEF Committed
        <5>2. progress[c][p] \in CustomerPromotion \cup {NoValue}
          BY <2>1
        <5> QED BY <2>2, <5>1, <5>2
      <4> QED BY <4>1, <4>2
    <3>2. progress'[c] = [p \in Promotion |-> progress'[c][p]]
      BY <2>4 DEF Committed
    <3> QED BY <3>1, <3>2
  <2> QED BY <2>3, <2>4
<1>7. progress' = [c \in Customer |-> progress'[c]]
  BY DEF Committed
<1>8. progress' \in [Customer -> [Promotion -> CustomerPromotion \cup {NoValue}]]
  <2>1. \A c \in Customer : progress'[c] \in [Promotion -> CustomerPromotion \cup {NoValue}]
    BY <1>6
  <2> QED BY <1>7, <2>1
<1> QED BY <1>2, <1>3, <1>4, <1>5, <1>6, <1>8 DEF Tables

\* What the sums are after the sale.
UnitsMore(read, new, c, p) == IF c = read.customer THEN new.eligible[p] ELSE 0

LEMMA CommitSums ==
  ASSUME Tables, Tables', NEW t, NEW read \in Snapshot, NEW new \in Sale, NEW row \in Reward,
         Committed(t, read, new, row), NEW c, NEW p \in Promotion
  PROVE  /\ UnitsMore(read, new, c, p) \in Nat
         /\ Total(c, p)' = Total(c, p) + UnitsMore(read, new, c, p)
         /\ Bought(c, p, Len(sales))' = Bought(c, p, Len(sales)) + UnitsMore(read, new, c, p)
<1> DEFINE more == UnitsMore(read, new, c, p)
<1>1. /\ sales \in Seq(Sale) /\ EventsOfSalesInForce /\ EventsOfSalesInForce'
      /\ new.estatus = "COMPLETADA" /\ sales' = Append(sales, new)
      /\ new.customer = read.customer /\ new.eligible[p] \in Nat
  BY DEF Tables, Committed
<1>0. more = IF c = new.customer THEN new.eligible[p] ELSE 0
  BY <1>1 DEF UnitsMore
<1> HIDE DEF more
<1>2. /\ Total(c, p)' = Total(c, p) + more
      /\ \A n : n = Len(sales) + 1 => Bought(c, p, n)' = Bought(c, p, Len(sales)) + more
  BY <1>0, <1>1, SaleCounted
<1>3. more \in Nat
  BY <1>0, <1>1
<1>4. PICK n : n = Len(sales')
  OBVIOUS
<1>5. Len(sales') = Len(sales) + 1
  BY <1>1, AppendProperties
<1>6. Bought(c, p, Len(sales))' = Bought(c, p, n)'
  BY <1>4 DEF Bought
<1>7. Bought(c, p, n)' = Bought(c, p, Len(sales)) + more
  BY <1>2, <1>4, <1>5
<1> QED BY <1>2, <1>3, <1>6, <1>7 DEF more

\* What was cancelled stays so.
LEMMA CommitCancelsNothing ==
  ASSUME Tables, NEW t, NEW read \in Snapshot, NEW new \in Sale, NEW row \in Reward,
         Committed(t, read, new, row), NEW c, NEW p \in Promotion, NothingCancelled(c, p)'
  PROVE  NothingCancelled(c, p)
<1>1. /\ sales \in Seq(Sale) /\ sales' = Append(sales, new) /\ rewards[p] \in Seq(Reward)
  BY DEF Tables, Committed
<1>2. /\ DOMAIN sales \subseteq DOMAIN sales' /\ \A s \in DOMAIN sales : sales'[s] = sales[s]
  <2>1. /\ Len(sales) \in Nat /\ DOMAIN sales = 1..Len(sales)
        /\ DOMAIN sales' = 1..(Len(sales) + 1) /\ \A s \in 1..Len(sales) : sales'[s] = sales[s]
    BY <1>1, AppendProperties
  <2> QED BY <2>1
<1>3. PICK k \in Nat : MoreFor(read.customer, rewards[p], Len(rewards[p]), k, rewards'[p], row)
  BY CommitRewards
<1>4. /\ DOMAIN rewards[p] \subseteq DOMAIN rewards'[p]
      /\ \A i \in DOMAIN rewards[p] : rewards'[p][i] = rewards[p][i]
  <2>1. PICK m : m = Len(rewards[p])
    OBVIOUS
  <2>2. /\ m \in Nat /\ DOMAIN rewards'[p] = 1..(m + k)
        /\ \A i \in 1..m : rewards'[p][i] = rewards[p][i]
    BY <1>3, <2>1 DEF MoreFor
  <2>3. DOMAIN rewards[p] = 1..m
    BY <1>1, <2>1
  <2> QED BY <1>3, <2>2, <2>3
<1>5. \A s \in SalesTo(c) : sales[s].estatus = "COMPLETADA"
  BY <1>2 DEF NothingCancelled, SalesTo
<1>6. \A i \in Earned(c, p) : rewards[p][i].estatus = "DISPONIBLE"
  BY <1>4 DEF NothingCancelled, Earned
<1> QED BY <1>5, <1>6 DEF NothingCancelled

-----------------------------------------------------------------------------
\* What is said of the rewards and the progress of one customer and programme.
KeptFor(c, p) ==
  /\ Available(c, p) * Goal[p] <= Bought(c, p, Len(sales))
  /\ LET row == progress[c][p]
         shown == row.progresoActual + Goal[p] * row.recompensasGeneradas
     IN IF row = NoValue THEN Total(c, p) = 0
        ELSE /\ shown >= Total(c, p)
             /\ NothingCancelled(c, p) =>
                  shown = Total(c, p) /\ row.recompensasDisponibles = Available(c, p)
  /\ NothingCancelled(c, p) =>
       /\ Cardinality(Earned(c, p)) = Total(c, p) \div Goal[p]
       /\ CycleNamed(rewards[p], sales, c, p)

KeptIs ==
  Tables => (AvailableBacked /\ ProgressShown /\ OneRewardPerCycle
               <=> \A c \in Customer, p \in Promotion : KeptFor(c, p))

LEMMA KeptSame == KeptIs
<1> SUFFICES ASSUME Tables
    PROVE  AvailableBacked /\ ProgressShown /\ OneRewardPerCycle
               <=> \A c \in Customer, p \in Promotion : KeptFor(c, p)
  BY DEF KeptIs
<1>1. OneRewardPerCycle <=>
        \A c \in Customer, p \in Promotion :
          NothingCancelled(c, p) =>
            /\ Cardinality(Earned(c, p)) = Total(c, p) \div Goal[p]
            /\ CycleNamed(rewards[p], sales, c, p)
  BY OneRewardSame DEF OneRewardIs
<1>2. AvailableBacked <=>
        \A c \in Customer, p \in Promotion : Available(c, p) * Goal[p] <= Bought(c, p, Len(sales))
  BY DEF AvailableBacked
<1>3. ProgressShown <=>
        \A c \in Customer, p \in Promotion :
          LET row == progress[c][p]
              shown == row.progresoActual + Goal[p] * row.recompensasGeneradas
          IN IF row = NoValue THEN Total(c, p) = 0
             ELSE /\ shown >= Total(c, p)
                  /\ NothingCancelled(c, p) =>
                       shown = Total(c, p) /\ row.recompensasDisponibles = Available(c, p)
  BY DEF ProgressShown
<1> QED BY <1>1, <1>2, <1>3, Zenon DEF KeptFor

LEMMA KeptNext == KeptIs'
BY KeptSame, PTL

\* The sale of another customer, and one out of the scope of the programme.
LEMMA CommitLeaves ==
  ASSUME Tables, Tables', NEW t, NEW read \in Snapshot, NEW new \in Sale, NEW row \in Reward,
         Committed(t, read, new, row), NEW c \in Customer, NEW p \in Promotion,
         c # read.customer \/ ~ (new.eligible[p] > 0), KeptFor(c, p)
  PROVE  KeptFor(c, p)'
<1>1. /\ Total(c, p) \in Nat /\ Bought(c, p, Len(sales)) \in Nat /\ new.eligible[p] \in Nat
      /\ sales \in Seq(Sale) /\ sales' = Append(sales, new) /\ new.estatus = "COMPLETADA"
  BY NumbersTyped DEF Committed, Tables
<1>2. /\ Total(c, p)' = Total(c, p)
      /\ Bought(c, p, Len(sales))' = Bought(c, p, Len(sales))
  <2> DEFINE more == UnitsMore(read, new, c, p)
  <2>1. /\ Total(c, p)' = Total(c, p) + more
        /\ Bought(c, p, Len(sales))' = Bought(c, p, Len(sales)) + more
    BY CommitSums
  <2>2. more = 0
    BY <1>1 DEF UnitsMore
  <2> HIDE DEF more
  <2> QED BY <1>1, <2>1, <2>2
<1>3. progress'[c][p] = progress[c][p]
  <2>1. CASE c # read.customer
    BY <2>1 DEF Committed
  <2>2. CASE c = read.customer
    BY <2>2 DEF Committed
  <2> QED BY <2>1, <2>2
<1>4. /\ EarnedBy(rewards'[p], c) = EarnedBy(rewards[p], c)
      /\ AvailableTo(rewards'[p], c) = AvailableTo(rewards[p], c)
      /\ \A i \in EarnedBy(rewards[p], c) : rewards'[p][i] = rewards[p][i]
  <2>1. MoreFor(read.customer, rewards[p], Len(rewards[p]), Added(read, new, p), rewards'[p], row)
    BY CommitRewards
  <2>2. PICK m : m = Len(rewards[p])
    OBVIOUS
  <2>3. PICK k : k = Added(read, new, p)
    OBVIOUS
  <2>4. MoreFor(read.customer, rewards[p], m, k, rewards'[p], row)
    BY <2>1, <2>2, <2>3
  <2>5. DOMAIN rewards[p] = 1..m /\ m \in Nat
    <3>1. rewards[p] \in Seq(Reward)
      BY DEF Tables
    <3> QED BY <2>2, <3>1
  <2>6. \A i \in EarnedBy(rewards[p], c) : rewards'[p][i] = rewards[p][i]
    BY <2>4, <2>5 DEF MoreFor, EarnedBy
  <2>7. CASE c # read.customer
    BY <2>4, <2>6, <2>7 DEF MoreFor
  <2>8. CASE c = read.customer
    <3>1. k = 0
      BY <2>3, <2>8 DEF Added
    <3>2. (m + 1)..(m + k) = {}
      BY <2>5, <3>1
    <3>3. /\ EarnedBy(rewards'[p], c) = EarnedBy(rewards[p], c) \cup ((m + 1)..(m + k))
          /\ AvailableTo(rewards'[p], c) = AvailableTo(rewards[p], c) \cup ((m + 1)..(m + k))
      BY <2>4, <2>8 DEF MoreFor
    <3> QED BY <2>6, <3>2, <3>3
  <2> QED BY <2>7, <2>8
<1>5. Available(c, p)' = Available(c, p) /\ Earned(c, p)' = Earned(c, p)
  <2>1. /\ Earned(c, p) = EarnedBy(rewards[p], c) /\ Earned(c, p)' = EarnedBy(rewards'[p], c)
        /\ Available(c, p) = Cardinality(AvailableTo(rewards[p], c))
        /\ Available(c, p)' = Cardinality(AvailableTo(rewards'[p], c))
    BY DEF Earned, EarnedBy, Available, AvailableTo
  <2> QED BY <1>4, <2>1
<1>6. NothingCancelled(c, p)' => NothingCancelled(c, p)
  BY CommitCancelsNothing
<1>7. ASSUME CycleNamed(rewards[p], sales, c, p) PROVE CycleNamed(rewards'[p], sales', c, p)
  <2>1. \A i \in EarnedBy(rewards[p], c) : rewards[p][i].sale \in 1..Len(sales)
    BY SalesTyped DEF Tables, EarnedBy
  <2>2. \A i \in EarnedBy(rewards[p], c) :
          rewards'[p][i].sale = rewards[p][i].sale /\ rewards[p][i].sale \in 1..Len(sales)
    BY <1>4, <2>1
  <2> QED BY <1>1, <1>4, <1>7, <2>2, NamedStays
<1> QED BY <1>2, <1>3, <1>5, <1>6, <1>7 DEF KeptFor

\* The sale of the customer itself: its snapshot bounds what there is, and no
\* other sale has been committed since it was taken.
LEMMA CommitEarns ==
  ASSUME Tables, Tables', NEW t, NEW read \in Snapshot, NEW new \in Sale, NEW row \in Reward,
         Committed(t, read, new, row), NEW c \in Customer, NEW p \in Promotion,
         c = read.customer, new.eligible[p] > 0, KeptFor(c, p)
  PROVE  KeptFor(c, p)'
<1> DEFINE A == Available(c, p)
           B == Bought(c, p, Len(sales))
           T == Total(c, p)
<1>1. PICK q : q = new.eligible[p]
  OBVIOUS
<1>2. PICK k : k = NewRewards(read, p, q)
  OBVIOUS
<1>3. PICK n : n = read.total[p] + q
  OBVIOUS
<1>4. PICK shownRow : shownRow = ProgressRow(read, p, q)
  OBVIOUS
<1>5. PICK g : g = Goal[p]
  OBVIOUS
<1>6. PICK m : m = Len(rewards[p])
  OBVIOUS
<1>7. PICK ra, rt : ra = read.available[p] /\ rt = read.total[p]
  OBVIOUS
<1>8. /\ q \in Nat /\ q > 0 /\ read = open[t] /\ SnapshotOK(t) /\ FolioFree(t)
      /\ sales \in Seq(Sale) /\ sales' = Append(sales, new)
      /\ new.customer = read.customer /\ new.estatus = "COMPLETADA"
  BY <1>1 DEF Committed, Tables
<1>9. /\ g \in Nat \ {0} /\ A \in Nat /\ B \in Nat /\ T \in Nat /\ T <= B
      /\ NothingCancelled(c, p) => T = B
  BY <1>5, NumbersTyped
<1>10. /\ T <= rt /\ rt <= B /\ A <= ra
       /\ NothingCancelled(c, p) => rt = T /\ ra = A
  BY <1>7, <1>8 DEF SnapshotOK
<1>11. /\ k \in Nat /\ n \in Nat /\ ra \in Nat /\ n \div g \in Nat
       /\ (k = 0 \/ ra + k = n \div g) /\ n \div g <= ra + k
       /\ (n \div g) * g <= n
       /\ shownRow \in CustomerPromotion
       /\ shownRow.progresoActual + g * shownRow.recompensasGeneradas = n
       /\ shownRow.recompensasDisponibles = ra + k
  <2>1. /\ k \in Nat /\ n \in Nat /\ read.available[p] \in Nat /\ n \div Goal[p] \in Nat
        /\ k = 0 \/ read.available[p] + k = n \div Goal[p]
        /\ n \div Goal[p] <= read.available[p] + k
        /\ (n \div Goal[p]) * Goal[p] <= n
        /\ shownRow \in CustomerPromotion
        /\ shownRow.progresoActual + Goal[p] * shownRow.recompensasGeneradas = n
        /\ shownRow.recompensasDisponibles = read.available[p] + k
    <3>1. /\ k \in Nat
          /\ n \in Nat
      <4>1. n \in Nat
        BY <1>3, <1>8 DEF Snapshot
      <4>2. k \in Nat
        BY <1>2, <1>3, <1>4, <1>8, NewIs
      <4> QED BY <4>1, <4>2
    <3>2. /\ read.available[p] \in Nat
          /\ n \div Goal[p] \in Nat
      <4>1. read.available[p] \in Nat
        BY DEF Snapshot
      <4>2. n \in Nat /\ Goal[p] \in Nat \ {0}
        BY <3>1, LoyaltyAssumption
      <4>3. n \div Goal[p] \in Nat
        BY <4>2, Quotient
      <4> QED BY <4>1, <4>3
    <3>3. k = 0 \/ read.available[p] + k = n \div Goal[p]
      BY <1>2, <1>3, <1>4, <1>8, NewIs
    <3>4. n \div Goal[p] <= read.available[p] + k /\ (n \div Goal[p]) * Goal[p] <= n
      BY <1>2, <1>3, <1>4, <1>8, NewIs
    <3>5. shownRow \in CustomerPromotion
      BY <1>4, <1>8, NewIs
    <3>6. shownRow.progresoActual + Goal[p] * shownRow.recompensasGeneradas = n
      BY <1>3, <1>4, <1>8, NewIs
    <3>7. shownRow.recompensasDisponibles = read.available[p] + k
      BY <1>2, <1>3, <1>4, <1>8, NewIs
    <3> QED BY <3>1, <3>2, <3>3, <3>4, <3>5, <3>6, <3>7
  <2> QED BY <1>5, <1>7, <2>1
<1>12. rt \in Nat /\ n = rt + q
  BY <1>3, <1>7 DEF Snapshot
<1>13. /\ Total(c, p)' = T + q
       /\ Bought(c, p, Len(sales))' = B + q
  <2> DEFINE more == UnitsMore(read, new, c, p)
  <2>1. Total(c, p)' = T + more /\ Bought(c, p, Len(sales))' = B + more
    BY CommitSums
  <2>2. more = q
    BY <1>1 DEF UnitsMore
  <2> HIDE DEF more
  <2> QED BY <2>1, <2>2
<1>14. progress'[c][p] = shownRow /\ shownRow # NoValue
  <2>1. progress'[c][p] = ProgressRow(read, p, new.eligible[p])
    BY DEF Committed
  <2> QED BY <1>1, <1>4, <1>11, <2>1, NoValueAssumption
<1>15. MoreFor(c, rewards[p], m, k, rewards'[p], row) /\ row.sale = Len(sales) + 1
  <2>1. /\ MoreFor(read.customer, rewards[p], Len(rewards[p]), Added(read, new, p), rewards'[p], row)
        /\ row.sale = Len(sales) + 1
    BY CommitRewards
  <2>2. Added(read, new, p) = k
    BY <1>1, <1>2 DEF Added
  <2> QED BY <1>6, <2>1, <2>2
<1> DEFINE E == EarnedBy(rewards[p], c)
           I == (m + 1)..(m + k)
<1>16. /\ EarnedBy(rewards'[p], c) = E \cup I
       /\ AvailableTo(rewards'[p], c) = AvailableTo(rewards[p], c) \cup I
       /\ m \in Nat /\ E \in SUBSET (1..m) /\ AvailableTo(rewards[p], c) \in SUBSET (1..m)
  <2>1. rewards[p] \in Seq(Reward)
    BY DEF Tables
  <2>2. m \in Nat /\ DOMAIN rewards[p] = 1..m
    BY <1>6, <2>1
  <2>3. E \in SUBSET (1..m) /\ AvailableTo(rewards[p], c) \in SUBSET (1..m)
    BY <2>2 DEF EarnedBy, AvailableTo
  <2> QED BY <1>15, <2>2, <2>3 DEF MoreFor
<1>17. /\ Earned(c, p) = E /\ Earned(c, p)' = E \cup I
       /\ A = Cardinality(AvailableTo(rewards[p], c))
       /\ Available(c, p)' = Cardinality(AvailableTo(rewards[p], c) \cup I)
  <2>1. /\ Earned(c, p) = EarnedBy(rewards[p], c) /\ Earned(c, p)' = EarnedBy(rewards'[p], c)
        /\ Available(c, p) = Cardinality(AvailableTo(rewards[p], c))
        /\ Available(c, p)' = Cardinality(AvailableTo(rewards'[p], c))
    BY DEF Earned, EarnedBy, Available, AvailableTo
  <2> QED BY <1>16, <2>1
<1>18. /\ Available(c, p)' = A + k
       /\ Cardinality(E) \in Nat /\ Cardinality(E \cup I) = Cardinality(E) + k
  <2>1. Cardinality(AvailableTo(rewards[p], c) \cup I) = Cardinality(AvailableTo(rewards[p], c)) + k
    BY <1>11, <1>16, CountMore
  <2>2. /\ Cardinality(E) \in Nat /\ Cardinality(E \cup I) = Cardinality(E) + k
    <3> HIDE DEF E
    <3> QED BY <1>11, <1>16, CountMore
  <2> QED BY <1>17, <2>1, <2>2
<1>19. NothingCancelled(c, p)' => NothingCancelled(c, p)
  BY CommitCancelsNothing
<1> HIDE DEF A, B, T, I, E
\* No more are available than the cycles ever completed.
<1>20. (A + k) * g <= B + q
  <2>1. A * g <= B
    BY <1>5 DEF KeptFor, A, B
  <2>2. CASE k = 0
    <3>1. A + k = A
      BY <1>9, <2>2
    <3>2. A * g \in Nat
      BY <1>9
    <3> QED BY <1>8, <1>9, <2>1, <3>1, <3>2
  <2>3. CASE ra + k = n \div g
    <3>1. PICK j \in Nat : j = n \div g
      BY <1>11
    <3>2. j * g <= n /\ ra + k = j
      BY <1>11, <2>3, <3>1
    <3>3. A + k <= j /\ A + k \in Nat
      BY <1>9, <1>10, <1>11, <3>2
    <3>4. (A + k) * g <= j * g /\ (A + k) * g \in Nat /\ j * g \in Nat
      <4>1. PICK x \in Nat : x = A + k
        BY <3>3
      <4>2. x <= j
        BY <3>3, <4>1
      <4>3. x * g <= j * g /\ x * g \in Nat /\ j * g \in Nat
        BY <1>9, <4>2
      <4> QED BY <4>1, <4>3
    <3>5. n <= B + q
      BY <1>8, <1>9, <1>10, <1>12
    <3> QED BY <1>8, <1>9, <1>11, <3>2, <3>4, <3>5
  <2> QED BY <1>11, <2>2, <2>3
\* The row shows the units of the snapshot and those of the sale.
<1>21. LET shown == shownRow.progresoActual + g * shownRow.recompensasGeneradas
       IN /\ shown >= T + q
          /\ NothingCancelled(c, p) => shown = T + q /\ shownRow.recompensasDisponibles = A + k
  <2>1. n >= T + q
    BY <1>8, <1>9, <1>10, <1>12
  <2>2. NothingCancelled(c, p) => n = T + q /\ ra + k = A + k
    BY <1>10, <1>12
  <2> QED BY <1>11, <2>1, <2>2
\* While nothing is cancelled, the rewards added are the cycles completed.
<1>22. ASSUME NothingCancelled(c, p)
       PROVE  /\ Cardinality(E \cup I) = (T + q) \div g
              /\ CycleNamed(rewards'[p], sales', c, p)
  <2>1. rt = T /\ ra = A /\ T = B
    BY <1>9, <1>10, <1>22
  <2>2. Cardinality(E) = T \div g /\ CycleNamed(rewards[p], sales, c, p)
    BY <1>5, <1>17, <1>22 DEF KeptFor, T
  <2>3. A = Cardinality(E)
    <3>1. AvailableTo(rewards[p], c) = EarnedBy(rewards[p], c)
      BY <1>22, NumbersTyped
    <3> QED BY <1>17, <3>1 DEF E
  <2>4. n = T + q /\ T <= n
    BY <1>8, <1>9, <1>12, <2>1
  <2>5. T \div g <= n \div g
    BY <1>9, <1>11, <2>4, CyclesGrow
  <2>6. PICK a \in Nat, j \in Nat : a = T \div g /\ j = n \div g
    BY <1>9, <1>11, Quotient
  <2>7. a = A /\ a = ra
    BY <2>1, <2>2, <2>3, <2>6
  <2>8. a + k = j
    BY <1>11, <2>5, <2>6, <2>7
  <2>9. Cardinality(E \cup I) = (T + q) \div g
    BY <1>18, <2>2, <2>4, <2>6, <2>8
  <2>10. T < (a + 1) * g
    BY <1>9, <2>6, Quotient
  <2>11. (a + k) * g <= T + q
    BY <1>11, <2>4, <2>6, <2>8
  <2>12. T = UnitsIn(sales, p, UpTo(sales, c, Len(sales)))
    <3>1. \A x : Bought(c, p, x) = UnitsIn(sales, p, UpTo(sales, c, x))
      BY SumsAre DEF Tables
    <3> QED BY <2>1, <3>1 DEF B
  <2>13. /\ EarnedBy(rewards'[p], c) = EarnedBy(rewards[p], c) \cup ((m + 1)..(m + k))
         /\ \A i \in 1..m : rewards'[p][i] = rewards[p][i]
         /\ \A i \in (m + 1)..(m + k) : rewards'[p][i].sale = Len(sales) + 1
    BY <1>15 DEF MoreFor
  <2>14. \A i \in EarnedBy(rewards[p], c) : rewards[p][i].sale \in 1..Len(sales)
    BY SalesTyped DEF Tables, EarnedBy
  <2>15. rewards[p] \in Seq(Reward)
    BY DEF Tables
  <2>16. a = Cardinality(EarnedBy(rewards[p], c))
    BY <2>2, <2>6 DEF E
  <2>17. CycleNamed(rewards'[p], sales', c, p)
    BY <1>1, <1>5, <1>6, <1>8, <1>9, <1>11, <2>2, <2>10, <2>11, <2>12, <2>13, <2>14, <2>15, <2>16, NamedMore
  <2> QED BY <2>9, <2>17
<1> QED BY <1>5, <1>13, <1>14, <1>17, <1>18, <1>19, <1>20, <1>21, <1>22 DEF KeptFor

\* A sale that commits keeps the invariant; the sales still open have lost their folio.
LEMMA CommitKeeps ==
  ASSUME LoyaltyInv, NEW t \in Tx, CommitSale(t)
  PROVE  LoyaltyInv'
<1>1. Tables /\ OpenSales /\ Drafts /\ AvailableBacked /\ ProgressShown /\ OneRewardPerCycle
  BY DEF LoyaltyInv
<1>2. PICK read \in Snapshot, new \in Sale, row \in Reward : Committed(t, read, new, row)
  BY <1>1, CommitIs
<1>3. Tables'
  BY <1>1, <1>2, CommitTables
<1>4. ASSUME NEW c \in Customer, NEW p \in Promotion PROVE KeptFor(c, p)'
  <2>1. KeptFor(c, p)
    BY <1>1, KeptSame DEF KeptIs
  <2>2. CASE c = read.customer /\ new.eligible[p] > 0
    BY <1>1, <1>2, <1>3, <2>1, <2>2, CommitEarns
  <2>3. CASE c # read.customer \/ ~ (new.eligible[p] > 0)
    BY <1>1, <1>2, <1>3, <2>1, <2>3, CommitLeaves
  <2> QED BY <2>2, <2>3
<1>5. AvailableBacked' /\ ProgressShown' /\ OneRewardPerCycle'
  BY <1>3, <1>4, KeptNext DEF KeptIs
<1>6. open' \in [Tx -> Snapshot \cup {NoValue}] /\ open'[t] = NoValue
      /\ \A u \in Tx : u # t => open'[u] = open[u]
  BY <1>1, <1>2 DEF Committed, OpenSales
<1>7. Len(sales) \in Nat /\ Len(sales') = Len(sales) + 1
  BY <1>1, <1>2, AppendProperties, SalesTyped DEF Tables, Committed
<1>8. ASSUME NEW u \in Tx, open'[u] # NoValue PROVE SnapshotOK(u)'
  <2>1. open'[u] = open[u] /\ open[u] \in Snapshot /\ SnapshotOK(u)
    BY <1>1, <1>6, <1>8 DEF OpenSales
  <2>2. open[u].sales <= Len(sales) /\ open[u].sales \in Nat
    BY <2>1 DEF SnapshotOK, Snapshot
  <2>3. open'[u].sales <= Len(sales') /\ ~ FolioFree(u)'
    BY <1>7, <2>1, <2>2 DEF FolioFree
  <2> QED BY <2>3 DEF SnapshotOK
<1>9. OpenSales'
  BY <1>6, <1>8 DEF OpenSales
<1>10. \A p \in Promotion : DOMAIN rewards[p] \subseteq DOMAIN rewards'[p]
  <2> SUFFICES ASSUME NEW p \in Promotion PROVE DOMAIN rewards[p] \subseteq DOMAIN rewards'[p]
    OBVIOUS
  <2>1. PICK k \in Nat : MoreFor(read.customer, rewards[p], Len(rewards[p]), k, rewards'[p], row)
    BY <1>1, <1>2, CommitRewards
  <2>2. PICK m : m = Len(rewards[p])
    OBVIOUS
  <2>3. m \in Nat /\ DOMAIN rewards'[p] = 1..(m + k)
    BY <2>1, <2>2 DEF MoreFor
  <2>4. DOMAIN rewards[p] = 1..m
    <3>1. rewards[p] \in Seq(Reward)
      BY <1>1 DEF Tables
    <3> QED BY <2>2, <3>1
  <2> QED BY <2>1, <2>3, <2>4
<1>11. drafts' = drafts
  BY <1>2 DEF Committed
<1>12. Drafts'
  BY <1>1, <1>10, <1>11, DraftsKept
<1> QED BY <1>3, <1>5, <1>9, <1>12 DEF LoyaltyInv

\* Every step of the system.
LEMMA LoyaltyNext ==
  ASSUME LoyaltyInv, [Next]_vars
  PROVE  LoyaltyInv'
<1>1. CASE Next
  <2>1. ASSUME NEW t \in Tx, NEW c \in Customer, BeginSale(t, c) PROVE LoyaltyInv'
    BY <2>1, BeginKeeps
  <2>2. ASSUME NEW t \in Tx, CommitSale(t) PROVE LoyaltyInv'
    BY <2>2, CommitKeeps
  <2>3. ASSUME NEW t \in Tx, RollBackSale(t) PROVE LoyaltyInv'
    BY <2>3, QuietKeeps DEF RollBackSale
  <2>4. ASSUME NEW s \in DOMAIN sales, CancelSale(s) PROVE LoyaltyInv'
    BY <2>4, CancelKeeps
  <2>5. ASSUME NEW p \in Promotion, NEW i \in DOMAIN rewards[p], NEW c \in Customer,
               Redeem(p, i, c) \/ CancelReward(p, i)
        PROVE  LoyaltyInv'
    BY <2>5, ReadingKeeps
  <2>6. ASSUME NEW p \in Promotion, NEW i \in DOMAIN rewards[p], CancelReward(p, i)
        PROVE  LoyaltyInv'
    BY <2>6, ReadingKeeps
  <2>7. ASSUME NEW d \in drafts, SaveReward(d) PROVE LoyaltyInv'
    BY <2>7, SavingKeeps
  <2>8. ASSUME NEW d \in drafts, LoseReward(d) PROVE LoyaltyInv'
    BY <2>8, QuietKeeps DEF LoseReward
  <2> QED BY <1>1, <2>1, <2>2, <2>3, <2>4, <2>5, <2>6, <2>7, <2>8 DEF Next
<1>2. CASE UNCHANGED vars
  BY <1>2, QuietKeeps DEF vars
<1> QED BY <1>1, <1>2

\* No sale, no reward and no row.
LEMMA LoyaltyInit ==
  ASSUME Init
  PROVE  LoyaltyInv
<1>1. /\ sales = <<>> /\ events = [p \in Promotion |-> <<>>] /\ rewards = [p \in Promotion |-> <<>>]
      /\ progress = [c \in Customer |-> [p \in Promotion |-> NoValue]]
      /\ open = [t \in Tx |-> NoValue] /\ drafts = {}
  BY DEF Init
<1>2. DOMAIN sales = {} /\ sales \in Seq(Sale)
  BY <1>1
<1>3. EventsOfSalesInForce
  <2> SUFFICES ASSUME NEW p \in Promotion
               PROVE  events[p] = [s \in {s \in DOMAIN sales : sales[s].estatus = "COMPLETADA"
                                            /\ sales[s].eligible[p] > 0} |-> sales[s].eligible[p]]
    BY DEF EventsOfSalesInForce
  <2>1. {s \in DOMAIN sales : sales[s].estatus = "COMPLETADA" /\ sales[s].eligible[p] > 0} = {}
    BY <1>2
  <2>2. events[p] = << >>
    BY <1>1
  <2>3. << >> = [s \in {} |-> sales[s].eligible[p]]
    OBVIOUS
  <2> QED BY <2>1, <2>2, <2>3
<1>4. rewards \in [Promotion -> Seq(Reward)] /\ \A p \in Promotion : DOMAIN rewards[p] = {}
  BY <1>1
<1>5. Tables
  BY <1>1, <1>2, <1>3, <1>4 DEF Tables
<1>6. OpenSales /\ Drafts
  BY <1>1 DEF OpenSales, Drafts
<1>7. ASSUME NEW c \in Customer, NEW p \in Promotion PROVE KeptFor(c, p)
  <2>1. InForce(sales, c) = {} /\ UpTo(sales, c, Len(sales)) = {}
    BY <1>2 DEF InForce, UpTo, To
  <2>2. Total(c, p) = 0 /\ Bought(c, p, Len(sales)) = 0
    <3>1. UnitsIn(sales, p, {}) = 0
      BY SumEmpty DEF UnitsIn
    <3>2. /\ Total(c, p) = UnitsIn(sales, p, InForce(sales, c))
          /\ \A n : Bought(c, p, n) = UnitsIn(sales, p, UpTo(sales, c, n))
      BY <1>2, <1>3, SumsAre
    <3> QED BY <2>1, <3>1, <3>2
  <2>3. EarnedBy(rewards[p], c) = {} /\ Earned(c, p) = {}
    BY <1>4 DEF EarnedBy, Earned
  <2>4. Cardinality({}) = 0
    BY FS_EmptySet
  <2>5. Available(c, p) = 0
    <3>1. AvailableTo(rewards[p], c) = {}
      BY <2>3 DEF AvailableTo
    <3> QED BY <1>5, <2>4, <3>1, NumbersTyped
  <2>6. Goal[p] \in Nat \ {0}
    BY LoyaltyAssumption
  <2>7. 0 \div Goal[p] = 0
    <3>1. PICK g \in Nat \ {0} : g = Goal[p]
      BY <2>6
    <3>2. PICK k : k = 0 \div g
      OBVIOUS
    <3>3. k \in Nat /\ k * g <= 0
      BY <3>2, Quotient
    <3>4. k = 0
      BY <3>3
    <3> QED BY <3>1, <3>2, <3>4
  <2>8. CycleNamed(rewards[p], sales, c, p)
    BY <2>3 DEF CycleNamed
  <2>9. progress[c][p] = NoValue
    BY <1>1
  <2>10. Available(c, p) * Goal[p] <= Bought(c, p, Len(sales))
    BY <2>2, <2>5, <2>6
  <2> QED BY <2>2, <2>3, <2>4, <2>7, <2>8, <2>9, <2>10 DEF KeptFor
<1>8. AvailableBacked /\ ProgressShown /\ OneRewardPerCycle
  BY <1>5, <1>7, KeptSame DEF KeptIs
<1> QED BY <1>5, <1>6, <1>8 DEF LoyaltyInv

\* The invariant holds in every state the system reaches.
THEOREM LoyaltyInvHolds == Spec => []LoyaltyInv
<1>1. Init => LoyaltyInv
  BY LoyaltyInit
<1>2. LoyaltyInv /\ [Next]_vars => LoyaltyInv'
  BY LoyaltyNext
<1> QED BY <1>1, <1>2, PTL DEF Spec

-----------------------------------------------------------------------------
\* What the tables of the loyalty programmes hold is of its type, a progress shown
\* is short of a cycle, and what is about to be saved is the edit of a reward there is.
THEOREM LoyaltyTyped == Spec => []LoyaltyTypeOK
<1>1. LoyaltyInv => LoyaltyTypeOK
  <2> SUFFICES ASSUME LoyaltyInv PROVE LoyaltyTypeOK
    OBVIOUS
  <2>1. Tables /\ Drafts
    BY DEF LoyaltyInv
  <2>2. ASSUME NEW p \in Promotion PROVE DOMAIN events[p] \subseteq DOMAIN sales
    <3>1. events[p] = EventsOf(sales, p)
      BY <2>1 DEF Tables, EventsOfSalesInForce, EventsOf
    <3>2. DOMAIN EventsOf(sales, p) \subseteq DOMAIN sales
      BY DEF EventsOf
    <3> QED BY <3>1, <3>2
  <2>3. ASSUME NEW d \in drafts PROVE d[2] \in DOMAIN rewards[d[1]] /\ d[3] \in RewardStatus
    <3>1. PICK p \in Promotion : \E i \in DOMAIN rewards[p], e \in {"CANJEADA", "CANCELADA"} : d = <<p, i, e>>
      BY <2>1 DEF Drafts
    <3>2. PICK i \in DOMAIN rewards[p], e \in {"CANJEADA", "CANCELADA"} : d = <<p, i, e>>
      BY <3>1
    <3> QED BY <3>2 DEF RewardStatus
  <2>4. /\ sales \in Seq(Sale) /\ rewards \in [Promotion -> Seq(Reward)]
        /\ progress \in [Customer -> [Promotion -> CustomerPromotion \cup {NoValue}]]
        /\ \A c \in Customer, p \in Promotion :
             progress[c][p] # NoValue => progress[c][p].progresoActual < Goal[p]
    BY <2>1 DEF Tables
  <2> QED BY <2>2, <2>3, <2>4 DEF LoyaltyTypeOK
<1> QED BY <1>1, LoyaltyInvHolds, PTL

\* A sale counts towards a programme exactly while it is in force: create() and
\* cancel() of a sale keep its events with it.
THEOREM EventsStayWithSales == Spec => []EventsOfSalesInForce
<1>1. LoyaltyInv => EventsOfSalesInForce
  BY DEF LoyaltyInv, Tables
<1> QED BY <1>1, LoyaltyInvHolds, PTL

\* However the sales of a customer overlap, applySale() never makes more rewards
\* available than the units bought complete cycles.
THEOREM AvailableAreBacked == Spec => []AvailableBacked
<1>1. LoyaltyInv => AvailableBacked
  BY DEF LoyaltyInv
<1> QED BY <1>1, LoyaltyInvHolds, PTL

\* The progress applySale() writes from its snapshot never understates the units in
\* force, and is exact while nothing is cancelled.
THEOREM ProgressIsShown == Spec => []ProgressShown
<1>1. LoyaltyInv => ProgressShown
  BY DEF LoyaltyInv
<1> QED BY <1>1, LoyaltyInvHolds, PTL

\* While nothing of a customer is cancelled, each cycle completed has one reward,
\* which names the sale that completed it.
THEOREM OneRewardEachCycle == Spec => []OneRewardPerCycle
<1>1. LoyaltyInv => OneRewardPerCycle
  BY DEF LoyaltyInv
<1> QED BY <1>1, LoyaltyInvHolds, PTL
=============================================================================
