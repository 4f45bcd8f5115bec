------------------------------- MODULE Loyalty -------------------------------
(***************************************************************************)
(* Loyalty programmes (src/promotions/rewards.service.ts): the units a     *)
(* customer has bought under each one (progreso_lealtad_ventas), the       *)
(* rewards they earned (recompensas) and the running count shown to the    *)
(* customer (cliente_promociones).  A sale to a customer is a transaction  *)
(* whose first read, exists() on the customer, fixes what all its later    *)
(* plain reads see; rewards are redeemed and cancelled with no transaction.*)
(***************************************************************************)
EXTENDS Integers, Sequences, FiniteSets, Functions

CONSTANTS Customer,     \* customers of one business
          Promotion,    \* its active LEALTAD promotions that require a customer
          Goal,         \* cantidadObjetivo of each
          Tx,           \* connections that run sales
          MaxEligible,  \* bound: units one sale adds to a programme
          MaxSales,     \* bound: sales ever made
          MaxRewards,   \* bound: rewards of one programme
          NoValue       \* no transaction, no row

ASSUME LoyaltyAssumption ==
  /\ Goal \in [Promotion -> Nat \ {0}]
  /\ MaxEligible \in Nat
  /\ MaxSales \in Nat
  /\ MaxRewards \in Nat

VARIABLES sales,     \* the committed sales to customers, in order
          events,    \* for each promotion, the units of each sale that counts
          rewards,   \* for each promotion, the rewards in the order of their ids
          progress,  \* the row of each customer and promotion, if there is one
          open,      \* what each open sale transaction has read
          drafts     \* rewards read by redeem() or cancel() and not yet saved

vars == <<sales, events, rewards, progress, open, drafts>>

RewardStatus == {"DISPONIBLE", "CANJEADA", "CANCELADA"}  \* nothing sets EXPIRADA

\* eligible is what the scope of each promotion makes of the sale's lines; zero
\* where no line is in scope, or the promotion was not active.
Sale == [customer : Customer, eligible : [Promotion -> 0..MaxEligible],
         estatus : {"COMPLETADA", "CANCELADA"}]

Reward == [customer : Customer, estatus : RewardStatus, sale : 1..MaxSales]

CustomerPromotion == [progresoActual : Nat, recompensasGeneradas : Nat,
                      recompensasDisponibles : Nat]

\* No row of the table is the sign that there is none.
ASSUME NoValueAssumption == NoValue \notin CustomerPromotion

Init ==
  /\ sales = <<>>
  /\ events = [p \in Promotion |-> <<>>]
  /\ rewards = [p \in Promotion |-> <<>>]
  /\ progress = [c \in Customer |-> [p \in Promotion |-> NoValue]]
  /\ open = [t \in Tx |-> NoValue]
  /\ drafts = {}

-----------------------------------------------------------------------------
SalesTo(c) == {s \in DOMAIN sales : sales[s].customer = c}
Total(c, p) == SumFunction(Restrict(events[p], DOMAIN events[p] \cap SalesTo(c)))
Earned(c, p) == {i \in DOMAIN rewards[p] : rewards[p][i].customer = c}
Available(c, p) == Cardinality({i \in Earned(c, p) : rewards[p][i].estatus = "DISPONIBLE"})

\* The snapshot, as far as applySale() and nextFolio() look at it.
BeginSale(t, c) ==
  /\ open[t] = NoValue
  /\ open' = [open EXCEPT ![t] =
       [customer |-> c, sales |-> Len(sales),
        total |-> [p \in Promotion |-> Total(c, p)],
        available |-> [p \in Promotion |-> Available(c, p)]]]
  /\ UNCHANGED <<sales, events, rewards, progress, drafts>>

\* Mutant: the folio need not be unique.
FolioAlwaysFree(t) == TRUE

\* The folio counts the sales of the snapshot, and the unique key lets no sale
\* of the business have committed since.
FolioFree(t) == Len(sales) = open[t].sales

\* Mutant: every cycle completed is rewarded again.
NewRewardsAll(read, p, cantidad) == (read.total[p] + cantidad) \div Goal[p]

\* As many rewards as the completed cycles exceed the available ones by.
NewRewards(read, p, cantidad) ==
  LET generated == (read.total[p] + cantidad) \div Goal[p] IN
  IF generated > read.available[p] THEN generated - read.available[p] ELSE 0

\* Mutant: the row counts what was there before the sale.
ProgressRowLate(read, p, cantidad) ==
  [progresoActual |-> read.total[p] % Goal[p],
   recompensasGeneradas |-> read.total[p] \div Goal[p],
   recompensasDisponibles |-> read.available[p]]

\* Mutant: the count starts no new cycle.
ProgressRowWhole(read, p, cantidad) ==
  [progresoActual |-> read.total[p] + cantidad,
   recompensasGeneradas |-> (read.total[p] + cantidad) \div Goal[p],
   recompensasDisponibles |-> read.available[p] + NewRewards(read, p, cantidad)]

\* The row read is the current one, as only sales write it and none has
\* committed since.
ProgressRow(read, p, cantidad) ==
  [progresoActual |-> (read.total[p] + cantidad) % Goal[p],
   recompensasGeneradas |-> (read.total[p] + cantidad) \div Goal[p],
   recompensasDisponibles |-> read.available[p] + NewRewards(read, p, cantidad)]

\* applySale() as the sale that calls it commits.
CommitSale(t) ==
  \E eligible \in [Promotion -> 0..MaxEligible] :
     LET read == open[t]
         c == read.customer
         id == Len(sales) + 1
         counted == {p \in Promotion : eligible[p] > 0}
         New(p) == IF p \in counted THEN NewRewards(read, p, eligible[p]) ELSE 0
     IN /\ read # NoValue
        /\ FolioFree(t)
        /\ Len(sales) < MaxSales
        /\ \A p \in Promotion : Len(rewards[p]) + New(p) <= MaxRewards
        /\ sales' = Append(sales, [customer |-> c, eligible |-> eligible,
                                   estatus |-> "COMPLETADA"])
        /\ events' = [p \in Promotion |->
             IF p \in counted
             THEN [s \in DOMAIN events[p] \cup {id} |-> IF s = id THEN eligible[p] ELSE events[p][s]]
             ELSE events[p]]
        /\ rewards' = [p \in Promotion |->
             rewards[p] \o [i \in 1..New(p) |-> [customer |-> c, estatus |-> "DISPONIBLE", sale |-> id]]]
        /\ progress' = [progress EXCEPT ![c] =
             [p \in Promotion |-> IF p \in counted THEN ProgressRow(read, p, eligible[p]) ELSE @[p]]]
        /\ open' = [open EXCEPT ![t] = NoValue]
        /\ UNCHANGED drafts

\* A duplicate folio, any other refusal of the sale, a lost connection.
RollBackSale(t) ==
  /\ open[t] # NoValue
  /\ open' = [open EXCEPT ![t] = NoValue]
  /\ UNCHANGED <<sales, events, rewards, progress, drafts>>

\* Mutant: the cancellation keeps the loyalty of the sale.
CancelSaleKeepingEvents(s) ==
  /\ sales[s].estatus = "COMPLETADA"
  /\ sales' = [sales EXCEPT ![s].estatus = "CANCELADA"]
  /\ UNCHANGED <<events, rewards, progress, open, drafts>>

\* cancel() of a sale calls rollbackSale(), which deletes its events and leaves
\* the rewards and the progress they led to.
CancelSale(s) ==
  /\ sales[s].estatus = "COMPLETADA"
  /\ sales' = [sales EXCEPT ![s].estatus = "CANCELADA"]
  /\ events' = [p \in Promotion |-> Restrict(events[p], DOMAIN events[p] \ {s})]
  /\ UNCHANGED <<rewards, progress, open, drafts>>

-----------------------------------------------------------------------------
\* A BIGINT column comes back from TypeORM as a string and the DTO makes the
\* request's id a number: !== finds them different whoever they name.
StoredId(c) == <<"string", c>>
RequestedId(c) == <<"number", c>>

\* redeem() refuses (REWARD_NOT_AVAILABLE) or goes on to save what it read.
Redeem(p, i, c) ==
  /\ IF /\ StoredId(rewards[p][i].customer) = RequestedId(c)
        /\ rewards[p][i].estatus = "DISPONIBLE"
     THEN drafts' = drafts \cup {<<p, i, "CANJEADA">>}
     ELSE UNCHANGED drafts
  /\ UNCHANGED <<sales, events, rewards, progress, open>>

\* cancel() of a reward, up to its save.
CancelReward(p, i) ==
  /\ rewards[p][i].estatus = "DISPONIBLE"
  /\ drafts' = drafts \cup {<<p, i, "CANCELADA">>}
  /\ UNCHANGED <<sales, events, rewards, progress, open>>

SaveReward(d) ==
  /\ rewards' = [rewards EXCEPT ![d[1]][d[2]].estatus = d[3]]
  /\ drafts' = drafts \ {d}
  /\ UNCHANGED <<sales, events, progress, open>>

\* The process stops between the read and the save.
LoseReward(d) ==
  /\ drafts' = drafts \ {d}
  /\ UNCHANGED <<sales, events, rewards, progress, open>>

Next ==
  \/ \E t \in Tx :
        \/ \E c \in Customer : BeginSale(t, c)
        \/ CommitSale(t)
        \/ RollBackSale(t)
  \/ \E s \in DOMAIN sales : CancelSale(s)
  \/ \E p \in Promotion : \E i \in DOMAIN rewards[p] :
        \/ \E c \in Customer : Redeem(p, i, c)
        \/ CancelReward(p, i)
  \/ \E d \in drafts : SaveReward(d) \/ LoseReward(d)

Spec == Init /\ [][Next]_vars

-----------------------------------------------------------------------------
\* What the tables hold; the progress shown is always short of a cycle.
LoyaltyTypeOK ==
  /\ sales \in Seq(Sale)
  /\ \A p \in Promotion : DOMAIN events[p] \subseteq DOMAIN sales
  /\ rewards \in [Promotion -> Seq(Reward)]
  /\ progress \in [Customer -> [Promotion -> CustomerPromotion \cup {NoValue}]]
  /\ \A c \in Customer, p \in Promotion :
       progress[c][p] # NoValue => progress[c][p].progresoActual < Goal[p]
  /\ \A d \in drafts : d[2] \in DOMAIN rewards[d[1]] /\ d[3] \in RewardStatus

Bought(c, p, s) == SumFunction([r \in {r \in SalesTo(c) : r <= s} |-> sales[r].eligible[p]])

\* No more rewards are available than the cycles the customer ever completed,
\* cancelled sales included, though two of its sales overlap: each counts the
\* rewards of its own snapshot, and only the folio keeps one from committing.
AvailableBacked ==
  \A c \in Customer, p \in Promotion : Available(c, p) * Goal[p] <= Bought(c, p, Len(sales))

\* A sale counts towards a programme exactly while it is in force, with the
\* units it was recorded with: create() and cancel() keep the two tables together.
EventsOfSalesInForce ==
  \A p \in Promotion :
     events[p] = [s \in {s \in DOMAIN sales : sales[s].estatus = "COMPLETADA"
                                                /\ sales[s].eligible[p] > 0} |-> sales[s].eligible[p]]

NothingCancelled(c, p) ==
  /\ \A s \in SalesTo(c) : sales[s].estatus = "COMPLETADA"
  /\ \A i \in Earned(c, p) : rewards[p][i].estatus = "DISPONIBLE"

\* While nothing is cancelled, each completed cycle has one reward, and it names
\* the sale that completed it (docs/promotions-loyalty-rules.md:5).
OneRewardPerCycle ==
  \A c \in Customer, p \in Promotion :
     NothingCancelled(c, p) =>
        /\ Cardinality(Earned(c, p)) = Total(c, p) \div Goal[p]
        /\ \A i \in Earned(c, p) :
              LET cycle == Cardinality({j \in Earned(c, p) : j <= i})
                  s == rewards[p][i].sale
              IN Bought(c, p, s - 1) < cycle * Goal[p] /\ cycle * Goal[p] <= Bought(c, p, s)

\* The progress a customer is shown never understates the units in force, and is
\* exact while nothing is cancelled, though it is written from a snapshot.
ProgressShown ==
  \A c \in Customer, p \in Promotion :
     LET row == progress[c][p]
         shown == row.progresoActual + Goal[p] * row.recompensasGeneradas
     IN IF row = NoValue THEN Total(c, p) = 0
        ELSE /\ shown >= Total(c, p)
             /\ NothingCancelled(c, p) =>
                  shown = Total(c, p) /\ row.recompensasDisponibles = Available(c, p)

\* The available rewards are backed by the sales in force: cancelling a sale
\* cancels those that no longer are (docs/promotions-loyalty-rules.md:7).
RewardsOfSalesInForce ==
  \A c \in Customer, p \in Promotion : Available(c, p) * Goal[p] <= Total(c, p)
=============================================================================
