SPECIFICATION Spec
CONSTANTS
  c1 = c1 c2 = c2 pr1 = pr1 pr2 = pr2 t1 = t1 t2 = t2
  Customer = {c1, c2}
  Promotion = {pr1}
  Goal <- TwoUnits
  Tx = {t1, t2}
  MaxEligible = 2
  MaxSales = 3
  MaxRewards = 4
  NoValue = NoValue
SYMMETRY AnyTxOrCustomer
INVARIANTS LoyaltyTypeOK AvailableBacked EventsOfSalesInForce OneRewardPerCycle ProgressShown
