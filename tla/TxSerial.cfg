SPECIFICATION FairSpec
CONSTANTS
  p1 = p1 p2 = p2 p3 = p3 b2 = b2 c1 = c1 b1 = b1 t1 = t1 t2 = t2
  Product = {p1, p2, p3}
  Customer = {}
  Business = {b1, b2}
  BusinessOf <- TwoTenants
  NoCustomer = NoCustomer
  NoValue = NoValue
  Tx = {t1, t2}
  Kinds = {"walkin", "entry"}
  Totals = {1}
  PaymentAmounts = {2}
  MaxUnits = 1
  StockLimit = 1
  BalanceLimit = 2
  MaxMovements = 2
  MaxAccountRows = 0
  MaxPayments = 1
  MaxSales = 2
INVARIANTS TxTypeOK FoliosReserved FoliosGapless SaleInMovements TenantIsolation
PROPERTIES Serializable EveryRequestEnds
CHECK_DEADLOCK FALSE
