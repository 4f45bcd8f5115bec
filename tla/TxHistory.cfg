SPECIFICATION TxSpec
CONSTANTS
  p1 = p1 p2 = p2 p3 = p3 c1 = c1 b1 = b1 b2 = b2 t1 = t1 t2 = t2
  Product = {p1}
  Customer = {c1}
  Business = {b1}
  BusinessOf <- OneTenant
  NoCustomer = NoCustomer
  NoValue = NoValue
  Tx = {t1, t2}
  Kinds = {"customer", "cancel", "payment", "edit", "adjustment"}
  Totals = {1}
  PaymentAmounts = {2}
  MaxUnits = 1
  StockLimit = 1
  BalanceLimit = 1
  MaxMovements = 4
  MaxAccountRows = 3
  MaxPayments = 1
  MaxSales = 1
SYMMETRY AnyConnection
INVARIANTS PaymentsInAccount SaleInMovements SaleInAccount
PROPERTIES HistoryImmutable
