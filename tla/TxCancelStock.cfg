SPECIFICATION TxSpec
CONSTANTS
  p1 = p1 p2 = p2 p3 = p3 c1 = c1 b1 = b1 b2 = b2 t1 = t1 t2 = t2
  Product = {p1}
  Customer = {c1}
  Business = {b1}
  BusinessOf <- OneTenant
  NoCustomer = NoCustomer
  NoValue = NoValue
  Tx = {t1, t2}
  Kinds = {"walkin", "cancel", "entry", "adjustment"}
  Totals = {1}
  PaymentAmounts = {2}
  MaxUnits = 2
  StockLimit = 2
  BalanceLimit = 2
  MaxMovements = 4
  MaxAccountRows = 3
  MaxPayments = 1
  MaxSales = 1
PROPERTIES CancelReturnsStock
CHECK_DEADLOCK FALSE
