SPECIFICATION Spec
CONSTANTS
  p1 = p1 c1 = c1 b1 = b1 b2 = b2
  Product = {p1}
  Customer = {c1}
  Business = {b1, b2}
  BusinessOf <- OneTenant
  NoCustomer = NoCustomer
  Totals <- SomeTotals
  PaymentAmounts <- HalfCents
  MaxUnits = 1
  StockLimit = 2
  BalanceLimit = 4
  MaxMovements = 4
  MaxAccountRows = 4
  MaxPayments = 2
  MaxSales = 2
INVARIANTS TypeOK BalanceFollowsAccount PaymentsInAccount SaleInAccount DebtExplained
  StockFollowsMovements MovementDirection SaleInMovements TenantIsolation
