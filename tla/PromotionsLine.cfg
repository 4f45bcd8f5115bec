SPECIFICATION Spec
CONSTANTS
  p1 = p1 p2 = p2 k1 = k1 k2 = k2 unknown = unknown
  Product = {p1, p2}
  Category = {k1, k2}
  CategoryOf <- TwoCategories
  PrecioVenta <- TwoPrices
  Definition <- TwoDiscounts
  Unknown = unknown
  Lists <- OneLine
  Keep = Keep
  Quantity <- One
  MaxPromotions = 2
  MaxSales = 1
CONSTRAINT BeforeSale
INVARIANTS LineNeverBelowZero
CHECK_DEADLOCK FALSE
