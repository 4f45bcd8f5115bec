SPECIFICATION Spec
CONSTANTS
  c1 = c1 c2 = c2 c3 = c3 p1 = p1 p2 = p2 b1 = b1 b2 = b2 n1 = n1 n2 = n2
  k1 = k1 i1 = i1 i2 = i2 r1 = r1 r2 = r2
  Category = {c1, c2, c3}
  Product = {p1, p2}
  Business = {b1, b2}
  BusinessOf <- TwoTenants
  Name = {n1, n2}
  Sku = {k1}
  Uuid = {i1, i2}
  Request = {r1, r2}
  NoValue = NoValue
SYMMETRY Alike
CONSTRAINT FewAtOnce
INVARIANTS ImagesTypeOK KeysUnique CategoryInUse NoFileLeft
PROPERTIES ImageKept
CHECK_DEADLOCK FALSE
