SPECIFICATION Spec
CONSTANTS
  u1 = u1 u2 = u2 b1 = b1 b2 = b2 w1 = w1 w2 = w2 r1 = r1 r2 = r2 s1 = s1 s2 = s2 s3 = s3
  User = {u1, u2}
  Business = {b1, b2}
  FirstBusiness = b1
  FirstUsers = {u1}
  Administrators = {u1}
  PlatformAdmins = {u1}
  Password = {w1}
  Request = {r1, r2}
  Session = {s1, s2, s3}
  NoValue = NoValue
CONSTRAINT FewAtOnce
SYMMETRY AnyRequestOrId
INVARIANTS SessionsTypeOK StrangersStayOut
PROPERTIES SessionsLive
CHECK_DEADLOCK FALSE
