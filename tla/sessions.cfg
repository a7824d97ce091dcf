CONSTANTS
  r1 = r1
  r2 = r2
  ann = ann
  bob = bob
  t1 = t1
  t2 = t2
  Request = {r1, r2}
  Name = {ann, bob}
  Token = {t1, t2}
  NoName = NoName
  NoToken = NoToken
  ProxyNames = {bob}
  TTL = 2
  TouchEvery = 1
  MaxTime = 2
SYMMETRY MCSymmetry
CONSTRAINT CookieOrProxy
SPECIFICATION Spec
INVARIANTS EndedSessionStaysEnded AnonymousAccountsAreFirst RegisterKeepsCaller UseExtendsSession
