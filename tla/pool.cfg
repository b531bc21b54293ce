CONSTANTS
  Tasks = {t1, t2}
  Accounts = {a1, a2}
  MaxConns = 3
  MaxStray = 1
  Ttl = 1
  None = None
SPECIFICATION FairSpec
INVARIANTS
  TypeOK
  ExclusiveUse
  RightAccount
  NoConnectionLost
PROPERTIES
  IdleConnectionsClose
