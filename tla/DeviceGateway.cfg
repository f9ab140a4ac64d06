SPECIFICATION Spec
CONSTANTS
  c1 = c1
  c2 = c2
  m1 = m1
  m2 = m2
  u1 = u1
  qq = qq
  tg = tg
  Conns = {c1, c2}
  Machines = {m1, m2}
  Users = {u1}
  Platforms = {qq, tg}
  UserOf <- MCUserOf
  NoConn = NoConn
  NoMachine = NoMachine
  NoUser = NoUser
  MaxClaims <- MCMaxClaims
INVARIANTS
  RegistryIsLive
  OnlineHasConnection
  ClaimHasConnection
CHECK_DEADLOCK FALSE
