SPECIFICATION Spec
CONSTANTS
  c1 = c1  c2 = c2  c3 = c3  n1 = n1  p1 = p1  k1 = k1  k2 = k2  t1 = t1
  Callers = {c1, c2}
  Notes = {}
  Probes = {}
  Reaper = Reaper
  IdOf <- OwnIds
  Unencodable = {}
  Keys = {k1}
  KeyOf <- TwoServers
  Tenants = {t1}
  TenantOf <- OneTenant
  MaxProcesses <- LimitTwo
  MaxBridges = 1
  NoKey = NoKey
  Ttl = 2
  HealthChecked = {}
CHECK_DEADLOCK FALSE
INVARIANT NoStrayProcess
