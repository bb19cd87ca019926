SPECIFICATION Spec
CONSTANTS
  c1 = c1  c2 = c2  c3 = c3  n1 = n1  p1 = p1  k1 = k1  k2 = k2  t1 = t1
  Callers = {c1, c2}
  Notes = {n1}
  Probes = {p1}
  Reaper = Reaper
  IdOf <- SameIds
  Unencodable = {c1}
  Keys = {k1, k2}
  KeyOf <- TwoServers
  Tenants = {t1}
  TenantOf <- OneTenant
  MaxProcesses <- LimitOne
  MaxBridges = 2
  NoKey = NoKey
  Ttl = 1
  HealthChecked = {k1}
CHECK_DEADLOCK FALSE
INVARIANTS
  TypeOK
  CapacityKept
  ClosedIsOutOfTable
PROPERTY DropsOnlyTheIdle
