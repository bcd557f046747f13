CONSTANTS
  s1 = s1
  s2 = s2
  c1 = c1
  c2 = c2
  g1 = g1
  g2 = g2
  Nobody = Nobody
  None = None
  MaxPid = 2
  InboxRoom = 1
  Schedulers <- MCSchedulers
  Callers <- MCCallers
  Setters <- MCOneSetter
  SpawnClasses <- MCSpawnClasses
  ThermalReports <- MCHot
  BatteryReports <- MCBatteries
SPECIFICATION Spec
INVARIANTS
  TypeOK
  OneTicket
  ClassKept
  FullQuantum
PROPERTIES
  ImplementsPool
SYMMETRY
  MCSymmetry
