CONSTANTS
  s1 = s1
  s2 = s2
  c1 = c1
  c2 = c2
  g1 = g1
  g2 = g2
  Nobody = Nobody
  None = None
  MaxPid = 1
  InboxRoom = 0
  Schedulers <- MCSchedulers
  Callers <- MCOneCaller
  Setters <- MCSetters
  SpawnClasses <- MCSpawnClasses
  ThermalReports <- MCColdOrCritical
  BatteryReports <- MCEmpty
SPECIFICATION FairSpec
INVARIANTS
  ThrottlingAgrees
PROPERTIES
  LimitTakesEffect
  WorkConserving
