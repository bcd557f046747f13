CONSTANTS
  s1 = s1
  s2 = s2
  c1 = c1
  c2 = c2
  g1 = g1
  g2 = g2
  Nobody = Nobody
  None = None
  MaxPid = 1
  InboxRoom = 1
  Schedulers <- MCOneScheduler
  Callers <- MCOneCaller
  Setters <- MCSetters
  SpawnClasses <- MCRealtime
  ThermalReports <- MCColdOrHot
  BatteryReports <- MCBatteryReports
SPECIFICATION Spec
INVARIANTS
  FlagFollowsState
