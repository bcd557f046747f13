CONSTANTS
  m = m
  n = n
  f = f
  g = g
  v1 = v1
  v2 = v2
  v3 = v3
  v4 = v4
  w1 = w1
  l1 = l1
  l2 = l2
  None = None
  Names <- MCNames
  Keys <- MCKeys
  Versions <- MCVersions
  NameOf <- MCNameOf
  Exports <- MCExports
  Loaders <- MCLoaders
SPECIFICATION Spec
INVARIANTS
  NewCallsUseNewCode
