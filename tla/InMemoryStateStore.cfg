SPECIFICATION Spec
CONSTANTS
  c1 = c1
  c2 = c2
  w1 = w1
  w2 = w2
  r1 = r1
  v1 = v1
  v2 = v2
  None = None
  Callers <- MCCallers
  Keys <- MCKeys
  Values <- MCValues
  Prefixes <- MCPrefixes
  Family <- MCFamily
  Limits <- MCLimits
INVARIANT TypeOK
PROPERTY ImplementsStateStore
