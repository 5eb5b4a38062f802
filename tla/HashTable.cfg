SPECIFICATION Spec
CONSTANTS
  a = a
  a2 = a2
  b = b
  c = c
  d = d
  NoKey = NoKey
  NoVal = NoVal
  Keys <- MCKeys
  Vals <- MCVals
  Stored <- MCStored
  Ident <- MCIdent
  Hashers <- MCHashers
  InitialCap = 4
INVARIANTS
  TableSound
  CursorExact
PROPERTIES
  ImplementsKeyedMap
