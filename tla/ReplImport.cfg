SPECIFICATION FairSpec
CONSTANTS
  rt = rt
  a = a
  b = b
  c = c
  Fail = Fail
  NoPath = NoPath
  Paths <- MCPaths
  Contents <- MCContents
  Disks <- MCDisks
  MaxEdits = 1
  Injected <- MCInjected
  ImplicitDeps <- MCImplicit
  RootImports <- MCRoots
  AliasOf <- MCAliasOf
  Specs <- MCSpecs
  MaxImports = 3
INVARIANTS
  LoadOrderSound
  CyclesExact
  PackagesSound
  BindingsSound
PROPERTIES
  TurnEnds
CHECK_DEADLOCK FALSE
