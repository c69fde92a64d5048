SPECIFICATION FairSpec
CONSTANTS
  p1 = p1
  p2 = p2
  m1 = m1
  m2 = m2
  m3 = m3
  Providers <- MCProviders
  Commands <- MCCommands
  MaxRefs = 4
  MaxEdits = 1
  MaxStarts = 1
  MaxFailures = 1
  Shapes <- MCShapes
CHECK_DEADLOCK FALSE
INVARIANTS
  NoDanglingReference
  SecretsAccounted
  ViewsConsistent
PROPERTIES
  Converges
