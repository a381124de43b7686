SPECIFICATION Spec

CONSTANTS
  m = m
  s = s
  h1 = h1
  h2 = h2
  event = event
  undefined = undefined
  None = None
  Handles <- AllHandles
  Values <- AllValues
  Constants <- OneConstant
  Constant <- FirstSlots
  Reserved = 1
  Closures <- TwoClosures
  Mutable <- OneMutable
  MaxDepth = 3

SYMMETRY Symmetry

INVARIANTS
  TypeOK
  RunsAlive
  RunsAlone
  FreedOnce
  NoLeak
PROPERTIES
  IndependentRefs
  GrowsWhenFull
