SPECIFICATION Spec

CONSTANTS
  t1 = t1
  t2 = t2
  i1 = i1
  i2 = i2
  k1 = k1
  lo = lo
  hi = hi
  None = None
  Tickets <- OneTicket
  Values <- TwoValues
  Loops <- TwoLoops
  Sets <- OneSet

PROPERTIES
  DisplaySettles
