SPECIFICATION Spec

CONSTANTS
  k1 = k1
  k2 = k2
  None = None
  Keys <- TwoKeys
  SntpRetries = 2
  WindowLoss = FALSE
  ReadErrors = TRUE

INVARIANTS
  IdentityStable
