CONSTANTS
  h1 = h1
  h2 = h2
  h3 = h3
  i1 = i1
  i2 = i2
  i3 = i3
  Handles <- MCHandles
  Impls <- MCImpls
SPECIFICATION LifeSpec
CHECK_DEADLOCK FALSE
INVARIANT NoNullImplDeref
