CONSTANTS
  Msgs = {m1, m2}
  MaxSends = 4
  Lengths <- MCLengths
  Limits <- MCLimits
  Period = 3
  MaxLag = 1
  RetryWait = 1
  MaxLosses = 1
  None = None
SPECIFICATION FairSpec
INVARIANTS
  TypeOK
  WithinLimits
PROPERTIES
  LetThrough
