SPECIFICATION Spec
CONSTANTS
  Period = 4
  TickUs = 256
  Word = 2048
  MaxTicks = 8300
  LongMask = TRUE
INVARIANT GetUsExact
