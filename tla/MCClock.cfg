SPECIFICATION Spec
CONSTANTS
  Period = 4
  TickUs = 256
  Word = 2048
  MaxTicks = 8300
  LongMask = FALSE
INVARIANTS ClockInv GetUsExact MsExact UptimeMs
