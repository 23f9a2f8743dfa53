SPECIFICATION FairSpec
CONSTANTS
  Ports = {0, 1, 2, 3}
  RxSize <- const_RxSize
  Data <- const_Data
  Lines <- const_Lines
  Words <- const_Words
  Numbers <- const_Numbers
  Limits = {2, 5}
  MaxLost = 1
INVARIANTS RxInv InputIntact
PROPERTIES ImplementsQueue PeekHolds EverythingRead
