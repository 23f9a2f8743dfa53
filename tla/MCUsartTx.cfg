SPECIFICATION FairSpec
CONSTANTS
  c1 = c1
  c2 = c2
  Clients <- MCClients
  TxSize <- MCTxSize
  Texts <- MCTexts
  Ports = {0, 1, 2, 3}
  FastPorts = {1, 3}
  MaxBytes = 4
  Serialised = TRUE
  MaskedCalls = FALSE
  Undrained = FALSE
INVARIANTS TxInv SentInOrder InterruptFlagKept
PROPERTIES ImplementsQueue CallsReturn EveryByteSent
