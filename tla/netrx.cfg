CONSTANTS
  LEN = 3
  NULL = NULL
  MaxPackets = 6
SPECIFICATION Spec
INVARIANTS RxTypeOK PacketsInOrder CreditsCoverPackets
PROPERTIES HeldBufferKept RefinesLossyQueue
