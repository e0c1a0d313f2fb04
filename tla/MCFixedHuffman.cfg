CONSTANTS
  Payloads <- MCPayloads
  End = 100
  irq_threshold = 4
  MaxReceive = 44
  Rooms <- MCRooms
  WordSize = 4096
  TableBits = 3
  MaxLen = 5
  HuffBits = 4
  Stripe = 4
SPECIFICATION FixedSpec
INVARIANT FixedCorrect
