SPECIFICATION Spec
CONSTANTS
  QSize = 1
  MaxCid <- MCMaxCid
  NumNs = 2
  NumBlocks = 5
  U32 = 4
  Page = 1
  PrpCap = 3
  XferSizes = {3}
  TableEnd = 4
  BlobEnd = 8
  PayloadLbas = {1}
  SecondUs = 0
INVARIANTS QueuesSound DataInOrder
PROPERTIES WaitEnds
