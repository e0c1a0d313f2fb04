SPECIFICATION Spec
CONSTANTS
  NumBlocks = 8
  Seg = 2
  RequestSize = 3
  DescCap = 3
  TableEnd = 4
  BlobEnd = 11
  PayloadLbas = {1}
  MaxPolls = 1
INVARIANTS RequestsSound DataInOrder
PROPERTIES DriverReturns
