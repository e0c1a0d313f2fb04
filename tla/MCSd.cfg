SPECIFICATION Spec
CONSTANTS
  NumBlocks = 5
  Page = 1
  RequestSize = 3
  DescCap = 3
  TableEnd = 3
  BlobEnd = 7
  PayloadLbas = {1}
  MaxPolls = 1
INVARIANTS RequestsSound DataInOrder
PROPERTIES DriverReturns
