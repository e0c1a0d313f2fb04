\* 512-byte blocks, a buffer of three of them, tables of up to 17 entries.
\* Six updates: every type is replaced twice.
\* Device trees with up to three nodes on a level, on paths of up to 24 bytes.
CONSTANTS
  BlockSize = 4
  MbrSize = 4
  BufSize = 12
  MaxEntries = 18
  Disks <- SmallDisks
  BlobBlocks = 30
  MaxVersion = 6
  Blobs <- MCBlobs
  MaxPath = 24
SPECIFICATION MCSpec
INVARIANTS ScanSound ChoiceFollowsRules BootsComplete TreeTransformed RoomUsed
PROPERTIES RetypeSwitches
