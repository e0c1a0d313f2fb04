\* Every set of up to two media but SD with NVMe; a payload of two parts; two
\* NVMe namespaces.
CONSTANTS
  Configs <- UpToTwo
  NumParts = 2
  MaxNs = 2
SPECIFICATION FairSpec
INVARIANTS BuffersOwned PayloadIntact FirstPayloadWins FaultsContained
PROPERTIES Decides
