SPECIFICATION StagedSpec
CONSTANTS
  TopAddr = 2
  Image <- MCImage
  Bank <- MCBank
  Layout <- MCLayout
  Builder <- MCBuilder
  Size = {1, 2}
  HomeSpace = {0}
  Metadata = {"segment", "loaded"}
  Residue = {"segment"}
  Synthetic = "segment"
  ProviderSize = {1}
  Data <- MCData
  Nothing = Nothing
  MaxCalls = 0
  MaxMapping = 3
  MaxProvider = 2
  MaxSpace = 3
  MaxStaged = 3
  MaxTx = 2
INVARIANTS PublishedAsStaged ChangesReported
CHECK_DEADLOCK FALSE
