SPECIFICATION SegmentsSpec
CONSTANTS
  TopAddr = 2
  Image <- MCImage
  Bank <- MCBank
  Layout <- MCLayout
  Builder <- MCBuilder
  Size = {1, 3}
  HomeSpace = {0}
  Metadata = {"segment", "loaded"}
  Residue = {"segment"}
  Synthetic = "segment"
  ProviderSize = {1}
  Data <- MCData
  Nothing = Nothing
  MaxCalls = 4
  MaxMapping = 4
  MaxProvider = 2
  MaxSpace = 2
INVARIANTS IndexesAgree SubmapsApart CacheFresh ReloadSame
PROPERTIES ImplementsLayers SyntheticApart
CHECK_DEADLOCK FALSE
