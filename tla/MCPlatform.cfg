SPECIFICATION PlatformSpec
CONSTANTS
  Drhd <- MCDrhd
  MaxVtdCalls = 3
  RootTables <- MCRootTables
  Regions <- MCRegions
  PciCpus = {c1, c2}
  MaxPciCalls = 2
  PciRequests <- MCPciRequests
  MAX_VARIABLE_MTRRS = 3
  Firmwares <- MCFirmwares
  DefTypes <- MCDefTypes
  MtrrRanges <- MCMtrrRanges
  MtrrTypes <- MCMtrrTypes
  RegContents <- MCRegContents
  MaxPlatformCalls = 3
  WrittenWords = {2, 64}
  Delays = {5, 65535, 100000}
  Machines <- MCMachines
  LibMemories <- MCLibMemories
  LibBytes <- MCLibBytes
  MaxLibCount = 3
  ArgBits <- MCArgBits
  Formats <- MCFormats
  Messages <- MCMessages
INVARIANTS
  PlatformTypeOK
  InvalidationDone
  TranslationAsAsked
  DriversDeliver
  FieldChangedAlone
  PciReachesAsked
  MtrrRestored
  MtrrTypeCovered
  PlatformCallsRight
  LibraryMatches
PROPERTY CallsReturn
\* The calls made in a behaviour are bounded.
CHECK_DEADLOCK FALSE
