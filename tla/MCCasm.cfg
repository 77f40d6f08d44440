SPECIFICATION Spec
CONSTANTS
  ByteBits <- MCByteBits
  Values <- MCValues
  MaxCalls = 2
INVARIANTS
  TypeOK
  CalleeSavedPreserved
  StackBalanced
  ParamsInPlace
  MemoryFrame
  OutputsInMemory
PROPERTIES
  ImplementsContract
  CallsComplete
CHECK_DEADLOCK FALSE
