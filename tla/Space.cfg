SPECIFICATION TraceSpec
CONSTANTS
  B = 2
  W = 18
  HeapLength = 12
  GcKinds = {"None", "Simple", "Generational"}
  GenSizes <- MCGenSizes
  Requests <- MCRequests
  VarLengths <- MCVarLengths
  VarLimit = 8
  Lists <- MCLists
  AppendLimit = 8
  Messages = {0, 1}
  Texts = {20}
  Codes = {3}
  MaxGC = 2
INVARIANTS GrantFits AppendOnce HaltOnlyWhenFull AllocationCounted
PROPERTIES GrantWhole OperationEnds
