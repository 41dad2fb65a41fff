SPECIFICATION Spec
CONSTANTS
  W = 256
  B = 2
  Unit = 16
  DefaultUnits = {4, 9}
  EnvUnits = {0, 1, 2, 3, 5, 8, 13, 14, 15, 16, 17}
  MinTotal = 24
  MaxStackAlloc = 4
  StoreLength = 2
  MaxHeap = 25
  Mains = {"basis", "yes", "pancake", "ag32"}
  Base = 4
  Names = {"f"}
  Byte = {1, 2, 3}
  MaxFD = 4
  BufSize = 5
  Strings <- MCStrings
  Lengths = {1, 5}
  MaxOps = 4
  Contents <- MCContents
  Argvs <- MCArgvs
  BytesLength = 17
  Doubles <- MCDoubles
  Texts <- MCTexts
  Ints <- MCInts
  Minus = 1
  Tilde = 2
  Strtod <- MCStrtod
  Format <- MCFormat
  FromInt <- MCFromInt
  ToInt <- MCToInt
  Ln <- MCLn
  Exp <- MCExp
  Floor <- MCFloor
  Pow <- MCPow
  MaxFrames = 5
  Codes = {0, 3, 5}
  MaxCollections = 3
INVARIANTS LayoutSafe ArgumentsExact DoublesExact CallsFit EntryExclusive
PROPERTY FileCalls
CHECK_DEADLOCK FALSE
