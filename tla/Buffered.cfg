SPECIFICATION Spec
CONSTANTS
  Size = 3
  IOBuff = 2
  Files <- MCFiles
  Lengths = {0, 1, 2, 3, 5}
  Rooms = {2, 5}
  Chars = {9}
INVARIANT BufferIsFile
PROPERTIES ImplementsStream OperationsReturn
