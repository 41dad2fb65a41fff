SPECIFICATION Spec
CONSTANTS
  Names = {"f"}
  Byte = {1, 2}
  MaxFD = 3
  BufSize = 2
  Strings <- MCStrings
  Lengths = {3}
  MaxLen <- MCMaxLen
  Contents <- MCContents
  Uses = {}
PROPERTIES ImplementsFsFFI ImplementsStreams OperationsReturn
