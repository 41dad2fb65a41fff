SPECIFICATION Spec
CONSTANTS
  Names = {"f"}
  Byte = {1, 2}
  MaxFD = 4
  BufSize = 2
  Strings <- MCStrings
  Lengths = {3}
  MaxLen <- MCFileOnly
  Contents <- MCContents
  Uses = {"CloseStd", "Reopen"}

PROPERTY WriteAsModelled
