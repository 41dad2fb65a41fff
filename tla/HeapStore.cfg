SPECIFICATION Spec
CONSTANTS
  Limit = 5
  Dimword = 24
  NRoots = 2
  MaxPtrs = 2
  RawLens = {1}
  GcKinds = {"Generational", "Simple"}
  GenSizes <- MCGenSizes
  Requests = {2, 3}
PROPERTIES ImplementsStore CollectionEnds
