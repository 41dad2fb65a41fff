SPECIFICATION Spec
CONSTANTS
  Limit = 6
  Dimword = 28
  NRoots = 2
  MaxPtrs = 1
  RawLens = {}
  GcKinds = {"Generational"}
  GenSizes <- MCGenSizes
  Requests = {2, 3}
INVARIANTS CollectorOk HeapOk ForwardBijection
  CollectsGarbage
PROPERTIES ImplementsSpace
