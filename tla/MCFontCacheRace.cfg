SPECIFICATION Spec
CONSTANTS
  f1 = f1
  f2 = f2
  f3 = f3
  t1 = t1
  t2 = t2
  Null = Null
  Threads <- TwoThreads
  Addrs <- TwoAddrs
  Kinds <- AllKinds
  Indices <- MCIndices
  FirstClocks <- RaceFirstClocks
  Capacity = 1
  MaxScale = 2
  Retry = 3
  CallTime = 1
  TickWrap = 14
  MaxClock = 14
SYMMETRY RaceSymmetry
INVARIANTS SlotsAreWhole
PROPERTIES ScansSpaced ReturnedFontIsUsable
