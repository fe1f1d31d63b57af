SPECIFICATION Spec
CONSTANTS
  f1 = f1
  f2 = f2
  f3 = f3
  t1 = t1
  t2 = t2
  Null = Null
  Threads <- OneThread
  Addrs <- ThreeAddrs
  Kinds <- AllKinds
  Indices <- MCIndices
  FirstClocks <- MCFirstClocks
  Capacity = 2
  MaxScale = 2
  Retry = 1
  CallTime = 0
  TickWrap = 8
  MaxClock = 11
SYMMETRY AddrSymmetry
INVARIANTS OneSlotPerKey
