SPECIFICATION Spec
CONSTANTS
  d1 = d1
  d2 = d2
  NoDevice = NoDevice
  Devices <- TwoDevices
  Capacities <- MCCapacities
  Frequency = 3
  UpdatesPerSecond = 1
  ReducedVoiceBudget = 2
  ReduceBelow = 2
  RestoreAbove = 2
  WindowSeconds = 2
  GapSeconds = 1
  MaxTick = 12
  MaxFrames = 5
  MaxCandidates = 4
SYMMETRY DeviceSymmetry
INVARIANTS PassNotStarved
PROPERTIES PassesPaced VoicesOnlyReduced ModesLast
