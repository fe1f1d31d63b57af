SPECIFICATION DiagnosticsSpec
CONSTANTS
  l1 = l1
  l2 = l2
  r1 = r1
  None = None
  Debug = TRUE
  MaxDirectories = 3
  MaxInstances = 4
  Loggers <- MCLoggers
  Reporters <- MCReporters
  t1 = t1
  t2 = t2
  t3 = t3
  patch = patch
  morph = morph
  audio = audio
  Nothing = Nothing
  LogThreads <- MCLogThreads
  Channels <- MCChannels
  MaxRings = 2
  RingSize = 2
  MaxLines = 5
  Threads <- MCFaulting
  MaxFaults = 4
  Codes <- MCCodes
  FatalCodes <- MCFatalCodes
  FatalAppExit = 5
  Addresses <- MCAddresses
  MaxCrashLogs = 3
  Nested = TRUE
SYMMETRY MCSymmetry
INVARIANTS HeldPathsStay ActiveIsCurrentInstance OneRingPerChannel ReportShowsLastLines FlagHasOneOwner NoBackToBackDuplicate
PROPERTY ImplementsReporter
CHECK_DEADLOCK FALSE
