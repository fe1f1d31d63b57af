SPECIFICATION BuildSpec
CONSTANTS
  MaxFeatures = 2
  fov = fov
  text = text
  handlerA = handlerA
  game = game
  worker = worker
  NoName = NoName
  NoHandler = NoHandler
  Nothing = Nothing
  GameThread = game
  Names <- MCNames
  Handlers <- MCHandlers
  Registrations <- MCRegistrations
  Tokens <- DebugTokens
  Threads <- BothThreads
  Debug = TRUE
  NestedRpc = FALSE
  TickWrap = 4
  SummaryDelay = 1
  MaxClock = 5
  MaxInstance = 1
  MaxDepth = 2
INVARIANTS PendingIsCurrent OneNoticePerInstance OneSummaryPerJoin SummaryNotEarly StatusToldIsCurrent
PROPERTY NoticeReachesUser
CHECK_DEADLOCK FALSE
