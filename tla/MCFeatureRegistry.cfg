SPECIFICATION RegSpec
CONSTANTS
  MaxFeatures = 2
  fov = fov
  text = text
  plates = plates
  handlerA = handlerA
  handlerB = handlerB
  NoName = NoName
  NoHandler = NoHandler
  Names <- MCNames
  Handlers <- MCHandlers
  Registrations <- MCRegistrations
  Tokens <- MCTokens
INVARIANTS RegTypeOK OneSlotPerFeature HandlerFollowsGate StateMatchesAdvertisement
PROPERTY ImplementsGate
CHECK_DEADLOCK FALSE
