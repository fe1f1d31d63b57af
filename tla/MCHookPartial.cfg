SPECIFICATION Spec
CONSTANTS
  audio = audio
  text = text
  glyph = glyph
  fov = fov
  handshake = handshake
  game = game
  render = render
  Patches <- MCPatches
  Hooks <- MCHooks
  PagesOf <- MCPagesOf
  Trampolines = 8
  Handshake = handshake
  Configured <- MCConfigured
  Debug = FALSE
  HasFeatures = TRUE
  GameThreads <- TwoGameThreads
  MaxDepth = 3
INVARIANTS
  NoPartialPatchSet
