SPECIFICATION MCSpec
CONSTANTS
  Functions <- MCFunctions
  Distances <- MCDistances
  Code = {10, 51, 77}
  Layouts <- MCLayouts
  Half = 64
  Angles <- MCAngles
  Morphs <- MCMorphs
  MaxMorphs = 4
  Meshes = {"gun", "scope"}
  Slots = {1, 2}
  Handles = {"w1", "w2"}
  NoWindow = "null"
  Areas = {0, 4, 9}
  MinimumRelease = 1
  ReleaseLimit = 2
  GitCommits = {"old", "new"}
  NoCommit = "none"
  MaxRuns = 2
INVARIANTS MovedCodeEquivalent TrampolineHoldsAll RegionFound SmallPatchesRight PublishedIsVerified
CHECK_DEADLOCK FALSE
