SPECIFICATION MCSpec
CONSTANTS
  Texts = {"number", "low", "void"}
  FontSize <- MCFontSize
  NoFont = "none"
  Replacement = "sharp"
  Percents = {0, 50, 150, 300}
  Viewports = {720, 1080, 2160}
  Windows <- MCWindows
  Spelling <- MCSpelling
  Warnings = {"low"}
  Pools = {12, 128}
  Columns = {852, 1704, 2136}
  Rows = {594, 1188}
  MaxInt = 127
  F2Windows = {0, 540, 1080, 2160}
  F2Font = "small"
  F2Replacement = "sharp"
  MaxRows = 3
  Infos <- MCInfos
  PlateOptions <- MCOptions
  PlateScales = {50, 100, 200}
  Clip <- MCClip
  EntriesMax = 2
  Extent <- MCExtent
  StatsExtent <- MCStatsExtent
  Values = {2, 500}
  Interval = 2
  TickModulus = 8
  MaxGap = 3
  MaxEdits = 3
INVARIANTS HudInPlace CanvasHandedBack SettingsCatchUp
CHECK_DEADLOCK FALSE
