SPECIFICATION Spec
CONSTANTS
  Null = Null
  Missing = Missing
  Invalid = Invalid
  s1 = s1
  s2 = s2
  g1 = g1
  g2 = g2
  c1 = c1
  c2 = c2
  Scenes <- MCScenes
  Gammas <- MCGammas
  Controllers <- MCControllers
  Limits <- MCLimits
  Stored <- MCStored
  MaxScenes = 3
SYMMETRY AddressSymmetry
INVARIANTS LabelsMatchSliders WidgetsTouchedAreLive ConfirmedIsKept
