\* An image hangs in init after it has confirmed its boot.
SPECIFICATION Spec
CONSTANTS
  NPages = 3
  small = small
  full = full
  early = early
  stuck = stuck
  Images <- MCImages
  Junk = Junk
  Size <- MCSize
  HangsEarly = {early}
  HangsInInit = {stuck}
  LossAt <- SafePoints
PROPERTIES
  HangingImageGivesWay
