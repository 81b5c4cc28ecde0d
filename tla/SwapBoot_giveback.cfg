\* Power fails while the old page is written to DFU.
SPECIFICATION Spec
CONSTANTS
  NPages = 3
  small = small
  full = full
  early = early
  stuck = stuck
  Images <- MCImages
  Junk = Junk
  Size <- MCSize
  HangsEarly = {early}
  HangsInInit = {stuck}
  LossAt <- LossGivingback
INVARIANTS
  BootsWholeImage
