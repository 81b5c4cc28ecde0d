\* Power fails at every point from which the boot loader recovers.
SPECIFICATION Spec
CONSTANTS
  NPages = 3
  small = small
  full = full
  early = early
  stuck = stuck
  Images <- MCImages
  Junk = Junk
  Size <- MCSize
  HangsEarly = {early}
  HangsInInit = {stuck}
  LossAt <- SafePoints
INVARIANTS
  SafeInv
  BootsWholeImage
  OldImageKept
PROPERTIES
  IsAtomic
  UpdateSettles
