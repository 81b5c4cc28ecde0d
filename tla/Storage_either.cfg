\* A push to a board whose card is shut down, then a power cycle.
SPECIFICATION Spec
CONSTANTS
  None = None
  Configs = {"a", "noSd"}
  Factory = "factory"
  NoSd = {"noSd"}
  Empty = Empty
  Bad = Bad
  Torn = Torn
  Partial = Partial
  Cards = {"card1"}
  Found = {"a", "noSd"}
  Room = 2
  MaxRows = 0
  MaxPushes = 1
  MaxHands = 0
  FaultKinds = {}
  MaxFaults = 0
PROPERTIES
  PersistsEitherWay
