\* Two pushes, three lines, three touches of the card and any one fault, power failing at any moment.
SPECIFICATION FairSpec
CONSTANTS
  None = None
  Configs = {"a", "noSd"}
  Factory = "factory"
  NoSd = {"noSd"}
  Empty = Empty
  Bad = Bad
  Torn = Torn
  Partial = Partial
  Cards = {"card1"}
  Found = {None, Bad, "noSd"}
  Room = 2
  MaxRows = 3
  MaxPushes = 2
  MaxHands = 3
  FaultKinds = {"mount", "card", "flash"}
  MaxFaults = 1
INVARIANTS
  TypeOK
  ConfigIsWhole
  NeverForgotten
  HeaderFirst
PROPERTIES
  ReportHolds
  LinesKept
  LinesWritten
