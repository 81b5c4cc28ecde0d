\* Any two faults and two settings written, from any record in flash.
SPECIFICATION FairSpec
CONSTANTS
  None = None
  SleepMin = 2
  SleepMax = 2
  AdvMin = 2
  AdvMax = 3
  AdvDefault = 2
  Linger = 1
  Backoff = 2
  Flash <- FlashInTheField
  Offered = {0, 1, 9}
  MaxWrites = 2
  FaultKinds = {"power", "reset", "uart_out", "uart_in", "slow", "flash", "cancel"}
  MaxFaults = 2
INVARIANTS
  TypeOK
  RailAsAsked
  BudgetKept
  SettingsKept
PROPERTIES
  WakesLongEnough
  SleepsAgain
  WakeWorks
CHECK_DEADLOCK FALSE
