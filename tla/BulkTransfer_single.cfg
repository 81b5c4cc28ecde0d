\* Any one fault; every timeout is long enough and the notifier does not overtake the events arm. Clients rest after one transfer each.
SPECIFICATION FairSpec
CONSTANTS
  None = None
  Kind <- FirmwareOverUsb
  Transfers <- OneEach
  Chunks = 2
  Shapes = {"good"}
  Attempts = 2
  LinkRoom = 6
  FaultKinds = {"begin_ack", "usb_ack", "vanish", "drop", "uart_out", "uart_in", "slow", "flash", "reset"}
  MaxFaults = 1
INVARIANTS
  ClientsLeaveNothing
  RetriesSucceed
  SuccessMeansCommitted
PROPERTIES
  LinkFreed
  ClientsFinish
CHECK_DEADLOCK FALSE
