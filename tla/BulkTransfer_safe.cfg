\* The host sends twice, the central once, under any two faults: timeouts that run out early, frames lost, clients that vanish.
SPECIFICATION Spec
CONSTANTS
  None = None
  Kind <- FirmwareOverUsb
  Transfers <- UsbTwice
  Chunks = 2
  Shapes = {"good"}
  Attempts = 2
  LinkRoom = 6
  FaultKinds = {"late", "cancel", "vanish", "drop", "uart_out", "slow"}
  MaxFaults = 2
INVARIANTS
  TypeOK
  OneOwner
  InStep
  CommitsWhatWasAsked
PROPERTIES
  AnswerReachesCaller
CHECK_DEADLOCK FALSE
