\* One chunk is lost on the way to the WIO.
SPECIFICATION Spec
CONSTANTS
  None = None
  Kind <- FirmwareOverUsb
  Transfers <- UsbOnly
  Chunks = 2
  Shapes = {"good"}
  Attempts = 2
  LinkRoom = 6
  FaultKinds = {"uart_out"}
  MaxFaults = 1
INVARIANTS
  NothingDangling
