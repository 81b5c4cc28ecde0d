\* A leaf that beacons and two repeaters, and one disturbance of any kind.
SPECIFICATION Spec
CONSTANTS
  a = a
  b = b
  c = c
  None = None
  Nodes <- AllNodes
  Address <- AddressOf
  Role <- RoleOf
  MaxHops <- TwoHops
  Configs <- NewConfigs
  InRange <- Everyone
  Addresses = {1, 2, 3, 4}
  BeaconJitter = 1
  MaxFrames = 3
  Ids = 2
  Ttl = 3
  SeenSlots = 2
  RepeatSlots = 1
  Jitter = 1
  Hold = 0
  Interval <- LeafBeacons
  Disturbances = {"reset", "config", "sleep", "transfer"}
  MaxDisturbances = 1
INVARIANTS
  TypeOK
  HandledOnce
  HopBudget
  FreshFramesPass
CHECK_DEADLOCK FALSE
