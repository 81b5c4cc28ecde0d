\* A leaf with a fast preset made a slow repeater, two commands or transfers, and a frame to repeat, a lost flag or a reset.
SPECIFICATION Spec
CONSTANTS
  GpsConfigs = {"g1", "g2"}
  Configs <- MCConfigs
  BootConfig <- Fast
  FirstBeacon = 2
  BeaconJitter = 0
  Retry = 1
  BusyLife = 2
  DogPeriod = 4
  SdMax = 1
  RepeatSlots = 1
  HalfRange = 4
  NotifyInterval = 1
  MaxCommands = 2
  MaxEvents = 1
INVARIANTS
  TypeOK
  WatchdogFed
  GpsRunsConfig
  OneRoundOnAir
PROPERTIES
  TurnsCome
