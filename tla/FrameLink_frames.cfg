\* Any two disturbances of five frames; a ring that holds no whole frame with a payload.
SPECIFICATION Spec
CONSTANTS
  MaxPayload = 5
  Payloads = {0, 1, 6}
  Room = 5
  MaxFrames = 5
  MaxHurts = 2
INVARIANTS
  TypeOK
PROPERTIES
  IsFrameChannel
CHECK_DEADLOCK FALSE
