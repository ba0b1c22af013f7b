CONSTANTS
  Headers <- TwoHeaders
  Commands <- LinkCheckAndAdr
  MaxCommands = 2
  Payload <- NoPayload
SPECIFICATION FrameSpec
CHECK_DEADLOCK FALSE
INVARIANT FifteenBytesOfOptions
