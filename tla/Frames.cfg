CONSTANTS
  Headers <- TwoHeaders
  Commands <- EveryCommand
  MaxCommands = 3
  Payload <- TenBytes
SPECIFICATION FrameSpec
CHECK_DEADLOCK FALSE
INVARIANT HeadersOK
INVARIANT LeadingFieldsSurvive
INVARIANT FrameReadsBack
