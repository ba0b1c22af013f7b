CONSTANTS
  d1 = d1
  d2 = d2
  d3 = d3
  d4 = d4
  g1 = g1
  g2 = g2
  None = None
  Band = Band
  Devices <- FourDevices
  Gateways <- TwoGateways
  AirTime = 2
  TableAirTime = 2
  TimeGuard = 1
  Second = 1
  DutyDiv = 19
  ReceiveDelay1 = 1
  ReceiveDelay2 = 2
  Window1 = 1
  Window2 = 1
  Horizon = 130
SPECIFICATION Spec
SYMMETRY Alike
INVARIANT SendersKeepSlots
INVARIANT NeverOverhears
INVARIANT TracedOnTime
INVARIANT SlotsAllUsed
PROPERTY SlotsRefined
CHECK_DEADLOCK FALSE
