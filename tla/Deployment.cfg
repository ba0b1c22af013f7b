CONSTANTS
  GatewayQuantities <- Quantities
  Iterations <- TwoIterations
  MinQty = 1
  MaxQty = 4
  RandomNumbers <- Corners
  DutyDiv = 8
  Assignments <- BothAssignments
SPECIFICATION Spec
CHECK_DEADLOCK FALSE
INVARIANT TypeOK
INVARIANT RowsTellTheTruth
INVARIANT WindowsSuffice
PROPERTY EveryDeviceScheduled
