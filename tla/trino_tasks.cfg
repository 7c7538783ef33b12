SPECIFICATION Spec
CONSTANTS
  MaxPages = 3
  MaxFails = 3
  MaxByHand = 1
INVARIANTS
  TypeOK
  ReturnedMeansFinished
PROPERTY
  SucceedsMeansAllDone
CHECK_DEADLOCK FALSE
