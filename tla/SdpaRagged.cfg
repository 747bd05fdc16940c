SPECIFICATION Spec
CONSTANTS
  Workload <- MCRaggedTorch
  BlockSize = 3
  NumSteps = 3
  ShiftNum = 1
  ShiftDen = 2
  Slack = 2
  Bucket = 4
  PageSize = 2
INVARIANT
  SeesItsContext
