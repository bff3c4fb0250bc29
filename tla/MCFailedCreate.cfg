SPECIFICATION Spec
CONSTANTS
  r1 = r1
  Requests = {r1}
  Bodies = {"valid", "blank"}
  NodeEnvs = {"production"}
INVARIANT FailureMeansNotCreated
CHECK_DEADLOCK FALSE
