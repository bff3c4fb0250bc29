SPECIFICATION Spec
CONSTANTS
  r1 = r1
  r2 = r2
  Requests = {r1, r2}
  Bodies = {"valid", "invalid", "blank", "none"}
  NodeEnvs = {"development", "production", "test"}
INVARIANTS CreatedIsRecorded DocsBacked OneCollectionPerRequest
PROPERTY RequestsAnswered
CHECK_DEADLOCK FALSE
