SPECIFICATION Spec
CONSTANTS
  send1 = send1
  mint2 = mint2
  mint1 = mint1
  Calls = {send1, mint1, mint2}
  Retrying = {send1}
  Limits = {0, 1, 2}
  MaxNonce = 5
INVARIANTS ExecutionsExplained ResolvedMeansExecuted
PROPERTY CallsEnd
CHECK_DEADLOCK FALSE
