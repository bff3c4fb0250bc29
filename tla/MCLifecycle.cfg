SPECIFICATION Spec
CONSTANTS
  MaxRequests = 2
  MaxSockets = 1
  MaxDisconnects = 3
INVARIANTS ReconnectScheduled HandlerGrowth
PROPERTIES ConnectionHeals ShutdownCompletes
CHECK_DEADLOCK FALSE
