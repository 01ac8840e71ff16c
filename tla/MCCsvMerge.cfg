\* Both multi-stream CSV handlers over every request with times -2..3 and
\* every content of two query channels of up to three records.  A request
\* ends with the handler's return: no deadlock check.
CONSTANTS
  K = 2
  Times <- MCTimes
  PointWidths = {0, 1}
  WindowWidths = {1, 2}
  MaxRecords = 3
SPECIFICATION Spec
INVARIANT MergeCorrect
PROPERTY Completes
CHECK_DEADLOCK FALSE
