\* HTTP without faults; only continuation tokens are encoded, not the state
\* between NewState and the first tick.
CONSTANTS
  c1 = c1
  c2 = c2
  CVE = {c1, c2}
  Score <- MCScore
  NoScore = NoScore
  MaxResults = 3
  RowsPerTick = 2
  Transports <- OnlyHTTP
  Handovers <- NeverEncode
  MaxFaults = 0
SPECIFICATION Spec
INVARIANT NullMeansNoMetrics
