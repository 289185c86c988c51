\* Results of up to three rows, two to a tick: a short last slice, an exact
\* multiple, and the empty result; two faults.
CONSTANTS
  c1 = c1
  c2 = c2
  CVE = {c1, c2}
  Score <- MCScore
  NoScore = NoScore
  MaxResults = 3
  RowsPerTick = 2
  Transports <- BothTransports
  Handovers <- MayEncode
  MaxFaults = 2
SPECIFICATION Spec
INVARIANTS TypeOK RowFidelity CursorIsDelivery FinishedIsComplete ScanInv
PROPERTIES KeepsPromise Terminates
