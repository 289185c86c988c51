\* Every complete vector; one vector with a token inserted or removed at every
\* place; and batches of three rows with one or two bad ones; doubles around
\* every threshold; rows of records with up to two descriptions, weaknesses
\* and metrics of each version.  A scan over both transports, with one fault.
CONSTANTS
  t1 = t1
  t2 = t2
  t3 = t3
  cwe1 = cwe1
  cwe2 = cwe2
  noinfo = noinfo
  vec1 = vec1
  vec2 = vec2
  NoScore = NoScore
  Vectors = {vec1, vec2}
  CWEs <- MCCWEs
  Records <- MCRecords
  PageSize = 1
  Batches <- MCBatches
  Columns <- MCColumns
  Transports <- BothTransports
  MaxFaults = 1
SPECIFICATION QuerySpec
INVARIANTS TypeOK RowsAreScored WorseNeverScoresLower ScoreIsZeroWithoutImpact RoundedUp SeverityIsItsBand OneMetric TextsAreKept
PROPERTIES KeepsPromise Terminates
