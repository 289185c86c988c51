\* The same records; the severity of a v2 metric.
CONSTANTS
  t1 = t1
  t2 = t2
  t3 = t3
  cwe1 = cwe1
  cwe2 = cwe2
  noinfo = noinfo
  vec1 = vec1
  vec2 = vec2
  NoScore = NoScore
  Vectors = {vec1, vec2}
  CWEs <- MCCWEs
  Records <- MCRecords
  PageSize = 1
SPECIFICATION Spec
INVARIANT V2SeverityIsTheMetrics
