\* Walks of up to three pages, one change of the corpus, one fault in the
\* scan; results that need one tick, two ticks, or none.
CONSTANTS
  c1 = c1
  c2 = c2
  c3 = c3
  CVE = {c1, c2, c3}
  Ops = {"FetchCVE", "CVEsForCPE"}
  MaxResults = 3
  ResultsPerPage = 2
  OddReplies <- NoOddReplies
  MaxCorpus = 3
  MaxChanges = 1
  Score <- MCScore
  NoScore = NoScore
  RowsPerTick = 2
  Transports <- BothTransports
  Handovers <- MayEncode
  MaxFaults = 1
  ScoreOf <- MCScoreOf
SPECIFICATION Spec
INVARIANTS EndToEnd AllOrNothing NullAsksNothing
PROPERTIES KeepsPromise Terminates AbandonedFetchStops
