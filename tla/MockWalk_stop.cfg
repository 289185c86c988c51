\* One call, one signal.
CONSTANTS
  Ops = {"FetchCVE", "SearchKeyword", "CVEsForCPE"}
  MaxResults = 3
  ResultsPerPage = 2
  MaxSignals = 1
SPECIFICATION WalkSpec
INVARIANT ShutdownIsGraceful
