\* Every query the client can make; two pages of a search; two signals.
CONSTANTS
  Ops = {"FetchCVE", "SearchKeyword", "CVEsForCPE"}
  MaxResults = 3
  ResultsPerPage = 2
  MaxSignals = 2
SPECIFICATION WalkSpec
INVARIANTS SeesEveryRecord ReadyMeansServed
PROPERTIES ServesLikeNVD StopsOnSignal
