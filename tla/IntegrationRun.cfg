\* The two .test files, one of which needs the mock; every transport and one
\* that is not known; a server seen at the third look at the latest.
CONSTANTS
  offline = offline
  api = api
  Files = {offline, api}
  Online = {api}
  Transports <- MCTransports
  MaxPolls = 3
SPECIFICATION Spec
INVARIANTS NothingLeftBehind SuiteWaits GreenMeansRun
PROPERTIES Ends
