\* Every way to start a worker, with up to three units on the command line.
CONSTANTS
  Texts <- AllTexts
  Units <- MCUnits
  MaxUnits = 3
  Commands <- AllCommands
  BadLogs = {"loud"}
SPECIFICATION Spec
INVARIANTS ParserMeetsOnlyDefined RightTransport ReachableWhereMeant
