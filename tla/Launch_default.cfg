\* The entrypoint without an argument.
CONSTANTS
  Texts <- AllTexts
  Units <- MCUnits
  MaxUnits = 0
  Commands <- NoArgument
  BadLogs = {"loud"}
SPECIFICATION Spec
INVARIANT DefaultIsHTTP
