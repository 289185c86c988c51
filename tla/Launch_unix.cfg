\* The entrypoint's unix mode with one unit behind it.
CONSTANTS
  Texts <- AllTexts
  Units <- MCUnits
  MaxUnits = 1
  Commands <- UnixMode
  BadLogs = {"loud"}
SPECIFICATION Spec
INVARIANT UnixServesItsSocket
