\* One file under a profile, nobody else at work.
CONSTANTS
  Blanks = FALSE
  MaxIterations = 2
  Files = {"f"}
  Stdin = "-"
  Batches <- FileBatches
  Denials <- MCDenials
  Texts <- AllTexts
  Saves <- MCSaves
  MaxSaves = 0
  Printed <- MCPrinted
SPECIFICATION Spec
INVARIANTS CleanKeptOnSuse
CHECK_DEADLOCK FALSE
