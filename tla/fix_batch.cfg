\* A file named twice or with stdin after it, an editor that saves once.
CONSTANTS
  Blanks = TRUE
  MaxIterations = 3
  Files = {"f"}
  Stdin = "-"
  Batches <- FileBatches
  Denials <- MCDenials
  Texts <- AllTexts
  Saves <- MCSaves
  MaxSaves = 1
  Printed <- MCPrinted
SPECIFICATION Spec
INVARIANTS FixSound DiskWhole ReportFitsDisk ExitHonest
CHECK_DEADLOCK FALSE
