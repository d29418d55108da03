\* A client edits, asks, saves configurations and leaves.
CONSTANTS
  Docs = {d1, d2}
  Texts = {t1, t2}
  Configs = {c1, c2}
  MaxMoves = 4
  MaxSaves = 3
  None = None
SPECIFICATION Spec
INVARIANTS DiagnosticsSettle AnswersFitRequests ProfileFitsConfig RequestsAnswered
SYMMETRY NameSymmetry
CHECK_DEADLOCK FALSE
