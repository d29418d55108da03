\* Two sections: a program that may hang, a prompt one without a deadline, and
\* wrappers that may leave a helper behind.
CONSTANTS
  Sections = 2
  MaxBlocks = 2
  Capacity = 1
SPECIFICATION FairSpec
INVARIANTS OutputComplete NoneLeftBehind
PROPERTIES FailureIsFinal Returns
CHECK_DEADLOCK FALSE
