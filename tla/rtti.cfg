SPECIFICATION RttiSpec
CONSTANTS
  NClasses = 4
  Access = {TRUE, FALSE}
  RCareful = TRUE
INVARIANTS CastsRight
CHECK_DEADLOCK FALSE
