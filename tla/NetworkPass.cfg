SPECIFICATION Spec
CONSTANTS
  StartNodes = 3
  MaxNodes = 3
  MaxRepos = 3
INVARIANTS
  PassTriesAll
CHECK_DEADLOCK FALSE
