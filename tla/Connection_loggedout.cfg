SPECIFICATION FairSpec
CONSTANTS
  Generations = 4
PROPERTIES
  LoggedOutSettles
CHECK_DEADLOCK FALSE
