SPECIFICATION FairSpec
CONSTANTS
  Workers = {"w1", "w2"}
  MaxFound = 2
  
PROPERTIES DeactivateReturns
CHECK_DEADLOCK FALSE
