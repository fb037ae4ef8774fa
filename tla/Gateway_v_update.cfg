CONSTANTS
  MaxStarts = 1
  MaxBoots = 0
  StackFails = FALSE
SPECIFICATION Spec
PROPERTIES UpdateRefreshes
