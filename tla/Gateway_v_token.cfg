CONSTANTS
  MaxStarts = 2
  MaxBoots = 0
  StackFails = FALSE
SPECIFICATION Spec
PROPERTIES LoopAfterInitialization
