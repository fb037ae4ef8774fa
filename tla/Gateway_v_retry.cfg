CONSTANTS
  MaxStarts = 1
  MaxBoots = 0
  StackFails = TRUE
SPECIFICATION FairSpec
PROPERTIES FormingIsRetried
