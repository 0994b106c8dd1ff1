SPECIFICATION FairSpec
CONSTANTS
  Lopsided = TRUE
  BlocksPerXcd = 1
  NWaves = 2
  Impatient = {}
  Xcds <- MCXcds
  Placements <- MCPlacements
PROPERTY
  EveryoneLeaves
