SPECIFICATION FairSpec
CONSTANTS
  Lopsided = FALSE
  BlocksPerXcd = 2
  NWaves = 2
  Impatient = {1}
  Xcds <- MCXcds
  Placements <- MCPlacements
INVARIANTS
  TypeOK
  RolesAreReal
  NoSpuriousAbort
PROPERTY
  WholeBlocksLeave
