CONSTANTS
  NoFile = "none"
  Disks <- MCDisks
SPECIFICATION FairSpec
INVARIANTS CheckedPacksAreServed
PROPERTIES LoadsTheCatalogue LoadEnds
CHECK_DEADLOCK FALSE
