CONSTANTS
  old = old
  new = new
  fraud = fraud
  lending = lending
  ReservedPolicy = ReservedPolicy
  Unreadable = Unreadable
  Instances <- MCInstances
  Ids <- MCIds
  Versions = {2, 3}
  Files <- MCFiles
  MaxRestarts = 1
SPECIFICATION FairSpec
INVARIANTS TypeOK CountedPoliciesArePresent DriftIsReported AbsentPoliciesAreNamed
PROPERTIES EveryPassEnds
CHECK_DEADLOCK FALSE
