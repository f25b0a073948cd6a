CONSTANTS
  fraud = fraud
  growth = growth
  compliance = compliance
  risk = risk
  Bindings <- MCBindings
  Initiator = risk
SPECIFICATION FairSpec
INVARIANTS TypeOK InitiatorComesFirst SuccessMeansEveryAgentStarted TokenFilesFollowProcesses RunningChildrenAreSupervised
PROPERTIES RequestIsAnswered
CHECK_DEADLOCK FALSE
