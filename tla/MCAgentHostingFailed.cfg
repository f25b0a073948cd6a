CONSTANTS
  fraud = fraud
  growth = growth
  compliance = compliance
  risk = risk
  Bindings <- MCThree
  Initiator = risk
SPECIFICATION Spec
INVARIANTS FailedLaunchHasNoSession
CHECK_DEADLOCK FALSE
