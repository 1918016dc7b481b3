CONSTANT Calls <- MCCalls
SPECIFICATION VSpec
INVARIANTS VTypeOK VerdictMatchesScope ExitMatchesScope EvidenceKept
  DerivedScopeFlagsCollateral WiderScopeNeverStricter
PROPERTY Answers
CHECK_DEADLOCK FALSE
