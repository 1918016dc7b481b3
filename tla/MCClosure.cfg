CONSTANT Calls <- MCCalls
SPECIFICATION Spec
INVARIANTS TypeOK MembersResolve BindingsRecorded EmptyIffUntracked EachObjectOnce
  DirectHarmReported RebindingReported ReselectionReported StaysInNamespace
PROPERTIES OnlyGrows Terminates ComputesAffectedObjects
CHECK_DEADLOCK FALSE
