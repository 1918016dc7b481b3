CONSTANT Calls <- BlankLabelCalls
SPECIFICATION Spec
INVARIANTS RebindingReported
CHECK_DEADLOCK FALSE
