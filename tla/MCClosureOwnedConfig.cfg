CONSTANT Calls <- MCCalls
SPECIFICATION Spec
INVARIANTS DeletedConfigBreaksConsumers
CHECK_DEADLOCK FALSE
