SPECIFICATION CSpec
CONSTANTS Calls <- NoCalls  Checks <- NoChecks  Clusters <- NoClusters  Discoveries <- SomeDiscoveries  Writes <- SomeWrites  MaxWrites = 1  Starts <- MCStarts
INVARIANTS CTypeOK CallsMeetAssumption ScopeAsWritten FailsClosedOnScope SameAsLive NothingIgnored FindingsShown
PROPERTIES CommandAnswers
CHECK_DEADLOCK FALSE
