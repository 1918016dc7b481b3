SPECIFICATION CSpec
CONSTANTS Calls <- NoCalls  Checks <- NoChecks  Clusters <- NoClusters  Discoveries <- SomeDiscoveries  Writes <- NoWrites  MaxWrites = 0  Starts <- DroppedStarts
INVARIANTS ScopeAsWritten
CHECK_DEADLOCK FALSE
