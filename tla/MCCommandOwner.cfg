SPECIFICATION CSpec
CONSTANTS Calls <- NoCalls  Checks <- NoChecks  Clusters <- NoClusters  Discoveries <- SomeDiscoveries  Writes <- NoWrites  MaxWrites = 0  Starts <- OwnerStarts
INVARIANTS SameAsLive
CHECK_DEADLOCK FALSE
