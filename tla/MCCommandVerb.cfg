SPECIFICATION CSpec
CONSTANTS Calls <- NoCalls  Checks <- NoChecks  Clusters <- NoClusters  Discoveries <- SomeDiscoveries  Writes <- NoWrites  MaxWrites = 0  Starts <- VerbStarts
INVARIANTS OnlyKnownVerbsAllowed
CHECK_DEADLOCK FALSE
