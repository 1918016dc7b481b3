SPECIFICATION LSpec
CONSTANTS Calls <- NoCalls  Checks <- TornChecks  Clusters <- TornClusters  Discoveries <- TornDiscoveries  Writes <- TornWrites  MaxWrites = 2
INVARIANT AllowedAtSomeMoment
CHECK_DEADLOCK FALSE
