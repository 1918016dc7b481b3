SPECIFICATION LSpec
CONSTANTS Calls <- NoCalls  Checks <- GroupChecks  Clusters <- GroupClusters  Discoveries <- GroupDiscoveries  Writes <- NoWrites  MaxWrites = 0
INVARIANT TargetIsOfResolvedResource
CHECK_DEADLOCK FALSE
