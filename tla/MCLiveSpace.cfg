SPECIFICATION LSpec
CONSTANTS Calls <- NoCalls  Checks <- SpaceChecks  Clusters <- SpaceClusters  Discoveries <- SpaceDiscoveries  Writes <- NoWrites  MaxWrites = 0
INVARIANT NamespaceFullyReported
CHECK_DEADLOCK FALSE
