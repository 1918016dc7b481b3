SPECIFICATION LSpec
CONSTANTS Calls <- NoCalls  Checks <- MCChecks  Clusters <- MCClusters  Discoveries <- MCDiscoveries  Writes <- MCWrites  MaxWrites = 2
INVARIANTS LTypeOK SteadyCollateralReported QuietVerdictIsRight NoVerdictOnPartialRead
CHECK_DEADLOCK FALSE
