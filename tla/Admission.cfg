CONSTANTS
    Text <- MCText
    Catalogue <- MCCatalogue
    ByName <- MCByName
    ByEntry <- MCByEntry
    Requests <- MCRequests
    ApiSettings <- MCSettings
    Keys <- MCKeys
    Null = Null
SPECIFICATION Spec
INVARIANTS RoutedWithinTier CheckedRowsRun ServedAsConfigured SourceHonoured
CHECK_DEADLOCK FALSE
