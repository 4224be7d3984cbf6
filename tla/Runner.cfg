SPECIFICATION MCSpec
CONSTANTS
    MaxReports = 2
    Modes = {"console", "logfile"}
    Catalogues <- MCCatalogues
    Requests <- MCRequests
    HostCaps <- MCHostCaps
INVARIANTS
    SelectsWhatWasAsked
    ConsoleResultsAreRight
    NoReportLost
    ExitCodeIsWorst
PROPERTIES
    RunEnds
