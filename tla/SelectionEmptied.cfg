SPECIFICATION Spec
CONSTANTS
    MaxReports = 2
    Modes = {"console"}
    Catalogues <- MCCatalogues
    Requests <- MCRequests
    HostCaps <- MCHostCaps
INVARIANTS
    TakesIntersection
