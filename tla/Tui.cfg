SPECIFICATION TuiSpec
CONSTANTS
    Hosts = {"h1", "h2"}
    Local = "h1"
    Names = {1, 2}
    Filters <- MCFilters
    None = None
    Acts = {"create-zvol-name", "mount-ds", "destroy-ds", "rollback", "be-delete", "scrub-stop"}
    MaxScan = 2
    MaxDoss = 2
    MaxKeys = 5
INVARIANTS LateIsDropped DossierIsSelected
PROPERTY GateHolds
\* No key need ever be pressed.
CHECK_DEADLOCK FALSE
