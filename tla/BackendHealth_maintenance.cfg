\* The loop probes a backend in maintenance.
SPECIFICATION Spec
CONSTANTS
    Loop = loop
    Visitors = {}
    FailThr = 3
    SuccThr = 2
    AllowDegraded = TRUE
    Maintainable = TRUE
    Toggleable = FALSE
PROPERTIES MaintenancePersists
