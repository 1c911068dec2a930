SPECIFICATION Spec
CONSTANTS
    Launchers = {l1, l2, l3}
    None = None
    Outsiders = {outside}
    MaxEdits = 2
    MaxFaults = 2
PROPERTIES RestorePreservesEdits
CHECK_DEADLOCK FALSE
