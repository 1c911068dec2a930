SPECIFICATION Spec
CONSTANTS
    Launchers = {l1, l2, l3}
    None = None
    Outsiders = {}
    MaxEdits = 2
    MaxFaults = 2
INVARIANTS SettingReturns
CHECK_DEADLOCK FALSE
