SPECIFICATION Spec
CONSTANTS
    Launchers = {l1, l2, l3}
    None = None
    Outsiders = {outside}
    MaxEdits = 2
    MaxFaults = 2
INVARIANTS TypeOK OverrideIsUndoable SessionOwnsTarget EditsSurvive
PROPERTIES UndoneBeforeForgotten
VIEW View
SYMMETRY LauncherSymmetry
CHECK_DEADLOCK FALSE
