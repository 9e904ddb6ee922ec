SPECIFICATION Spec
CONSTANTS
    Label = {a, b}
    Title = {t, u}
    Idle = Idle
    Blank = Blank
    MaxTime = 3
    MaxLog = 2
CONSTRAINT ShortLogs
SYMMETRY Symmetry
INVARIANTS TypeOK Chronological
