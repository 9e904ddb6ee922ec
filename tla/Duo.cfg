SPECIFICATION Spec
CONSTANTS
    Null = Null
    Blank = Blank
    MaxRowid = 3
    Proc = {p1, p2}
    Label = {a, b}
    Title = {t}
    Ops = {"add", "upd", "del", "start", "stop", "copy"}
    Crashes = TRUE
    MaxTime = 1
    MaxCommands = 4
SYMMETRY Symmetry
INVARIANT PeriodsForward
PROPERTIES ClosedStaysClosed CopyLoopShrinks
