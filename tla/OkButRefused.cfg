SPECIFICATION Spec
CONSTANTS
    Null = Null
    Blank = Blank
    MaxRowid = 3
    Proc = {p1, p2}
    Label = {a, b}
    Title = {t}
    Ops = {"add"}
    Crashes = FALSE
    MaxTime = 0
    MaxCommands = 2
SYMMETRY Symmetry
PROPERTY OkMeansDone
