SPECIFICATION CliSpec
CONSTANTS
    Null = Null
    Blank = Blank
    MaxRowid = 3
    Proc = {p1, p2}
    Label = {a, b}
    Title = {t}
    Ops = {"add", "upd", "del", "start", "stop", "status", "copy"}
    Crashes = FALSE
    MaxTime = 0
    MaxCommands = 3
    Exports = {"sqlite", "xml", "excel"}
    DiskFull = TRUE
SYMMETRY Symmetry
INVARIANT ScansAreSnapshots
PROPERTY UnknownMeansFailure
