SPECIFICATION ReportsSpec
CONSTANTS
    Null = Null
    Blank = Blank
    MaxRowid = 6
    Proc = {p1}
    Label = {a, b}
    Title = {t}
    Ops = {"add", "upd", "del", "start", "stop", "status", "copy"}
    Crashes = TRUE
    MaxTime = 1
    MaxCommands = 6
    Exports = {"sqlite", "xml", "excel"}
    DiskFull = TRUE
SYMMETRY Symmetry
INVARIANTS OneOpenRecord UniqueLabels
PROPERTIES OkMeansDone ListIsComplete GoodStreamMeansExported
