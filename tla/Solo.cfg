SPECIFICATION SoloSpec
CONSTANTS
    Null = Null
    Blank = Blank
    MaxRowid = 5
    Proc = {p1}
    Label = {a, b}
    Title = {t, u}
    Ops = {"add", "upd", "del", "start", "stop", "status", "copy"}
    Crashes = FALSE
    MaxTime = 2
    MaxCommands = 5
SYMMETRY Symmetry
INVARIANTS TypeOK RecordsHaveTasks NoDoubleCounting CopyReadsOriginalsOnly
PROPERTIES FreeMeansNothingOpen CopiesAllRecords ImplementsTracker
