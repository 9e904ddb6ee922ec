SPECIFICATION Spec
CONSTANTS
    Path <- PathNames
    NoText = NoText
    DefaultLog = "pwt.log"
    DefaultDatabase = "pwt.sqlite"
    MaxChildren = 3
    File <- Files
    FileOf <- NamedFile
INVARIANT PathsAreRead
PROPERTY TasksStay
