SPECIFICATION Spec
CONSTANTS
    Letter <- Letters
    Percent = "%"
    Underscore = "_"
    Star = "*"
    Upper <- UpperCase
    MaxTitle = 3
    MaxPattern = 2
INVARIANT QueryFindsParts
