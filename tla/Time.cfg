SPECIFICATION Spec
CONSTANTS
    Instants = {0, 59, 3599, 3600, 86399, 86400, 90061}
    Winter = 36000
    Summer = 39600
    Spring = 3600
    Autumn = 86400
INVARIANTS SpentIsElapsed StoredIsElapsed
