SYMMETRY Alike
SPECIFICATION Spec
CONSTANTS
    first = first
    again = again
    other = other
    Home = a
    Sessions = {a, b}
    Runs = {r1, r2}
    NoRun = NoRun
    Prompts = {first, again, other}
    Text <- Words
    Withdrawable = {other}
    MaxEdits = 1
    MaxSwitches = 1
    MaxRequests = 2
INVARIANTS NeverAgain CardShowsReads
PROPERTIES LeavesForAReason
CHECK_DEADLOCK FALSE
