SPECIFICATION Spec
CONSTANTS
    first = first
    again = again
    other = other
    Home = a
    Sessions = {a, b}
    Runs = {r1, r2}
    NoRun = NoRun
    Prompts = {first, other}
    Text <- Words
    Withdrawable = {other}
    MaxEdits = 0
    MaxSwitches = 1
    MaxRequests = 1
INVARIANT PromptsStayInSession
CHECK_DEADLOCK FALSE
