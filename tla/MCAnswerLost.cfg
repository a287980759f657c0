SPECIFICATION Spec
CONSTANTS
    host = host
    guest = guest
    ask = ask
    run = run
    Devices = {host, guest}
    From <- Askers
    To <- Workers
    MaxConnections <- BothReturn
    Calls = {ask}
    InboxLimit = 2
    MaxTries = 1
    Mishaps = {"cut"}
    MaxMishaps = 1
INVARIANT AnswerFindsAsker
CHECK_DEADLOCK FALSE
