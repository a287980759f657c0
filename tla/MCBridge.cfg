SPECIFICATION Spec
CONSTANTS
    host = host
    guest = guest
    ask = ask
    run = run
    Devices = {host, guest}
    From <- Askers
    To <- Workers
    MaxConnections <- BothReturn
    Calls = {ask}
    InboxLimit = 1
    MaxTries = 1
    Mishaps = {"cut", "restart", "stop", "crash", "expired", "slow"}
    MaxMishaps = 2
INVARIANTS TypeOK OneConnection AskerRecovers
PROPERTIES CarriedOutOnce KeptUntilAcked
CHECK_DEADLOCK FALSE
