SPECIFICATION FairClients
CONSTANTS
    service = service
    web = web
    tui = tui
    page = page
    term = term
    Proc = {service}
    Session = {s1}
    Owner = {web, tui}
    None = None
    Gone = Gone
    LeaseTTL = 4
    MaxDelay = 2
    MaxHolds = 1
    Client = {page, term}
    ClientProc <- OneService
    ClientOwner <- TwoApps
    WorkOwners <- ServiceWork
INVARIANTS FirmClientKeepsSession RunKeepsReservation
PROPERTIES DisplacedClientFindsOut AbandonedClaimExpires
