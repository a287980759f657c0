SPECIFICATION Spec
CONSTANTS
    Proc = {p1, p2}
    Session = {s1}
    Owner = {o1, o2}
    None = None
    Gone = Gone
    LeaseTTL = 3
    MaxDelay = 2
    MaxHolds = 2
SYMMETRY Symmetry
INVARIANTS OneRunner NoStaleDeferral
PROPERTIES ImplementsSessionWork
