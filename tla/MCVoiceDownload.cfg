SPECIFICATION Spec
CONSTANTS
    p1 = p1
    p2 = p2
    Procs = {p1, p2}
    Length = 1
    Listings <- MCListings
SYMMETRY MCSymmetry
INVARIANTS
    Recoverable
    InstalledIsWhole
PROPERTIES
    InstalledStays
