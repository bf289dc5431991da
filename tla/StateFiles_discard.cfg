SPECIFICATION Spec
CONSTANTS
    Procs = {p1, p2}
    Attempts = {a1, a2}
    Entries = {1, 2}
    Releases = {r1, r2}
    None = None
    Torn = Torn
    Renamed = Renamed
    MaxFaults = 1
    MaxLate = 0
    MaxLosses = 1
SYMMETRY Symmetry
INVARIANTS
    DiscardReleases
