\* Two peers, two codes: a release may fail for one of them and not the other.
SPECIFICATION FairSpec
CONSTANTS
    Peers = {p1, p2}
    Codes = {k1, k2}
    LeaseTicks = 2
    CapTicks = 3
    None = None
INVARIANTS ControlMatchesOwner NothingLeftDown LeaseWithinCap
PROPERTIES OnlyOwnerTouches LapsedOwnerLoses StopEnds
