\* Two hosts and two codes, for one device or for two; a host may try again.
SPECIFICATION Spec
CONSTANTS
    Ids = {d1, d2}
    Codes = {k1, k2}
    Hosts = {h1, h2}
    Tries = {t1, t2, t3}
    None = None
    Broken = Broken
\* Codes and runs are used up.
CHECK_DEADLOCK FALSE
SYMMETRY MCSymmetry
INVARIANTS EnrolledIsRegistered
PROPERTY OnlyCurrentCode
