\* device/core/README.md:31: "A failed release faults control closed."
SPECIFICATION Spec
CONSTANTS
    c1 = c1  c2 = c2  c3 = c3  u1 = u1  u2 = u2
    Conns = {c1, c2}
    Uids = {u1}
    Uid <- MCUidTwo
    Permission <- MCPermissionOne
    Sids = {s1}
    Msgs = {}
    LeaseTicks = 1
    Retention = 2
    MaxOpen = 2
    MaxCached = 1
    None = None
INVARIANT FailedReleaseFaults
