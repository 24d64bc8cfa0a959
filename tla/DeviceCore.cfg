\* Two connections of one account, one of another that may not resize; a session, and
\* requests sent more than once.
SPECIFICATION FairSpec
CONSTANTS
    c1 = c1  c2 = c2  c3 = c3  u1 = u1  u2 = u2
    Conns = {c1, c2, c3}
    Uids = {u1, u2}
    Uid <- MCUidThree
    Permission <- MCPermission
    Sids = {s1}
    Msgs = {m1}
    LeaseTicks = 1
    Retention = 2
    MaxOpen = 1
    MaxCached = 1
    None = None
INVARIANTS LeaseIsBacked InjectionIsCovered OpenReplayNamesSession
PROPERTIES ControlIsKept ExpiredLeaseEnds AbandonedSessionEnds
