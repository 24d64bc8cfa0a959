\* contracts/console-input-web.md: "Expiry/guard failure resets and emits unavailable, then
\* IDLE".
SPECIFICATION FairSpec
CONSTANTS
    Peers = {p1, p2}
    Codes = {k1}
    LeaseTicks = 1
    CapTicks = 2
    None = None
PROPERTY ExpiryGoesIdle
