SPECIFICATION Spec
CONSTANTS
    Caller = {c1, c2}
    Nobody = Nobody
    MaxInstance = 3
INVARIANTS
    DeadProxyIsDropped
