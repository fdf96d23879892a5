CONSTANTS
    c1 = c1
    c2 = c2
    Calls = {c1, c2}
    AccessTTL = 1
    RefreshTTL = 2
    MaxTokens = 3
    MaxTime = 2
    MaxLost = 1
    MaxEvicted = 1
SPECIFICATION Spec
INVARIANTS TypeOK OneUsableToken RotatedOnce RevokedIsDefinitive
    UsableTokenIsKnown AccessEndsWithSession
PROPERTIES DeadStaysDead
SYMMETRY Symmetry
CHECK_DEADLOCK FALSE
