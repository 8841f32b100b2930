CONSTANTS
    Callers = {c1}
    Devices = {d1, d2}
    Paths = {p1, p2}
    Configs <- AnyOrNamed
    p1 = p1
    Messages = {tx, env}
    Envelopes = {env}
    MaxRetries = 2
    MaxQueue = 1
    NONE = NONE
SPECIFICATION Spec
INVARIANTS
    SignatureBinds
    SessionMatches
    SessionAfterAnswer
PROPERTY ExclusiveAccess
