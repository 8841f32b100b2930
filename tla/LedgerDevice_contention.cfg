CONSTANTS
    Callers = {c1, c2}
    Devices = {d1}
    Paths = {p1}
    Configs <- AnyDevice
    p1 = p1
    Messages = {tx}
    Envelopes = {}
    MaxRetries = 1
    MaxQueue = 1
    NONE = NONE
SPECIFICATION Spec
SYMMETRY Symmetry
INVARIANTS
    TypeOK
    ClaimExclusive
    NoWaitBehindPrompt
    PromptKeepsClaim
    NoLostCall
