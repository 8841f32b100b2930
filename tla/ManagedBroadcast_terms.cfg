CONSTANTS
    Callers = {c1, c2}
    c1 = c1
    Messages = {m1}
    Accounts = {a1}
    a1 = a1
    f1 = f1
    Fees = {f1, NONE}
    SignerOf <- TwoFees
    MaxPolls = 2
    MaxCalls = 2
    NONE = NONE
SPECIFICATION Spec
INVARIANTS TypeOK LandedIsMine
CHECK_DEADLOCK FALSE
