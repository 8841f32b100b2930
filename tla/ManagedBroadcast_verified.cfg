CONSTANTS
    Callers = {c1, c2}
    c1 = c1
    Messages = {m1}
    Accounts = {a1}
    a1 = a1
    f1 = f1
    Fees = {f1, NONE}
    SignerOf <- OneAccount
    MaxPolls = 1
    MaxCalls = 1
    NONE = NONE
SPECIFICATION Spec
INVARIANTS SignatureVerified
CHECK_DEADLOCK FALSE
