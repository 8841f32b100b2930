CONSTANTS
    Callers = {c1, c2}
    c1 = c1
    Messages = {m1}
    Accounts = {a1}
    a1 = a1
    f1 = f1
    Fees = {f1, NONE}
    SignerOf <- OneAccount
    MaxPolls = 3
    MaxCalls = 2
    NONE = NONE
SPECIFICATION FairSpec
INVARIANTS OneOrder RefusedMeansNothing UnconfirmedLeadsToOrder SlotAccounts ApprovesOnce
PROPERTIES SendsReturn
CHECK_DEADLOCK FALSE
