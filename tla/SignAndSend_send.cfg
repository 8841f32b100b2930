CONSTANTS
    k1 = k1
    k2 = k2
    s1 = s1
    s2 = s2
    NONE = NONE
    Keys = {k1, k2}
    Messages <- SomeMessages
    Texts = {}
    Signers = {s1, s2}
    Casts <- SomeCasts
    KeyOf <- Keyed
    Drafts <- SomeDrafts
    Rewritten <- SomeRewritten
    MaxCalls = 4
SPECIFICATION Spec
CHECK_DEADLOCK FALSE
INVARIANTS
    AtMostOnce
    OnlyCompleteIsSent
    UnconfirmedNamesTransaction
