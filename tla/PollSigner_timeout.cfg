CONSTANTS
    k1 = k1
    k2 = k2
    t1 = t1
    f1 = f1
    NONE = NONE
    Keys = {k1, k2}
    Messages <- SomeMessages
    Texts = {t1}
    Configs <- SomeConfigs
    Fees = {f1}
    Returned <- SomeReturned
    Drafts <- SomeDrafts
    V1Messages <- V1
    Vaults <- SomeVaults
    MaxCalls = 2
SPECIFICATION Spec
INVARIANT TimeoutKeepsId
