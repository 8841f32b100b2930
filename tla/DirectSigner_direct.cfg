CONSTANTS
    k1 = k1
    k2 = k2
    t1 = t1
    t2 = t2
    NONE = NONE
    Keys = {k1, k2}
    Messages <- SomeMessages
    Texts = {t1, t2}
    Configs <- SomeConfigs
    Returned <- SomeReturned
    Drafts <- SomeDrafts
    Utf8 <- Plain
    WithTables <- Tabled
SPECIFICATION Spec
INVARIANTS
    TypeOK
    AvailabilityChecked
    RequestNamesOwnKey
PROPERTIES
    KeepsContract
    OtherSignaturesSurvive
