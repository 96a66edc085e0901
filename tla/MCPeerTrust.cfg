SPECIFICATION MCSpec
CONSTANTS
    m1 = m1
    m2 = m2
    d1 = d1
    d2 = d2
    c1 = c1
    c2 = c2
    Master <- MCMaster
    Device <- MCDevice
    Curve <- MCCurve
    IdBlock <- MCIdBlock
    Lists <- MCLists
    Certs <- MCCerts
    Checks = {}
    MaxVersion = 3
    OwnAccount = FALSE
    NoMaster = NoMaster
    NoCurve = NoCurve
INVARIANTS
    TypeOK
    CertifiedAhead
    OnlyVouched
    VerifiedWasCompared
PROPERTIES
    NothingUndone
