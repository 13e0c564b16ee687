CONSTANTS
    Callers = {p1, p2}
    RelyingParties = {xbl, other}
    DefaultRP = xbl
    MaxTokens = 2
    MaxExpired = 1
    MaxRejections = 1
    Nobody = Nobody
    Nowhere = Nowhere
SPECIFICATION FairSpec
INVARIANTS
    TypeOK
    RejectedStaysOut
PROPERTIES
    KeepsPromise
    CallsReturn
