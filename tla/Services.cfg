CONSTANTS
    Callers = {p1, p2}
    Nobody = Nobody
    Registrations = {r1, r2}
    MaxConns = 2
    MaxLosses = 1
    MaxVersion = 1
    Titles = {"current", "default"}
    DefaultID = "default"
    TitleIDs <- TitleIDsValue
    Known <- KnownValue
    Data <- DataValue
    XBL = "xbl"
    Urls <- UrlsValue
    NoUrl = NoUrl
    MaxCanceled = 1
    MaxCalls = 2
    MaxWebSockets = 2
    Keys = {k1, k2, k3}
    NoKey = NoKey
    ContinuationTokens = {t1, t2}
    NoToken = NoToken
    maxPages = 3
    maxAchievements = 2
    MaxPageItems = 2
    MaxIssued = 3
    Refreshing = TRUE
    blockSize = 3
    maxProfileImageSize = 6
    MaxLength = 7
    MaxUploads = 2
SPECIFICATION ServicesSpec
INVARIANTS
    CleanedStaysClean
    LossIsReported
    SubscriptionHasHandler
    NoForgottenConnection
    SingleFlight
    RightRelyingParty
    CancellationStaysPrivate
    AnswersOwnCall
    SendsToOpenChannel
    NoEntryIsLeft
    ReturnsCollection
    PublishedIsComplete
PROPERTIES
    ReplacedWhenExpired
    CallsReturn
