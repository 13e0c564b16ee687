CONSTANTS
    Callers = {p1}
    Nobody = Nobody
    Titles = {"current"}
    DefaultID = "default"
    TitleIDs <- TitleIDsValue
    Known <- KnownValue
    Data <- DataValue
    XBL = "xbl"
    Urls <- UrlsValue
    NoUrl = NoUrl
    MaxCanceled = 0
SPECIFICATION NsalSpec
INVARIANTS
    FqdnWinsOnlyAfterWildcards
