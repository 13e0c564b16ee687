CONSTANTS
    Callers = {p1}
    Subs = {s1}
    Ids = {i1}
    MaxSockets = 2
    Lossy = 1
    Workload = {"subscribe", "unsubscribe", "close"}
    Overlaps = {
        "outageDuringSubscribe",
        "outageDuringUnsubscribe",
        "outageDuringReconnect",
        "closeDuringOperation",
        "idReuse"}
    NoSub = NoSub
    NoId = NoId
    Nobody = Nobody
SPECIFICATION FairSpec
INVARIANT OneHandshake
PROPERTIES
    ReconnectEnds
    OperationsReturn
    CloseEndsEverything
