CONSTANTS
    Callers = {p1, p2}
    Subs = {s1, s2}
    Ids = {i1, i2, i3}
    MaxSockets = 3
    Lossy = 2
    Workload = {"subscribe", "unsubscribe", "close"}
    Overlaps = {
        "lateAnswer",
        "outageDuringSubscribe",
        "outageDuringReconnect"}
    NoSub = NoSub
    NoId = NoId
    Nobody = Nobody
SPECIFICATION SafetySpec
SYMMETRY Symmetry
INVARIANTS
    TypeOK
    NoOrphanCall
    ActiveIsOwned
    ClosedDeactivates
    CalmStrandsNobody
    CalmCloseLeavesNoOpenSocket
