CONSTANTS
    Callers = {p1}
    Subs = {s1}
    Ids = {i1, i2}
    MaxSockets = 4
    Lossy = 2
    Workload = {"subscribe"}
    Overlaps = {
        "outageDuringReconnect"}
    NoSub = NoSub
    NoId = NoId
    Nobody = Nobody
SPECIFICATION Spec
INVARIANT NoStranded
