CONSTANTS
    Callers = {p1}
    Subs = {s1}
    Ids = {i1, i2}
    MaxSockets = 2
    Lossy = 0
    Workload = {"subscribe", "close"}
    Overlaps = {
        "closeDuringOperation"}
    NoSub = NoSub
    NoId = NoId
    Nobody = Nobody
SPECIFICATION Spec
INVARIANT ClosedDeactivates
