CONSTANTS
    Callers = {p1}
    Subs = {s1}
    Ids = {i1, i2}
    MaxSockets = 3
    Lossy = 1
    Workload = {"subscribe", "unsubscribe"}
    Overlaps = {
        "outageDuringUnsubscribe"}
    NoSub = NoSub
    NoId = NoId
    Nobody = Nobody
SPECIFICATION Spec
PROPERTY OnlySubscribeActivates
