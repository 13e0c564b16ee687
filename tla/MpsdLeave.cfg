CONSTANTS
    Callers = {p1}
    Handles = {h1}
    Refs = {r1}
    MaxVersion = 4
    MaxConnections = 2
    Workload = {"publish", "close", "drop"}
    Rta = Rta
    Nobody = Nobody
    NoHandle = NoHandle
    NoRef = NoRef
SPECIFICATION Spec
INVARIANTS
    LeaveIsFinal
