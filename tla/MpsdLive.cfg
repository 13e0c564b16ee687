CONSTANTS
    Callers = {p1}
    Handles = {h1}
    Refs = {r1}
    MaxVersion = 3
    MaxConnections = 2
    Workload = {"publish", "close", "event", "drop"}
    Rta = Rta
    Nobody = Nobody
    NoHandle = NoHandle
    NoRef = NoRef
SPECIFICATION FairSpec
PROPERTIES
    CallsReturn
