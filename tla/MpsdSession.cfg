CONSTANTS
    Callers = {p1, p2}
    Handles = {h1}
    Refs = {r1}
    MaxVersion = 4
    MaxConnections = 1
    Workload = {"join", "publish", "set", "sync", "close", "event", "others", "unsubscribe"}
    Rta = Rta
    Nobody = Nobody
    NoHandle = NoHandle
    NoRef = NoRef
SPECIFICATION Spec
SYMMETRY Symmetry
INVARIANTS
    CallbackSeesChange
    EntersAndLeavesOnce
PROPERTIES
    VersionsGrow
