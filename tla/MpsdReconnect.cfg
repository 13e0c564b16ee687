CONSTANTS
    Callers = {p1}
    Handles = {h1, h2}
    Refs = {r1, r2}
    MaxVersion = 3
    MaxConnections = 2
    Workload = {"join", "drop"}
    Rta = Rta
    Nobody = Nobody
    NoHandle = NoHandle
    NoRef = NoRef
SPECIFICATION Spec
SYMMETRY Symmetry
INVARIANTS
    TypeOK
    NoStaleConnection
PROPERTIES
    KeepsNewer
