CONSTANTS
    Proc = {p1, p2}
    MAX_SOCKET = 2
    MAX_UDP_BUFLEN = 4
    Traffic = {1}
    Msg = {m1, m2}
    NoMsg = NoMsg
    Careless = {}
SPECIFICATION Spec
SYMMETRY Symmetry
INVARIANTS
    TypeOK
PROPERTIES
    Channels
