CONSTANTS
    Servers = {s1, s2}
    Conns = {c1, c2}
    Requests = {q1}
    None = None
SPECIFICATION Spec
PROPERTIES
    OnlyTheSilentGoOffline
