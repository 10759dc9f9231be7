\* Three sockets, two threads inside bind/connect at once, explicit port 4.
CONSTANTS
    c1 = c1
    c2 = c2
    c3 = c3
    h1 = h1
    AnyAddr = AnyAddr
    BcastAddr = BcastAddr
    Conns <- MCConns
    Ports = {4}
    RPorts = {7}
    Hosts = {h1}
    InitPort = 1
    PortLo = 3
    PortHi = 8
    MaxInCall = 2
SPECIFICATION Spec
SYMMETRY MCSymmetry
INVARIANT PortsUnique
