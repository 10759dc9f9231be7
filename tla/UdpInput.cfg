\* Two sockets, one caller thread, datagrams to port 2 (the first wildcard
\* port) and 4, wildcard ports from 3..6.
CONSTANTS
    c1 = c1
    c2 = c2
    h1 = h1
    AnyAddr = AnyAddr
    BcastAddr = BcastAddr
    Conns <- MCConns
    Ports = {4}
    RPorts = {7}
    Hosts = {h1}
    InitPort = 1
    PortLo = 3
    PortHi = 6
    MaxInCall = 1
    SrcPorts = {7, 9}
    DstPorts = {2, 4}
    MaxRecv = 3
SPECIFICATION InputSpec
SYMMETRY MCSymmetry
INVARIANT InputTypeOK
INVARIANT PortsUnique
 
