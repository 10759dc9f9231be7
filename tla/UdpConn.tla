------------------------------- MODULE UdpConn -------------------------------
(***************************************************************************)
(* The UDP connection table of net/udp/udp_conn.c: the array               *)
(* g_udp_connections, its free and active queues, and the port cursor      *)
(* g_last_udp_port.  Each connection is driven by the socket that owns it, *)
(* one call at a time; calls on different connections interleave.  Port   *)
(* selection and the explicit-port check run under net_lock, but the       *)
(* assignments that follow a selection (conn->lport = ..., then the remote *)
(* fields in udp_connect) run after net_unlock, each its own step.         *)
(*                                                                         *)
(* Port numbers are kept in host order: the code stores and compares them  *)
(* in network order on both sides (htons), a bijection that does not       *)
(* change which ports are equal.                                           *)
(***************************************************************************)
EXTENDS Naturals, Sequences, FiniteSets

CONSTANTS
    Conns,      \* the slots of g_udp_connections (CONFIG_NET_UDP_CONNS)
    Ports,      \* non-zero ports a socket may pass to bind explicitly
    RPorts,     \* non-zero remote ports a socket may connect to
    Hosts,      \* remote host addresses
    AnyAddr,    \* g_allzeroaddr
    BcastAddr,  \* g_alloneaddr
    InitPort,   \* g_last_udp_port after udp_initialize (1024)
    PortLo,     \* where the cursor wraps to (4096)
    PortHi,     \* the cursor wraps when it reaches this value (32000)
    MaxInCall   \* threads that may be inside bind/connect at the same time

ASSUME ConnAssumption ==
    /\ IsFiniteSet(Conns)
    /\ Ports \subseteq Nat \ {0}
    /\ RPorts \subseteq Nat \ {0}
    /\ AnyAddr \notin Hosts /\ BcastAddr \notin Hosts /\ AnyAddr # BcastAddr
    /\ InitPort \in Nat /\ PortLo \in Nat \ {0} /\ PortHi \in Nat
    /\ InitPort < PortHi /\ PortLo < PortHi
    \* the cursor starts below the range it wraps into (1024 < 4096)
    /\ InitPort < PortLo
    /\ MaxInCall \in Nat \ {0}
    \* udp_select_port assumes a free port always exists (udp_conn.c:145-149)
    /\ Cardinality(Conns) < PortHi - PortLo

Addrs == Hosts \cup {AnyAddr, BcastAddr}

\* Ports udp_select_port can produce.
EphemeralPorts == (InitPort + 1)..(PortHi - 1)

\* Values a local port takes: 0 (unbound), selected or explicit.
LPorts == {0} \cup EphemeralPorts \cup Ports

\* Where each socket is in a bind or connect call.
Phases == {"idle",      \* between calls
           "bindsel",   \* udp_bind: port selected, lport not yet written
           "connsel",   \* udp_connect: port selected, lport not yet written
           "connrem"}   \* udp_connect: lport set, remote not yet written

VARIABLES
    lport,      \* lport[c], 0 when unbound
    rport,      \* rport[c], 0 for any remote port
    raddr,      \* ripaddr[c]
    freeq,      \* g_free_udp_connections
    activeq,    \* g_active_udp_connections
    lastport,   \* g_last_udp_port
    phase,      \* phase[c]: where the owning socket is in its call
    selport,    \* selport[c]: the port udp_select_port returned to it
    remote      \* remote[c]: the <<rport, ripaddr>> udp_connect is to write

vars == <<lport, rport, raddr, freeq, activeq, lastport, phase, selport, remote>>

TypeOK ==
    /\ lport \in [Conns -> LPorts]
    /\ rport \in [Conns -> {0} \cup RPorts]
    /\ raddr \in [Conns -> Addrs]
    /\ freeq \in Seq(Conns)
    /\ activeq \in Seq(Conns)
    /\ lastport \in {InitPort} \cup EphemeralPorts
    /\ phase \in [Conns -> Phases]
    /\ selport \in [Conns -> {0} \cup EphemeralPorts]
    /\ remote \in [Conns -> ({0} \cup RPorts) \X Addrs]

(* Helpers.                                                                *)

\* The connections in a queue.
InQueue(q) == {q[i] : i \in DOMAIN q}

\* dq_rem of c from queue q (udp_conn.c:283-285): the node of c is
\* unlinked and its neighbours joined.  A node is linked into one queue at
\* one place, so c sits at a single position of q.
Remove(q, c) ==
    LET i == CHOOSE j \in DOMAIN q : q[j] = c
    IN  SubSeq(q, 1, i - 1) \o SubSeq(q, i + 1, Len(q))

\* udp_find_conn (udp_conn.c:122-137) scans the whole array, free slots
\* included: the ports it finds in use.
UsedPorts == {lport[c] : c \in Conns}

\* One turn of the loop of udp_select_port (udp_conn.c:174-181).
NextPort(p) == IF p + 1 >= PortHi THEN PortLo ELSE p + 1

\* Mutant: the cursor is advanced once, without asking udp_find_conn.
SelectPortBlind == NextPort(lastport)

\* The cursor after k turns of the loop of udp_select_port from l
\* (udp_conn.c:170-181): it counts up to PortHi - 1, then goes round the
\* range PortLo..(PortHi - 1).  This is NextPort applied k times.
TurnFrom(l, k) ==
    IF l + k < PortHi THEN l + k
    ELSE PortLo + ((l + k - PortHi) % (PortHi - PortLo))

\* udp_select_port (udp_conn.c:159-193): advance the cursor until it names
\* a port udp_find_conn does not find.  Cardinality(Conns) < PortHi - PortLo
\* bounds the number of turns by PortHi - InitPort.
SelectPort ==
    LET stop == CHOOSE t \in 1..(PortHi - InitPort) :
                    /\ TurnFrom(lastport, t) \notin UsedPorts
                    /\ \A j \in 1..(t - 1) : TurnFrom(lastport, j) \in UsedPorts
    IN  TurnFrom(lastport, stop)

\* A thread may enter a call of this file: fewer than MaxInCall sockets
\* are in the middle of bind or connect.
MayEnter == Cardinality({c \in Conns : phase[c] # "idle"}) < MaxInCall

\* The test of udp_active (udp_conn.c:321-325): does connection c accept a
\* datagram to port dst from port src at address from?
Accepts(c, dst, src, from) ==
    /\ lport[c] # 0
    /\ dst = lport[c]
    /\ rport[c] = 0 \/ src = rport[c]
    /\ raddr[c] \in {AnyAddr, BcastAddr} \/ from = raddr[c]

(* Actions.                                                                *)

\* udp_initialize (udp_conn.c:208-227): every slot unbound on the free
\* queue in array order, the cursor at 1024.  The remote fields of a slot
\* are whatever the zeroed array holds.
Init ==
    /\ lport = [c \in Conns |-> 0]
    /\ rport = [c \in Conns |-> 0]
    /\ raddr = [c \in Conns |-> AnyAddr]
    /\ freeq \in {q \in [1..Cardinality(Conns) -> Conns] : InQueue(q) = Conns}
    /\ activeq = <<>>
    /\ lastport = InitPort
    /\ phase = [c \in Conns |-> "idle"]
    /\ selport = [c \in Conns |-> 0]
    /\ remote = [c \in Conns |-> <<0, AnyAddr>>]

\* udp_alloc (udp_conn.c:238-261): the head of the free queue, unbound, to
\* the tail of the active queue.  Its remote fields are left as they were.
\* An empty free queue returns NULL and changes nothing.
UdpAlloc ==
    /\ MayEnter
    /\ \/ /\ freeq # <<>>
          /\ lport' = [lport EXCEPT ![Head(freeq)] = 0]
          /\ freeq' = Tail(freeq)
          /\ activeq' = Append(activeq, Head(freeq))
          /\ UNCHANGED <<rport, raddr, lastport, phase, selport, remote>>
       \/ /\ freeq = <<>>
          /\ UNCHANGED vars

\* udp_free (udp_conn.c:272-291) of an active connection between calls.
UdpFree(c) ==
    /\ c \in InQueue(activeq)
    /\ phase[c] = "idle"
    /\ MayEnter
    /\ lport' = [lport EXCEPT ![c] = 0]
    /\ activeq' = Remove(activeq, c)
    /\ freeq' = Append(freeq, c)
    /\ UNCHANGED <<rport, raddr, lastport, phase, selport, remote>>

\* The selection step shared by udp_bind to port 0 and udp_connect of an
\* unbound connection: udp_select_port under net_lock.
SelectFor(c, next) ==
    /\ lastport' = SelectPort
    /\ selport' = [selport EXCEPT ![c] = SelectPort]
    /\ phase' = [phase EXCEPT ![c] = next]
    /\ UNCHANGED <<lport, rport, raddr, freeq, activeq>>

\* udp_bind with port 0 (udp_conn.c:387-393), first step: select a port.
UdpBindAny(c) ==
    /\ c \in InQueue(activeq)
    /\ phase[c] = "idle"
    /\ MayEnter
    /\ SelectFor(c, "bindsel")
    /\ UNCHANGED remote

\* udp_bind with port 0, second step, after net_unlock: conn->lport = port.
UdpBindAssign(c) ==
    /\ phase[c] = "bindsel"
    /\ lport' = [lport EXCEPT ![c] = selport[c]]
    /\ phase' = [phase EXCEPT ![c] = "idle"]
    /\ selport' = [selport EXCEPT ![c] = 0]
    /\ UNCHANGED <<rport, raddr, freeq, activeq, lastport, remote>>

\* udp_bind to a non-zero port p (udp_conn.c:394-413): under net_lock,
\* bind unless some slot already has p; otherwise -EADDRINUSE.
UdpBindPort(c, p) ==
    /\ c \in InQueue(activeq)
    /\ phase[c] = "idle"
    /\ MayEnter
    /\ \/ /\ p \notin UsedPorts
          /\ lport' = [lport EXCEPT ![c] = p]
       \/ /\ p \in UsedPorts
          /\ UNCHANGED lport
    /\ UNCHANGED <<rport, raddr, freeq, activeq, lastport, phase, selport, remote>>

\* udp_connect (udp_conn.c:442-472) with remote <<rp, ra>> (<<0, AnyAddr>>
\* for a NULL address), first step: select a local port when unbound
\* (udp_conn.c:448-455), otherwise go straight to writing the remote.
UdpConnect(c, rp, ra) ==
    /\ c \in InQueue(activeq)
    /\ phase[c] = "idle"
    /\ MayEnter
    /\ remote' = [remote EXCEPT ![c] = <<rp, ra>>]
    /\ \/ /\ lport[c] = 0
          /\ SelectFor(c, "connsel")
       \/ /\ lport[c] # 0
          /\ phase' = [phase EXCEPT ![c] = "connrem"]
          /\ UNCHANGED <<lport, rport, raddr, freeq, activeq, lastport, selport>>

\* udp_connect, second step after net_unlock: conn->lport = port
\* (udp_conn.c:454).
UdpConnectAssign(c) ==
    /\ phase[c] = "connsel"
    /\ lport' = [lport EXCEPT ![c] = selport[c]]
    /\ phase' = [phase EXCEPT ![c] = "connrem"]
    /\ selport' = [selport EXCEPT ![c] = 0]
    /\ UNCHANGED <<rport, raddr, freeq, activeq, lastport, remote>>

\* udp_connect, last step: the remote port and address (udp_conn.c:459-470).
\* The TTL it also sets is a constant no property reads.
UdpConnectRemote(c) ==
    /\ phase[c] = "connrem"
    /\ rport' = [rport EXCEPT ![c] = remote[c][1]]
    /\ raddr' = [raddr EXCEPT ![c] = remote[c][2]]
    /\ phase' = [phase EXCEPT ![c] = "idle"]
    /\ remote' = [remote EXCEPT ![c] = <<0, AnyAddr>>]
    /\ UNCHANGED <<lport, freeq, activeq, lastport, selport>>

\* The remotes a connect call may name: a host and port, or NULL.
Remotes == (RPorts \X Hosts) \cup {<<0, AnyAddr>>}

Next ==
    \/ UdpAlloc
    \/ \E c \in Conns :
          \/ UdpFree(c)
          \/ UdpBindAny(c)
          \/ UdpBindAssign(c)
          \/ \E p \in Ports : UdpBindPort(c, p)
          \/ \E r \in Remotes : UdpConnect(c, r[1], r[2])
          \/ UdpConnectAssign(c)
          \/ UdpConnectRemote(c)

Spec == Init /\ [][Next]_vars

(* Properties.                                                             *)

(* Port uniqueness (spec 3, 8): no two active connections share a non-zero *)
(* local port, whatever the interleaving of bind and connect calls on      *)
(* different sockets.  It rests on udp_select_port and the explicit-port   *)
(* check of udp_bind each seeing every port another call is about to use.  *)
PortsUnique ==
    \A c, d \in InQueue(activeq) :
        c # d /\ lport[c] # 0 => lport[c] # lport[d]

(* The loop of udp_select_port (udp_conn.c:159-193) ends, however many     *)
(* sockets are bound and wherever the cursor stands: a bind or connect     *)
(* that selects a port gets one of the cursor's range that udp_find_conn   *)
(* finds on no slot at that moment, under net_lock.  It holds with any     *)
(* number of threads in the calls; what breaks PortsUnique is only the     *)
(* store after net_unlock.                                                 *)
SelectionFree ==
    [][\A s \in Conns :
          phase[s] = "idle" /\ phase'[s] \in {"bindsel", "connsel"}
              => selport'[s] \in EphemeralPorts \ UsedPorts]_vars

(* A record udp_alloc hands out is in the spec's Active/Unbound state: no  *)
(* local port and no remote filter, so that a later udp_bind makes it     *)
(* accept datagrams from every peer (spec 4.3, 8: demux correctness).     *)
(* udp_alloc clears only lport, and udp_free leaves rport and ripaddr as   *)
(* the last owner's connect wrote them.                                    *)
UnboundHasNoRemote ==
    \A c \in InQueue(activeq) :
        lport[c] = 0 => rport[c] = 0 /\ raddr[c] = AnyAddr

(* Wildcard bind progression (spec 8): every port udp_select_port hands   *)
(* out lies in the ephemeral range [4096, 32000).                          *)
EphemeralInRange ==
    [][\A c \in Conns : selport'[c] # 0 => selport'[c] \in PortLo..(PortHi - 1)]_vars

=============================================================================
