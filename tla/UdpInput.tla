------------------------------ MODULE UdpInput ------------------------------
(***************************************************************************)
(* The inbound UDP path of net/udp/udp_input.c on top of the connection    *)
(* table.  The driver holds one received datagram at a time and hands it   *)
(* to udp_input at interrupt level, which runs atomically with respect to  *)
(* the socket calls of UdpConn.  The application hook reached through      *)
(* udp_callback (devif_callback_execute, not under src/) is free to        *)
(* consume the data or not; the model lets it do either.                   *)
(***************************************************************************)
EXTENDS UdpConn

CONSTANTS
    SrcPorts,   \* source ports of received datagrams
    DstPorts,   \* destination ports of received datagrams
    MaxRecv     \* model bound on g_netstats.udp.recv

ASSUME InputAssumption ==
    /\ SrcPorts \subseteq Nat \ {0}
    /\ DstPorts \subseteq Nat \ {0}
    /\ MaxRecv \in Nat

\* A datagram as udp_input sees it: header ports, source address, and the
\* checksum field: absent (0), matching the payload, or not.
Datagrams == [dst : DstPorts, src : SrcPorts, from : Hosts,
              sum : {"none", "good", "bad"}]

NoDatagram == [dst |-> 0]

VARIABLES
    held,       \* the datagram in the driver's buffer, or NoDatagram
    recv,       \* g_netstats.udp.recv
    drop,       \* g_netstats.udp.drop
    discarded   \* datagrams udp_input told the driver to delete undelivered

inputVars == <<held, recv, drop, discarded>>
allVars == <<vars, inputVars>>

InputTypeOK ==
    /\ TypeOK
    /\ held \in Datagrams \cup {NoDatagram}
    /\ recv \in 0..MaxRecv
    /\ drop \in 0..MaxRecv
    /\ discarded \in 0..MaxRecv

\* udp_active (udp_conn.c:305-338): the first connection of the active
\* queue that accepts datagram d, as a one-element set, or {}.
Match(d) ==
    LET hits == {i \in DOMAIN activeq : Accepts(activeq[i], d.dst, d.src, d.from)}
    IN  {activeq[i] : i \in {j \in hits : \A k \in hits : j <= k}}

\* udp_callback(dev, conn, UDP_NEWDATA) (udp_callback.c:79-94), conn given
\* as the set Match returns: is UDP_NEWDATA still set in the flags it
\* returns?  With no connection the flags come back as passed; with one,
\* devif_callback_execute runs the hooks, which clear it when they consume.
NewDataLeft(conn, consumed) == conn = {} \/ ~consumed

InputInit ==
    /\ Init
    /\ held = NoDatagram
    /\ recv = 0 /\ drop = 0 /\ discarded = 0

\* The driver receives a datagram into its buffer.
Receive(d) ==
    /\ held = NoDatagram
    /\ held' = d
    /\ UNCHANGED <<vars, recv, drop, discarded>>

\* Mutant: the checksum-error count is added to udp.drop as well.
ChecksumDropTwice ==
    /\ held.sum = "bad"
    /\ drop' = drop + 2
    /\ discarded' = discarded + 1
    /\ held' = NoDatagram

\* udp_input on a datagram whose checksum is present and wrong
\* (udp_input.c:116-126): counted as dropped and deleted.
ChecksumDrop ==
    /\ held.sum = "bad"
    /\ drop' = drop + 1
    /\ discarded' = discarded + 1
    /\ held' = NoDatagram

\* udp_active finds no connection (udp_input.c:132-133, 167-171): the
\* datagram is deleted.
NoListener ==
    /\ held.sum # "bad"
    /\ Match(held) = {}
    /\ discarded' = discarded + 1
    /\ held' = NoDatagram
    /\ UNCHANGED drop

\* udp_active finds a connection and udp_callback runs the hook
\* (udp_input.c:132-165): consumed says whether it cleared UDP_NEWDATA; if
\* not, udp_input returns ERROR and the driver keeps the datagram to offer
\* again (151-158).  The reply the hook may queue through d_sndlen
\* (162-165) changes no state modelled here.
Deliver(consumed) ==
    /\ held.sum # "bad"
    /\ Match(held) # {}
    /\ held' = IF NewDataLeft(Match(held), consumed) THEN held ELSE NoDatagram
    /\ UNCHANGED <<drop, discarded>>

\* udp_input (udp_input.c:100-175) on the held datagram, at interrupt
\* level: the receive count, then one of the three outcomes.
Input(consumed) ==
    /\ held # NoDatagram
    /\ recv < MaxRecv
    /\ recv' = recv + 1
    /\ \/ ChecksumDrop
       \/ NoListener
       \/ Deliver(consumed)
    /\ UNCHANGED vars

InputNext ==
    \/ Next /\ UNCHANGED inputVars
    \/ \E d \in Datagrams : Receive(d)
    \/ \E consumed \in BOOLEAN : Input(consumed)

InputSpec == InputInit /\ [][InputNext]_allVars

(* Properties.                                                             *)

(* Every datagram udp_input deletes without delivering is counted in       *)
(* g_netstats.udp.drop (spec 4.4 steps 2 and 4).                           *)
DropsCounted ==
    drop = discarded

=============================================================================
