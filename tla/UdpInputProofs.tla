---------------------------- MODULE UdpInputProofs ----------------------------
(***************************************************************************)
(* Proofs about the UDP connection table UdpConn and the inbound path      *)
(* UdpInput over it, for every connection table, port range and set of    *)
(* datagrams.                                                              *)
(***************************************************************************)
EXTENDS UdpInput, FiniteSetTheorems, SequenceTheorems, WellFoundedInduction, TLAPS

(* udp_select_port.  The range PortLo..(PortHi - 1) has more ports than  *)
(* there are slots, so one of its ports is free; the cursor reaches every *)
(* port of the range within PortHi - InitPort turns; so the loop stops,   *)
(* at the first free port it reaches, and the port it returns is free.    *)

\* Constants of the port range, as numbers.
LEMMA RangeFacts ==
    /\ InitPort \in Nat /\ PortLo \in Nat /\ PortHi \in Nat
    /\ InitPort < PortLo /\ PortLo < PortHi
    /\ IsFiniteSet(Conns) /\ Cardinality(Conns) \in Nat
    /\ Cardinality(Conns) < PortHi - PortLo
<1>1. IsFiniteSet(Conns)
    BY ConnAssumption
<1>2. QED
    BY <1>1, ConnAssumption, FS_CardinalityType

\* Fewer slots than ports in the range: some port of the range is unused.
LEMMA FreePortExists ==
    ASSUME TypeOK
    PROVE  \E pt \in PortLo..(PortHi - 1) : pt \notin UsedPorts
<1>1. lport \in Surjection(Conns, UsedPorts)
    BY DEF Surjection, UsedPorts, TypeOK
<1>2. IsFiniteSet(UsedPorts) /\ Cardinality(UsedPorts) <= Cardinality(Conns)
    BY <1>1, RangeFacts, FS_Surjection
<1>3. /\ IsFiniteSet(PortLo..(PortHi - 1))
      /\ Cardinality(PortLo..(PortHi - 1)) = PortHi - PortLo
    <2>1. PortLo \in Int /\ PortHi - 1 \in Int /\ ~(PortLo > PortHi - 1)
        BY RangeFacts
    <2>2. Cardinality(PortLo..(PortHi - 1))
            = IF PortLo > PortHi - 1 THEN 0 ELSE (PortHi - 1) - PortLo + 1
        BY <2>1, FS_Interval, Zenon
    <2>3. IsFiniteSet(PortLo..(PortHi - 1))
        BY <2>1, FS_Interval
    <2>4. QED
        BY <2>1, <2>2, <2>3, RangeFacts
<1>4. SUFFICES ASSUME PortLo..(PortHi - 1) \subseteq UsedPorts PROVE FALSE
    OBVIOUS
<1>5. Cardinality(PortLo..(PortHi - 1)) <= Cardinality(UsedPorts)
    BY <1>2, <1>4, FS_Subset
<1>6. QED
    BY <1>2, <1>3, <1>5, RangeFacts, FS_CardinalityType

\* The cursor reaches every port of the range within PortHi - InitPort turns.
LEMMA TurnHits ==
    ASSUME TypeOK, NEW pt \in PortLo..(PortHi - 1)
    PROVE  \E k \in 1..(PortHi - InitPort) : TurnFrom(lastport, k) = pt
<1>1. lastport \in Nat /\ InitPort <= lastport /\ lastport < PortHi
    BY RangeFacts DEF TypeOK, EphemeralPorts
<1>2. CASE pt > lastport
    <2>1. pt - lastport \in 1..(PortHi - InitPort)
        BY <1>1, <1>2, RangeFacts
    <2>2. TurnFrom(lastport, pt - lastport) = pt
        BY <1>1, <1>2, RangeFacts DEF TurnFrom
    <2>3. QED
        BY <2>1, <2>2
<1>3. CASE pt <= lastport
    <2> DEFINE kk == (PortHi - lastport) + (pt - PortLo)
    <2>1. kk \in 1..(PortHi - InitPort)
        BY <1>1, <1>3, RangeFacts DEF kk
    <2>2. lastport + kk >= PortHi /\ lastport + kk - PortHi = pt - PortLo
        BY <1>1, RangeFacts DEF kk
    <2>3. (pt - PortLo) % (PortHi - PortLo) = pt - PortLo
        BY RangeFacts
    <2>4. TurnFrom(lastport, kk)
            = PortLo + ((lastport + kk - PortHi) % (PortHi - PortLo))
        BY <1>1, <2>2, RangeFacts DEF TurnFrom
    <2>6. TurnFrom(lastport, kk) = pt
        BY <2>2, <2>3, <2>4, RangeFacts DEF kk
    <2>5. QED
        BY <2>1, <2>6
<1>4. QED
    BY <1>2, <1>3, <1>1, RangeFacts

\* Every turn of the cursor lands in the ports udp_select_port can produce.
LEMMA TurnInRange ==
    ASSUME TypeOK, NEW k \in 1..(PortHi - InitPort)
    PROVE  TurnFrom(lastport, k) \in EphemeralPorts
<1>1. lastport \in Nat /\ InitPort <= lastport /\ lastport < PortHi
    BY RangeFacts DEF TypeOK, EphemeralPorts
<1>2. CASE lastport + k < PortHi
    BY <1>1, <1>2, RangeFacts DEF TurnFrom, EphemeralPorts
<1>3. CASE lastport + k >= PortHi
    <2>1. (lastport + k - PortHi) % (PortHi - PortLo) \in 0..(PortHi - PortLo - 1)
        BY <1>1, <1>3, RangeFacts
    <2>2. QED
        BY <1>1, <1>3, <2>1, RangeFacts DEF TurnFrom, EphemeralPorts
<1>4. QED
    BY <1>2, <1>3, <1>1, RangeFacts


\* The loop of udp_select_port ends, at a port no slot uses, within the
\* ports it may produce: the first free turn is the one CHOOSE picks.
LEMMA SelectFresh ==
    ASSUME TypeOK
    PROVE  SelectPort \notin UsedPorts /\ SelectPort \in EphemeralPorts
<1> DEFINE Free == {n \in 1..(PortHi - InitPort) : TurnFrom(lastport, n) \notin UsedPorts}
<1>1. Free # {}
    <2>1. PICK pt \in PortLo..(PortHi - 1) : pt \notin UsedPorts
        BY FreePortExists
    <2>2. PICK n \in 1..(PortHi - InitPort) : TurnFrom(lastport, n) = pt
        BY <2>1, TurnHits
    <2>3. QED
        BY <2>1, <2>2 DEF Free
<1>2. PICK m \in Free : \A y \in Free : ~(<<y, m>> \in OpToRel(<, Nat))
    <2>1. Free \subseteq Nat
        BY RangeFacts DEF Free
    <2>2. QED
        BY <1>1, <2>1, NatLessThanWellFounded, WFMin
<1>3. /\ m \in 1..(PortHi - InitPort)
      /\ TurnFrom(lastport, m) \notin UsedPorts
      /\ \A i \in 1..(m - 1) : TurnFrom(lastport, i) \in UsedPorts
    <2>1. m \in 1..(PortHi - InitPort) /\ TurnFrom(lastport, m) \notin UsedPorts
        BY <1>2 DEF Free
    <2>2. ASSUME NEW i \in 1..(m - 1), TurnFrom(lastport, i) \notin UsedPorts
          PROVE  FALSE
        <3>1. i \in Free
            BY <2>1, <2>2, RangeFacts DEF Free
        <3>2. <<i, m>> \in OpToRel(<, Nat)
            BY <2>1, RangeFacts DEF OpToRel
        <3>3. QED
            BY <1>2, <3>1, <3>2
    <2>3. QED
        BY <2>1, <2>2
<1> DEFINE stop == CHOOSE t \in 1..(PortHi - InitPort) :
                       /\ TurnFrom(lastport, t) \notin UsedPorts
                       /\ \A j \in 1..(t - 1) : TurnFrom(lastport, j) \in UsedPorts
<1>4. /\ stop \in 1..(PortHi - InitPort)
      /\ TurnFrom(lastport, stop) \notin UsedPorts
    BY <1>3 DEF stop
<1>5. SelectPort = TurnFrom(lastport, stop)
    BY DEF SelectPort, stop
<1>6. QED
    BY <1>4, <1>5, TurnInRange


(* Helpers of the steps.                                                   *)

\* dq_rem leaves a queue of connection slots.
LEMMA RemoveType ==
    ASSUME NEW qs \in Seq(Conns), NEW x \in InQueue(qs)
    PROVE  Remove(qs, x) \in Seq(Conns)
<1> DEFINE ix == CHOOSE j \in DOMAIN qs : qs[j] = x
<1>1. ix \in 1..Len(qs)
    BY DEF InQueue, ix
<1>2. SubSeq(qs, 1, ix - 1) \in Seq(Conns)
    <2>1. \A n \in 1..(ix - 1) : qs[n] \in Conns
        BY <1>1
    <2>2. QED
        BY <1>1, <2>1, SubSeqProperties
<1>3. SubSeq(qs, ix + 1, Len(qs)) \in Seq(Conns)
    <2>1. \A n \in (ix + 1)..Len(qs) : qs[n] \in Conns
        BY <1>1
    <2>2. QED
        BY <1>1, <2>1, SubSeqProperties
<1>4. QED
    BY <1>2, <1>3, ConcatProperties DEF Remove, ix

\* udp_initialize starts every slot unbound on the free queue.
LEMMA InitType == Init => TypeOK
<1> SUFFICES ASSUME Init PROVE TypeOK
    OBVIOUS
<1>1. freeq \in Seq(Conns)
    BY RangeFacts DEF Init
<1>2. lastport \in {InitPort} \cup EphemeralPorts
    BY DEF Init
<1>3. /\ lport \in [Conns -> LPorts]
      /\ rport \in [Conns -> {0} \cup RPorts]
      /\ raddr \in [Conns -> Addrs]
      /\ activeq \in Seq(Conns)
      /\ phase \in [Conns -> Phases]
      /\ selport \in [Conns -> {0} \cup EphemeralPorts]
    BY DEF Init, LPorts, Addrs, Phases
<1>4. remote \in [Conns -> ({0} \cup RPorts) \X Addrs]
    BY DEF Init, Addrs
<1>5. QED
    BY <1>1, <1>2, <1>3, <1>4 DEF TypeOK

\* Every step of the connection table keeps the types.
LEMMA TypeStep == TypeOK /\ [Next]_vars => TypeOK'
<1> SUFFICES ASSUME TypeOK, [Next]_vars PROVE TypeOK'
    OBVIOUS
<1>1. CASE UdpAlloc
    <2>1. CASE freeq # <<>>
        <3>1. Head(freeq) \in Conns /\ Tail(freeq) \in Seq(Conns)
            BY <2>1 DEF TypeOK
        <3>2. Append(activeq, Head(freeq)) \in Seq(Conns)
            BY <3>1 DEF TypeOK
        <3>3. QED
            BY <1>1, <2>1, <3>1, <3>2 DEF UdpAlloc, TypeOK, LPorts
    <2>5. CASE freeq = <<>>
        BY <1>1, <2>5 DEF UdpAlloc, vars, TypeOK
    <2>6. QED
        BY <2>1, <2>5
<1>2. ASSUME NEW cc \in Conns, UdpFree(cc) PROVE TypeOK'
    <2>1. Remove(activeq, cc) \in Seq(Conns)
        BY <1>2, RemoveType DEF UdpFree, TypeOK
    <2>2. QED
        BY <1>2, <2>1 DEF UdpFree, TypeOK, LPorts
<1>3. ASSUME NEW cc \in Conns, NEW nx \in Phases, SelectFor(cc, nx),
             remote' \in [Conns -> ({0} \cup RPorts) \X Addrs]
      PROVE  TypeOK'
    <2>1. SelectPort \in EphemeralPorts
        BY SelectFresh
    <2>2. lastport' \in {InitPort} \cup EphemeralPorts
        BY <1>3, <2>1 DEF SelectFor
    <2>3. selport' \in [Conns -> {0} \cup EphemeralPorts]
        BY <1>3, <2>1 DEF SelectFor, TypeOK
    <2>4. phase' \in [Conns -> Phases]
        BY <1>3 DEF SelectFor, TypeOK
    <2>5. QED
        BY <1>3, <2>2, <2>3, <2>4 DEF SelectFor, TypeOK
<1>4. ASSUME NEW cc \in Conns, UdpBindAny(cc) PROVE TypeOK'
    BY <1>4, <1>3 DEF UdpBindAny, Phases, TypeOK
<1>5. ASSUME NEW cc \in Conns, UdpBindAssign(cc) \/ UdpConnectAssign(cc)
      PROVE  TypeOK'
    BY <1>5 DEF UdpBindAssign, UdpConnectAssign, TypeOK, LPorts, Phases
<1>6. ASSUME NEW cc \in Conns, NEW pp \in Ports, UdpBindPort(cc, pp) PROVE TypeOK'
    BY <1>6 DEF UdpBindPort, TypeOK, LPorts
<1>7. ASSUME NEW cc \in Conns, NEW rr \in Remotes, UdpConnect(cc, rr[1], rr[2])
      PROVE  TypeOK'
    <2>1. <<rr[1], rr[2]>> \in ({0} \cup RPorts) \X Addrs
        BY DEF Remotes, Addrs
    <2>2. CASE lport[cc] = 0
        <3>1. remote' \in [Conns -> ({0} \cup RPorts) \X Addrs]
            BY <1>7, <2>1 DEF UdpConnect, TypeOK
        <3>2. QED
            BY <1>7, <2>2, <3>1, <1>3 DEF UdpConnect, Phases
    <2>3. CASE lport[cc] # 0
        BY <1>7, <2>1, <2>3 DEF UdpConnect, TypeOK, Phases
    <2>4. QED
        BY <2>2, <2>3
<1>8. ASSUME NEW cc \in Conns, UdpConnectRemote(cc) PROVE TypeOK'
    BY <1>8 DEF UdpConnectRemote, TypeOK, Phases, Addrs
<1>9. CASE UNCHANGED vars
    BY <1>9 DEF vars, TypeOK
<1>10. QED
    BY <1>1, <1>2, <1>4, <1>5, <1>6, <1>7, <1>8, <1>9 DEF Next

(* Port selection with any number of threads in the calls.                *)

\* The step SelectionFree constrains.
SelectsFree ==
    \A s \in Conns :
        phase[s] = "idle" /\ phase'[s] \in {"bindsel", "connsel"}
            => selport'[s] \in EphemeralPorts \ UsedPorts

\* A selection step of udp_bind or udp_connect gives the selecting socket a
\* free port of the range and moves no other socket out of idle.
LEMMA SelectForFree ==
    ASSUME TypeOK, NEW cc \in Conns, NEW nx, SelectFor(cc, nx)
    PROVE  SelectsFree
<1>1. SelectPort \in EphemeralPorts \ UsedPorts
    BY SelectFresh
<1>2. QED
    BY <1>1 DEF SelectFor, SelectsFree, UsedPorts, TypeOK

\* Every other step either leaves the phases alone or moves a socket that
\* is already inside a call.
LEMMA SelectStep ==
    ASSUME TypeOK, [Next]_vars
    PROVE  SelectsFree
<1>1. CASE UdpAlloc
    BY <1>1 DEF UdpAlloc, vars, SelectsFree
<1>2. ASSUME NEW cc \in Conns,
             UdpFree(cc) \/ \E pp \in Ports : UdpBindPort(cc, pp)
      PROVE  SelectsFree
    BY <1>2 DEF UdpFree, UdpBindPort, SelectsFree
<1>3. ASSUME NEW cc \in Conns, UdpBindAny(cc) PROVE SelectsFree
    BY <1>3, SelectForFree DEF UdpBindAny
<1>4. ASSUME NEW cc \in Conns,
             UdpBindAssign(cc) \/ UdpConnectAssign(cc) \/ UdpConnectRemote(cc)
      PROVE  SelectsFree
    BY <1>4 DEF UdpBindAssign, UdpConnectAssign, UdpConnectRemote, SelectsFree, TypeOK
<1>5. ASSUME NEW cc \in Conns, NEW rr \in Remotes, UdpConnect(cc, rr[1], rr[2])
      PROVE  SelectsFree
    <2>1. CASE lport[cc] = 0
        BY <1>5, <2>1, SelectForFree DEF UdpConnect
    <2>2. CASE lport[cc] # 0
        BY <1>5, <2>2 DEF UdpConnect, SelectsFree, TypeOK
    <2>3. QED
        BY <2>1, <2>2
<1>6. CASE UNCHANGED vars
    BY <1>6 DEF vars, SelectsFree
<1>7. QED
    BY <1>1, <1>2, <1>3, <1>4, <1>5, <1>6 DEF Next

\* The inbound path leaves the connection table alone.
LEMMA InputTypeStep == TypeOK /\ [InputNext]_allVars => TypeOK'
<1> SUFFICES ASSUME TypeOK, [InputNext]_allVars PROVE TypeOK'
    OBVIOUS
<1>1. CASE Next /\ UNCHANGED inputVars
    BY <1>1, TypeStep
<1>2. CASE UNCHANGED vars
    BY <1>2 DEF vars, TypeOK
<1>3. QED
    BY <1>1, <1>2 DEF InputNext, Receive, Input, allVars

(* udp_select_port ends at a free port with any number of threads inside  *)
(* bind and connect, for every connection table and port range with fewer *)
(* slots than ports (udp_conn.c:145-149): the loop at udp_conn.c:170-192   *)
(* always finds a port udp_find_conn does not find, within the range the  *)
(* cursor wraps through.  It is the store after net_unlock, not the       *)
(* selection, that lets two sockets share a port (run udp_ports_race).    *)
THEOREM SelectionKeptFree == InputSpec => SelectionFree
<1>1. InputInit => TypeOK
    BY InitType DEF InputInit
<1>2. TypeOK /\ [InputNext]_allVars => [SelectsFree]_vars
    <2> SUFFICES ASSUME TypeOK, [InputNext]_allVars PROVE [SelectsFree]_vars
        OBVIOUS
    <2>1. CASE Next /\ UNCHANGED inputVars
        BY <2>1, SelectStep
    <2>2. CASE UNCHANGED vars
        BY <2>2
    <2>3. QED
        BY <2>1, <2>2 DEF InputNext, Receive, Input, allVars
<1>3. QED
    BY <1>1, <1>2, InputTypeStep, PTL DEF InputSpec, SelectionFree, SelectsFree

(* Counters of udp_input.                                                  *)

\* Every datagram counted in udp.drop was also deleted, and every deleted
\* datagram was first counted in udp.recv.
CountInv == InputTypeOK /\ drop <= discarded /\ discarded <= recv

\* One call of udp_input counts the datagram once in udp.recv and, on
\* each of its three outcomes, at most once in udp.drop and in the deleted.
LEMMA InputCounts ==
    ASSUME CountInv, NEW consumed \in BOOLEAN, Input(consumed)
    PROVE  CountInv'
<1>1. recv \in Nat /\ drop \in Nat /\ discarded \in Nat /\ recv + 1 <= MaxRecv
    BY InputAssumption DEF Input, CountInv, InputTypeOK
<1>2. TypeOK'
    BY DEF Input, CountInv, InputTypeOK, vars, TypeOK
<1>3. CASE ChecksumDrop
    <2>1. held' \in Datagrams \cup {NoDatagram}
        BY <1>3 DEF ChecksumDrop
    <2>2. /\ recv' \in 0..MaxRecv /\ drop' \in 0..MaxRecv /\ discarded' \in 0..MaxRecv
          /\ drop' <= discarded' /\ discarded' <= recv'
        BY <1>1, <1>3, InputAssumption DEF Input, ChecksumDrop, CountInv
    <2>3. QED
        BY <1>2, <2>1, <2>2 DEF CountInv, InputTypeOK
<1>4. CASE NoListener
    <2>1. held' \in Datagrams \cup {NoDatagram}
        BY <1>4 DEF NoListener
    <2>2. /\ recv' \in 0..MaxRecv /\ drop' \in 0..MaxRecv /\ discarded' \in 0..MaxRecv
          /\ drop' <= discarded' /\ discarded' <= recv'
        BY <1>1, <1>4, InputAssumption DEF Input, NoListener, CountInv
    <2>3. QED
        BY <1>2, <2>1, <2>2 DEF CountInv, InputTypeOK
<1>5. CASE Deliver(consumed)
    BY <1>1, <1>2, <1>5 DEF Input, Deliver, CountInv, InputTypeOK
<1>6. QED
    BY <1>3, <1>4, <1>5 DEF Input

(* The counters of udp_input agree with what it did, for every bound on    *)
(* the receive count and every connection table: udp.drop never exceeds   *)
(* the datagrams deleted (only the checksum path, udp_input.c:116-126,    *)
(* counts a drop, and it also deletes), and the deleted never exceed      *)
(* udp.recv, counted once at the top of udp_input (udp_input.c:103)       *)
(* before any outcome; the state keeps the types of InputTypeOK.          *)
THEOREM CountersConsistent == InputSpec => [](InputTypeOK /\ drop <= discarded /\ discarded <= recv)
<1>1. InputInit => CountInv
    BY InitType, InputAssumption DEF InputInit, CountInv, InputTypeOK, NoDatagram
<1>2. CountInv /\ [InputNext]_allVars => CountInv'
    <2> SUFFICES ASSUME CountInv, [InputNext]_allVars PROVE CountInv'
        OBVIOUS
    <2>1. CASE Next /\ UNCHANGED inputVars
        BY <2>1, TypeStep DEF CountInv, InputTypeOK, inputVars
    <2>2. ASSUME NEW d \in Datagrams, Receive(d) PROVE CountInv'
        BY <2>2 DEF Receive, CountInv, InputTypeOK, vars, TypeOK
    <2>3. ASSUME NEW consumed \in BOOLEAN, Input(consumed) PROVE CountInv'
        BY <2>3, InputCounts
    <2>4. CASE UNCHANGED allVars
        BY <2>4 DEF allVars, vars, inputVars, CountInv, InputTypeOK, TypeOK
    <2>5. QED
        BY <2>1, <2>2, <2>3, <2>4 DEF InputNext
<1>3. QED
    BY <1>1, <1>2, PTL DEF InputSpec, CountInv

=============================================================================
