----------------------------- MODULE MCUdpInput -----------------------------
(* Small instances of the inbound UDP path for TLC.                        *)
EXTENDS UdpInput, TLC

CONSTANTS c1, c2, h1

MCConns == {c1, c2}

\* Connection slots are interchangeable.
MCSymmetry == Permutations(MCConns)

\* Reference definitions.  The loop of udp_select_port turn by turn from
\* cursor l, and dq_rem as the filter that keeps every other node.
LoopTurns(l) ==
    LET it[k \in 0..(PortHi - InitPort)] ==
            IF k = 0 THEN l ELSE NextPort(it[k - 1])
    IN  it

\* Queues of connection slots, each slot at most once.
MCQueues ==
    UNION {{q \in [1..n -> Conns] : \A i, j \in 1..n : q[i] = q[j] => i = j} :
           n \in 0..Cardinality(Conns)}

\* The closed forms of the model agree with the reference definitions on
\* every cursor, turn count and queue of this instance.
ASSUME ClosedFormsMatch ==
    /\ \A l \in {InitPort} \cup EphemeralPorts, k \in 0..(PortHi - InitPort) :
          TurnFrom(l, k) = LoopTurns(l)[k]
    /\ \A q \in MCQueues, c \in Conns :
          c \in InQueue(q) => Remove(q, c) = SelectSeq(q, LAMBDA x : x # c)

=============================================================================
