------------------------------ MODULE MCUdpConn ------------------------------
(* Small instances of the UDP connection table for TLC.  The port range is *)
(* scaled down with its shape kept: the cursor starts below the range it   *)
(* wraps into, and the range has more ports than there are connections.    *)
EXTENDS UdpConn, TLC

CONSTANTS c1, c2, c3, h1

MCConns == {c1, c2, c3}

\* Connection slots are interchangeable.
MCSymmetry == Permutations(MCConns)

=============================================================================
