------------------------------- MODULE MCIpAddr -------------------------------
(* Octets at the edges of a byte and of its top bit, and netmasks on and  *)
(* off octet boundaries.                                                   *)
EXTENDS IpAddr, TLC

MCTestOctets == {0, 1, 128, 255}

MCPrefixes == {0, 25, 32}

=============================================================================
