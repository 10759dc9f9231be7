------------------------------- MODULE IpAddr -------------------------------
(***************************************************************************)
(* The IPv4 address macros of include/nuttx/net/ip.h on the little-endian  *)
(* ARMv7-M port, whose HTONL and HTONS are __swap32 and __swap16 of        *)
(* arch/arm/include/armv7-m/byteorder.h (rev and rev16).                   *)
(*                                                                         *)
(* A 32-bit in_addr_t is kept as its two 16-bit halves, lo (bits 0-15) and *)
(* hi (bits 16-31), which are also the two uint16_t the code reads when it *)
(* casts an address to a uint16_t pointer here.  Shifts, masks and ors   *)
(* of the macros are written as the arithmetic they do on the halves.      *)
(***************************************************************************)
EXTENDS Naturals, Sequences

Octets == 0..255
Halves == 0..65535
Word == [lo : Halves, hi : Halves]

(* Helpers.                                                                *)

\* __swap16 (byteorder.h:48-54): rev16 swaps the two bytes of a halfword.
Swap16(v) == (v % 256) * 256 + v \div 256

\* __swap32 (byteorder.h:40-46): rev reverses the four bytes.
Swap32(w) == [lo |-> Swap16(w.hi), hi |-> Swap16(w.lo)]

\* (uint32_t)a0 << 24 | (uint32_t)a1 << 16 | (uint32_t)a2 << 8 | a3, for
\* octets a0..a3.
HostWord(a) == [hi |-> a[1] * 256 + a[2], lo |-> a[3] * 256 + a[4]]

\* Mutant: net_ipaddr without the HTONL.
NetIpaddrHost(a) == HostWord(a)

\* net_ipaddr(addr, a0, a1, a2, a3) (ip.h:151-155): HTONL of the word
\* whose most significant byte is the first octet.
NetIpaddr(a) == Swap32(HostWord(a))

\* The bytes of a word in memory, lowest address first (little-endian).
MemBytes(w) == <<w.lo % 256, w.lo \div 256, w.hi % 256, w.hi \div 256>>

\* The uint16_t[2] view of four bytes in memory, as the IPv4 header's
\* srcipaddr and destipaddr hold them.
HalvesOf(bytes) == <<bytes[2] * 256 + bytes[1], bytes[4] * 256 + bytes[3]>>

\* The bytes of a uint16_t array in memory, lowest address first.
HalfBytes(h) == [i \in 1..(2 * Len(h)) |->
                    IF i % 2 = 1 THEN h[(i + 1) \div 2] % 256 ELSE h[i \div 2] \div 256]

\* Mutant: ip6_addr without the HTONS.
Ip6AddrHost(ws) == ws

\* ip6_addr (ip.h:190-200): HTONS of each of the eight words, stored in
\* order in the uint16_t[8] of the address.
Ip6Addr(ws) == [i \in 1..8 |-> Swap16(ws[i])]

\* Mutant: the big-endian byte extraction of ip.h:172-175.
Ip4AddrBE(k, w) ==
    <<w.hi \div 256, w.hi % 256, w.lo \div 256, w.lo % 256>>[k]

\* ip4_addr1 .. ip4_addr4 (ip.h:176-183, little endian): byte k of the
\* word, (ipaddr >> 8 * (k - 1)) & 0xff.
Ip4Addr(k, w) ==
    <<w.lo % 256, w.lo \div 256, w.hi % 256, w.hi \div 256>>[k]

\* Mutant: net_ip4addr_conv32 keeps only the high halfword.
Conv32High(h) == [lo |-> 0, hi |-> h[2]]

\* net_ip4addr_conv32 (ip.h:159-163, little endian): ((in_addr_t)h[1] << 16)
\* | h[0], of the two halfwords at the address.
Conv32(h) == [lo |-> h[1], hi |-> h[2]]

\* net_ipaddr_hdrcmp (ip.h:246-250): net_ipaddr_cmp, ==, of the two
\* conversions.
HdrCmp(h1, h2) == Conv32(h1) = Conv32(h2)

\* x & y on halfwords: sum of the bits set in both.
And16(x, y) ==
    LET bits[i \in 0..16] ==
            IF i = 0 THEN 0
            ELSE bits[i - 1] + (IF (x \div 2^(i - 1)) % 2 = 1 /\ (y \div 2^(i - 1)) % 2 = 1
                                THEN 2^(i - 1) ELSE 0)
    IN  bits[16]

\* net_ipaddr_mask (ip.h:309-312): src & mask.
IpMask(w, m) == [lo |-> And16(w.lo, m.lo), hi |-> And16(w.hi, m.hi)]

\* Mutant: the mask is applied to the first address only.
MaskCmpOneSided(w1, w2, m) == IpMask(w1, m) = w2

\* net_ipaddr_maskcmp (ip.h:281-284): (addr1 & mask) == (addr2 & mask).
MaskCmp(w1, w2, m) == IpMask(w1, m) = IpMask(w2, m)

(* The checked instance: two addresses given by their octets and a       *)
(* netmask given by its prefix length, chosen once; nothing changes.      *)

CONSTANTS
    TestOctets,     \* octet values tried
    Prefixes        \* netmask prefix lengths tried

ASSUME IpAssumption == TestOctets \subseteq Octets /\ Prefixes \subseteq 0..32

\* How many of the high bits of octet k a prefix of length p covers.
PrefixBits(p, k) ==
    IF p >= 8 * k THEN 8 ELSE IF p <= 8 * (k - 1) THEN 0 ELSE p - 8 * (k - 1)

\* The octets of the netmask with prefix length p (255.255.255.0 for 24).
MaskOctets(p) == [k \in 1..4 |-> 256 - 2^(8 - PrefixBits(p, k))]

VARIABLES a, b, plen

vars == <<a, b, plen>>

TypeOK ==
    /\ a \in [1..4 -> Octets] /\ b \in [1..4 -> Octets]
    /\ plen \in 0..32

Init ==
    /\ a \in [1..4 -> TestOctets] /\ b \in [1..4 -> TestOctets]
    /\ plen \in Prefixes

Next == UNCHANGED vars

Spec == Init /\ [][Next]_vars

(* Properties.                                                             *)

(* net_ipaddr builds the address "in network byte order" (ip.h:142): its  *)
(* bytes in memory are the four octets in the order they were given.      *)
WireOrder == MemBytes(NetIpaddr(a)) = a

(* ip4_addr1 .. ip4_addr4 extract the octets of an address in network     *)
(* byte order (ip.h:165-167): each gives back the octet net_ipaddr was    *)
(* given in that place.                                                   *)
OctetsRoundTrip == \A k \in 1..4 : Ip4Addr(k, NetIpaddr(a)) = a[k]

(* udp_active (udp_conn.c:325) compares the source address of a received  *)
(* header, as its two halfwords, with the connection's ripaddr, an        *)
(* in_addr_t, through net_ipaddr_hdrcmp: they compare equal exactly when  *)
(* the header carries the address the connection was given.               *)
HdrCmpMatchesWire ==
    HdrCmp(HalvesOf(a), <<NetIpaddr(b).lo, NetIpaddr(b).hi>>) <=> a = b

(* ip6_addr builds an IPv6 address in network byte order: each of its       *)
(* eight 16-bit words is stored most significant byte first.  The words     *)
(* are made of the test octets of both addresses.                           *)
Ip6WireOrder ==
    LET ws == <<a[1] * 256 + a[2], a[3] * 256 + a[4], b[1] * 256 + b[2],
                b[3] * 256 + b[4], a[2] * 256 + b[1], a[4] * 256 + b[3],
                b[2] * 256 + a[1], b[4] * 256 + a[3]>>
    IN  \A i \in 1..8 : /\ HalfBytes(Ip6Addr(ws))[2 * i - 1] = ws[i] \div 256
                       /\ HalfBytes(Ip6Addr(ws))[2 * i] = ws[i] % 256

(* net_ipaddr_maskcmp with a prefix netmask built by net_ipaddr compares  *)
(* what the comment at ip.h:258-260 says: the bits within the mask, the   *)
(* first plen bits of the address, and nothing else.                      *)
MaskCmpByOctet ==
    MaskCmp(NetIpaddr(a), NetIpaddr(b), NetIpaddr(MaskOctets(plen)))
        <=> \A k \in 1..4 : a[k] \div 2^(8 - PrefixBits(plen, k))
                           = b[k] \div 2^(8 - PrefixBits(plen, k))

=============================================================================
