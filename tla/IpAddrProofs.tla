---------------------------- MODULE IpAddrProofs ----------------------------
(***************************************************************************)
(* Proofs about the address macros of ip.h for every address: net_ipaddr   *)
(* lays the octets out in network order, ip4_addr1..4 read them back, and  *)
(* net_ipaddr_hdrcmp tells two addresses apart exactly when they differ,  *)
(* and ip6_addr stores its words in network order.                         *)
(* The netmask comparison goes through the bitwise and, whose recursive   *)
(* definition the provers cannot unfold, and stays with TLC.               *)
(***************************************************************************)
EXTENDS IpAddr, TLAPS

\* A halfword made of two octets gives them back.
LEMMA Digits ==
    ASSUME NEW x \in Octets, NEW y \in Octets
    PROVE  /\ (x * 256 + y) % 256 = y
           /\ (x * 256 + y) \div 256 = x
BY DEF Octets

\* Two octets are determined by the halfword they make.
LEMMA DigitsInjective ==
    ASSUME NEW x1 \in Octets, NEW y1 \in Octets, NEW x2 \in Octets, NEW y2 \in Octets,
           x1 * 256 + y1 = x2 * 256 + y2
    PROVE  x1 = x2 /\ y1 = y2
BY Digits

\* rev16 of a halfword swaps its octets.
LEMMA SwapDigits ==
    ASSUME NEW x \in Octets, NEW y \in Octets
    PROVE  Swap16(x * 256 + y) = y * 256 + x
BY Digits DEF Swap16

\* The halves of net_ipaddr(a): the first two octets, first one low, make
\* the low halfword, the last two the high one.
LEMMA NetIpaddrHalves ==
    ASSUME NEW u \in [1..4 -> Octets]
    PROVE  /\ NetIpaddr(u).lo = u[2] * 256 + u[1]
           /\ NetIpaddr(u).hi = u[4] * 256 + u[3]
<1>1. u[1] \in Octets /\ u[2] \in Octets /\ u[3] \in Octets /\ u[4] \in Octets
    OBVIOUS
<1>2. QED
    BY <1>1, SwapDigits DEF NetIpaddr, Swap32, HostWord

\* The four octet facts about one address.
LEMMA AddrFacts ==
    ASSUME NEW u \in [1..4 -> Octets]
    PROVE  /\ MemBytes(NetIpaddr(u)) = u
           /\ \A k \in 1..4 : Ip4Addr(k, NetIpaddr(u)) = u[k]
<1>1. u[1] \in Octets /\ u[2] \in Octets /\ u[3] \in Octets /\ u[4] \in Octets
    OBVIOUS
<1>2. /\ (u[2] * 256 + u[1]) % 256 = u[1] /\ (u[2] * 256 + u[1]) \div 256 = u[2]
      /\ (u[4] * 256 + u[3]) % 256 = u[3] /\ (u[4] * 256 + u[3]) \div 256 = u[4]
    BY <1>1, Digits
<1>3. MemBytes(NetIpaddr(u)) = <<u[1], u[2], u[3], u[4]>>
    BY <1>2, NetIpaddrHalves DEF MemBytes
<1>4. <<u[1], u[2], u[3], u[4]>> = u
    OBVIOUS
<1>6. \A k \in 1..4 : Ip4Addr(k, NetIpaddr(u)) = u[k]
    BY <1>2, NetIpaddrHalves DEF Ip4Addr
<1>7. QED
    BY <1>3, <1>4, <1>6

\* The header comparison of udp_active is address equality.
LEMMA HdrCmpFact ==
    ASSUME NEW u \in [1..4 -> Octets], NEW v \in [1..4 -> Octets]
    PROVE  HdrCmp(HalvesOf(u), <<NetIpaddr(v).lo, NetIpaddr(v).hi>>) <=> u = v
<1>1. u[1] \in Octets /\ u[2] \in Octets /\ u[3] \in Octets /\ u[4] \in Octets
    OBVIOUS
<1>2. v[1] \in Octets /\ v[2] \in Octets /\ v[3] \in Octets /\ v[4] \in Octets
    OBVIOUS
<1> DEFINE la == u[2] * 256 + u[1]  ha == u[4] * 256 + u[3]
           lb == v[2] * 256 + v[1]  hb == v[4] * 256 + v[3]
<1>3. HdrCmp(HalvesOf(u), <<NetIpaddr(v).lo, NetIpaddr(v).hi>>)
        <=> la = lb /\ ha = hb
    <2>1. HalvesOf(u) = <<la, ha>>
        BY DEF HalvesOf
    <2>2. <<NetIpaddr(v).lo, NetIpaddr(v).hi>> = <<lb, hb>>
        BY NetIpaddrHalves
    <2>3. HdrCmp(<<la, ha>>, <<lb, hb>>) <=> la = lb /\ ha = hb
        BY DEF HdrCmp, Conv32
    <2>4. QED
        BY <2>1, <2>2, <2>3
<1>4. (/\ u[2] * 256 + u[1] = v[2] * 256 + v[1]
       /\ u[4] * 256 + u[3] = v[4] * 256 + v[3])
        <=> (\A k \in 1..4 : u[k] = v[k])
    BY <1>1, <1>2, DigitsInjective
<1>5. (\A k \in 1..4 : u[k] = v[k]) <=> u = v
    OBVIOUS
<1>6. QED
    BY <1>3, <1>4, <1>5

\* rev16 of any halfword exchanges its high and low octets.
LEMMA SwapHalf ==
    ASSUME NEW hw \in Nat, hw < 65536
    PROVE  /\ Swap16(hw) % 256 = hw \div 256
           /\ Swap16(hw) \div 256 = hw % 256
<1>1. hw % 256 \in Octets
    BY DEF Octets
<1>2. hw = 256 * (hw \div 256) + (hw % 256) /\ hw \div 256 \in Nat
    OBVIOUS
<1>3. hw \div 256 \in Octets
    BY <1>1, <1>2 DEF Octets
<1>4. Swap16(hw) = (hw % 256) * 256 + (hw \div 256)
    BY DEF Swap16
<1>5. /\ ((hw % 256) * 256 + (hw \div 256)) % 256 = hw \div 256
      /\ ((hw % 256) * 256 + (hw \div 256)) \div 256 = hw % 256
    BY <1>1, <1>3 DEF Octets
<1>6. QED
    BY <1>4, <1>5

\* ip6_addr of any eight halfwords: the two bytes of word n in memory are
\* its high octet, then its low one.
LEMMA Ip6Fact ==
    ASSUME NEW wv \in [1..8 -> Nat], \A j \in 1..8 : wv[j] < 65536, NEW n \in 1..8
    PROVE  /\ HalfBytes(Ip6Addr(wv))[2 * n - 1] = wv[n] \div 256
           /\ HalfBytes(Ip6Addr(wv))[2 * n] = wv[n] % 256
<1> DEFINE h == Ip6Addr(wv)
<1>1. h \in [1..8 -> Nat] /\ h[n] = Swap16(wv[n])
    BY DEF Ip6Addr, Swap16
<1>2. h \in Seq(Nat) /\ Len(h) = 8
    BY DEF Ip6Addr, Swap16
<1>3. Len(h) = 8
    BY <1>2
<1>4. /\ 2 * n - 1 \in 1..(2 * Len(h)) /\ (2 * n - 1) % 2 = 1 /\ ((2 * n - 1) + 1) \div 2 = n
      /\ 2 * n \in 1..(2 * Len(h)) /\ (2 * n) % 2 = 0 /\ (2 * n) \div 2 = n
    BY <1>3
<1>5. /\ HalfBytes(h)[2 * n - 1] = h[n] % 256
      /\ HalfBytes(h)[2 * n] = h[n] \div 256
    BY <1>4 DEF HalfBytes
<1>6. QED
    BY <1>1, <1>5, SwapHalf

\* Two octets make a halfword.
LEMMA WordBound ==
    ASSUME NEW x \in Octets, NEW y \in Octets
    PROVE  x * 256 + y \in Nat /\ x * 256 + y < 65536
<1>1. x \in Nat /\ x < 256 /\ y \in Nat /\ y < 256
    BY DEF Octets
<1>2. QED
    BY <1>1

\* The eight words the run builds from two addresses are halfwords, so
\* Ip6Fact applies to them.
LEMMA Ip6WireFact == TypeOK => Ip6WireOrder
<1> SUFFICES ASSUME TypeOK PROVE Ip6WireOrder
    OBVIOUS
<1> DEFINE wv == <<a[1] * 256 + a[2], a[3] * 256 + a[4], b[1] * 256 + b[2],
                   b[3] * 256 + b[4], a[2] * 256 + b[1], a[4] * 256 + b[3],
                   b[2] * 256 + a[1], b[4] * 256 + a[3]>>
<1>1. /\ a[1] \in Octets /\ a[2] \in Octets /\ a[3] \in Octets /\ a[4] \in Octets
      /\ b[1] \in Octets /\ b[2] \in Octets /\ b[3] \in Octets /\ b[4] \in Octets
    BY DEF TypeOK
<1>3. \A j \in 1..8 : wv[j] \in Nat /\ wv[j] < 65536
    BY <1>1, WordBound DEF wv
<1>4. wv \in [1..8 -> Nat] /\ \A j \in 1..8 : wv[j] < 65536
    BY <1>3 DEF wv
<1>5. \A n \in 1..8 : /\ HalfBytes(Ip6Addr(wv))[2 * n - 1] = wv[n] \div 256
                      /\ HalfBytes(Ip6Addr(wv))[2 * n] = wv[n] % 256
    BY <1>4, Ip6Fact
<1>6. QED
    BY <1>5 DEF Ip6WireOrder, wv

AddrInv == TypeOK /\ WireOrder /\ OctetsRoundTrip /\ HdrCmpMatchesWire /\ Ip6WireOrder

\* The addresses the macros are applied to keep their octets.
LEMMA TypeInit == Init => TypeOK
BY IpAssumption DEF Init, TypeOK

(* The address conversions of ip.h are right for every address, not only  *)
(* the test octets: net_ipaddr stores the octets in network order,        *)
(* ip4_addr1..4 give them back, net_ipaddr_hdrcmp, as udp_active uses it  *)
(* on a received header, holds exactly for the connection's address, and  *)
(* ip6_addr stores each of its eight words most significant byte first.   *)
THEOREM AddrConversions ==
    Spec => [](WireOrder /\ OctetsRoundTrip /\ HdrCmpMatchesWire /\ Ip6WireOrder)
<1>1. TypeOK => AddrInv
    BY AddrFacts, HdrCmpFact, Ip6WireFact
       DEF TypeOK, AddrInv, WireOrder, OctetsRoundTrip, HdrCmpMatchesWire
<1>2. TypeOK /\ [Next]_vars => TypeOK'
    BY DEF TypeOK, Next, vars
<1>3. AddrInv => WireOrder /\ OctetsRoundTrip /\ HdrCmpMatchesWire /\ Ip6WireOrder
    BY DEF AddrInv
<1>4. QED
    BY TypeInit, <1>1, <1>2, <1>3, PTL DEF Spec


(* ip6_addr on its own: for every eight 16-bit words, the address it      *)
(* builds holds each word in network byte order, high byte first.         *)
THEOREM Ip6Stored == Spec => []Ip6WireOrder
BY AddrConversions, PTL

=============================================================================
