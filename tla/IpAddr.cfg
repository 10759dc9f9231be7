\* Every pair of addresses over the test octets, every test prefix.
CONSTANTS
    TestOctets <- MCTestOctets
    Prefixes <- MCPrefixes
SPECIFICATION Spec
INVARIANT WireOrder
INVARIANT OctetsRoundTrip
INVARIANT HdrCmpMatchesWire
INVARIANT Ip6WireOrder
INVARIANT MaskCmpByOctet
