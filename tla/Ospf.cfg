CONSTANTS
    bgp1 = bgp1
    kernel1 = kernel1
    ipv4 = ipv4
    ipv6 = ipv6
    Bgp <- MCBgp
    Krt <- MCKrt
    Channels <- MCChannels
    Parts = {"exchange", "iface", "areas"}
    MayShrink = FALSE
    MayBePartial = FALSE
SPECIFICATION OspfSpec
INVARIANTS AdjacenciesRight RoutesReach
PROPERTY Converges
