CONSTANTS
    bgp1 = bgp1
    kernel1 = kernel1
    ipv4 = ipv4
    ipv6 = ipv6
    Bgp <- MCBgp
    Krt <- MCKrt
    Channels <- MCChannels
    Parts = {"protocols"}
    MayShrink = FALSE
    MayBePartial = FALSE
SPECIFICATION MCSpec
INVARIANTS DoneScheduled ClosedWhenDown RecoverySound
PROPERTIES ChannelTransitions GoalReached
