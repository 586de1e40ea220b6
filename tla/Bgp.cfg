CONSTANTS
    r1 = r1
    r2 = r2
    Nets = {n1, n2}
    Attrs = {a, big}
    TooLong = {big}
    None = None
    Configs <- MCConfigs
    MaxNlri = 1
    MaxInFlight = 1
SPECIFICATION MCSpec
INVARIANTS SessionsRight MessagesRight
PROPERTIES ReplicaSpec EndMarksTrue Progress
