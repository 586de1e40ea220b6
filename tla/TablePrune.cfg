CONSTANTS
    n1 = n1
    n2 = n2
    c1 = c1
    c2 = c2
    w1 = w1
    w2 = w2
    None = None
    Unreachable = Unreachable
    Nets = {n1, n2}
    Channels = {c1, c2}
    Walks = {w1, w2}
    Limit = 1
    Setups <- MCSetups
    MayRepeat = FALSE
SPECIFICATION MCSpec
INVARIANTS FlushedEmpty WorkNotLost TriesSafe TablesRight
PROPERTY Progress
