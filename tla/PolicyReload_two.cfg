CONSTANTS
    i1 = i1
    i2 = i2
    h1 = h1
    h2 = h2
    Instance = {i1, i2}
    Handler = {h1}
    Host <- HostOne
    None = None
    MaxVersion = 1
    MaxCloses = 0
    MaxFaults = 1
SPECIFICATION FairSpec
INVARIANT InvalidationReaches
PROPERTY Convergence
