CONSTANTS
    i1 = i1
    i2 = i2
    h1 = h1
    h2 = h2
    Instance = {i1}
    Handler = {h1, h2}
    Host <- HostOne
    None = None
    MaxVersion = 2
    MaxCloses = 1
    MaxFaults = 1
SPECIFICATION Spec
INVARIANTS TypeOK AckedVisible CacheMatchesSnapshot DeferredNeverLost
PROPERTIES SnapshotMonotonic ImplementsView
SYMMETRY HandlerSymmetry
