\* Three games deployed and removed by three workers.  KeyPairs: the local
\* pair, the cloud's, and one for servers of an earlier pair.  Ids: one per
\* cloud key that somebody may still hold.
CONSTANTS
    Games = {valheim, factorio, windrose}
    Workers = {w1, w2, w3}
    KeyPairs = {k1, k2, k3}
    Ids = {i1, i2, i3, i4}
    None = None
SPECIFICATION Spec
SYMMETRY Symmetry
INVARIANTS
    KeyFilesMatch
    KInv
PROPERTIES
    BornReachable
    NeverDeletesKeyInUse
