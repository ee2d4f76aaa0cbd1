SPECIFICATION FairSpec
CONSTANTS
    Servers = {s1, s2, s3}
    Nobody = Nobody
    MaxFaults = 2
INVARIANTS
    TypeOK
    UpHasItsTable
    StartsDoNotCollide
PROPERTIES
    EveryStartEnds
