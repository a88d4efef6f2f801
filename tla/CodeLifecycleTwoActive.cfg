\* Two creations race.
SPECIFICATION Spec
CONSTANTS
    b1 = b1
    b2 = b2
    c1 = c1
    c2 = c2
    c3 = c3
    Requests = {r1, r2}
    Batches <- TwoBatches
    Codes <- TwoCodes
    BatchOf <- TwoBatchOf
    Operations = {"generate"}
    MaxCrashes = 0
    NoBatch = NoBatch
    NoCode = NoCode
INVARIANT OneActiveBatch
