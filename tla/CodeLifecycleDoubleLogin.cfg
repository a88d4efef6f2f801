\* Two logins race for one code.
SPECIFICATION Spec
CONSTANTS
    b1 = b1
    b2 = b2
    c1 = c1
    c2 = c2
    c3 = c3
    Requests = {r1, r2}
    Batches <- OneBatch
    Codes <- TwoCodes
    BatchOf <- OneBatchOf
    Operations = {"use", "generate"}
    MaxCrashes = 0
    NoBatch = NoBatch
    NoCode = NoCode
INVARIANT SingleUse
