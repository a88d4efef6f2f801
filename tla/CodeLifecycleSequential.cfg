\* Requests that do not overlap, one worker crash.
SPECIFICATION Spec
CONSTANTS
    b1 = b1
    b2 = b2
    c1 = c1
    c2 = c2
    c3 = c3
    Requests = {r1}
    Batches <- TwoBatches
    Codes <- ThreeCodes
    BatchOf <- MoreBatchOf
    Operations = {"use", "delete", "invalidate", "discard", "generate", "regenerate", "purge"}
    MaxCrashes = 1
    NoBatch = NoBatch
    NoCode = NoCode
INVARIANTS OneActiveBatch CountersMatchCodes CrashKeepsDirection SequentialInv
PROPERTY KeepsPromise
