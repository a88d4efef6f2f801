\* Two overlapping requests replace, discard and purge two batches, under fair scheduling.
SPECIFICATION FairSpec
CONSTANTS
    b1 = b1
    b2 = b2
    c1 = c1
    c2 = c2
    c3 = c3
    Requests = {r1, r2}
    Batches <- TwoBatches
    Codes <- TwoCodes
    BatchOf <- TwoBatchOf
    Operations = {"use", "discard", "generate", "regenerate", "purge"}
    MaxCrashes = 0
    NoBatch = NoBatch
    NoCode = NoCode
INVARIANTS TypeOK ColumnsAgree LoginBurnsCode RetiredBatchIsDead LoginsCounted IndInv CountingInv
PROPERTIES KeepsPromise EveryRequestEnds
