SPECIFICATION FairPurgeSpec
CONSTANTS
    b1 = b1  b2 = b2  c1 = c1  c2 = c2  c3 = c3
    Batches = {b1}
    Codes = {c1, c2}
    BatchOf <- OneBatch
    Chunk = 1
    CapSettings <- AllCaps
    DeleteEmpty = TRUE
    MaxRetention = 1
    MaxDay = 3
INVARIANTS PurgeTypeOK NothingCascades AuditsMatch HistoryMatches CapHolds
PROPERTIES PurgedEventually
