SPECIFICATION PurgeSpec
CONSTANTS
    b1 = b1  b2 = b2  c1 = c1  c2 = c2  c3 = c3
    Batches = {b1, b2}
    Codes = {c1, c2, c3}
    BatchOf <- TwoAndOne
    Chunk = 1
    CapSettings <- Unlimited
    DeleteEmpty = TRUE
    MaxRetention = 1
    MaxDay = 4
INVARIANT RetentionKept
