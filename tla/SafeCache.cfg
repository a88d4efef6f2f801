\* Three callers; the lock expires twice, and entries expire any time.
SPECIFICATION CacheSpec
CONSTANTS
    Callers = {c1, c2, c3}
    Values = {v1, v2}
    MaxExpiries = 2
INVARIANTS LockHoldersBounded
