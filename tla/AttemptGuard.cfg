\* One request at a time, and the clock runs on while it does.
SPECIFICATION Spec
CONSTANTS
    alice = alice
    bob = bob
    r1 = r1
    r2 = r2
    w1 = w1
    w2 = w2
    Requests = {r1}
    Subjects = {alice}
    Workers = {w1}
    WorkerOf <- Alone
    Cooldown = 2
    Multiplier = 2
    Cutoff = 3
    MaxTime = 12
    MaxBatches = 3
    NoSubject = NoSubject
INVARIANTS TypeOK GuardInv AloneInv LockoutBounded PatienceServed
PROPERTIES RegenerationsSpaced PenaltyGrows
CHECK_DEADLOCK FALSE
