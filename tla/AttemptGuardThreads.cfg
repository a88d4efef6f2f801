\* Two requests of two users, on two threads of one process.
SPECIFICATION Spec
CONSTANTS
    alice = alice
    bob = bob
    r1 = r1
    r2 = r2
    w1 = w1
    w2 = w2
    Requests = {r1, r2}
    Subjects = {alice, bob}
    Workers = {w1}
    WorkerOf <- Threads
    Cooldown = 2
    Multiplier = 2
    Cutoff = 3
    MaxTime = 3
    MaxBatches = 2
    NoSubject = NoSubject
PROPERTIES KeepsToItsSubject
CHECK_DEADLOCK FALSE
