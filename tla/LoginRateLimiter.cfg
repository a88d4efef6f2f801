\* One browser, while the clock runs, workers die and cached copies are lost.
SPECIFICATION LimiterSpec
CONSTANTS
    alice = alice
    bob = bob
    r1 = r1
    r2 = r2
    w1 = w1
    w2 = w2
    Requests = {r1}
    Subjects = {alice}
    Workers = {w1}
    WorkerOf <- OneProcess
    UserOf <- OneUser
    Cooldown = 2
    Multiplier = 2
    Cutoff = 3
    MaxTime = 6
    MaxBatches = 1
    MaxAttempts = 2
    NoSubject = NoSubject
INVARIANTS LimiterTypeOK GuessesBounded 
PROPERTIES WipesSpaced CountNeverFalls FirstLockoutAudited
CHECK_DEADLOCK FALSE
