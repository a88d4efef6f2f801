SPECIFICATION DeliverySpec
CONSTANTS
    Callers = {r1}
    r1 = r1
    Values <- AllValues
    MaxExpiries = 1
    MaxBatches = 2
INVARIANTS DeliveryTypeOK EmailedOnce CodesAreCurrent CacheHonest DashboardUpToDate DeliveryInv
