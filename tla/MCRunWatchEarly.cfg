\* One look at a run whose detail is refused.
SPECIFICATION Spec
CONSTANTS
    c1 = c1
    c2 = c2
    Calls = {c1, c2}
    Requests <- MCRequests
    WaitMin = 1
    WaitMax = 3
    Poll = 2
    Slow = 1
    MaxFaults = 1
INVARIANTS
    DoneMeansOver
