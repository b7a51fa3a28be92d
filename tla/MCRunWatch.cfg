\* Two calls on one run; waits of 1 and of (9 capped to) 3 ticks, polling every 2.
SPECIFICATION Spec
CONSTANTS
    c1 = c1
    c2 = c2
    Calls = {c1, c2}
    Requests <- MCRequests
    WaitMin = 1
    WaitMax = 3
    Poll = 2
    Slow = 1
    MaxFaults = 1
INVARIANTS
    TimedOutIsTrue
    WaitIsBounded
    DoneIsDone
    OverIsReported
    AbortIsTold
PROPERTIES
    EveryCallAnswered
