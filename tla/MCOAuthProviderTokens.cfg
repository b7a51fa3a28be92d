\* One process in memory: consents race over two requests, and exchanges over their
\* codes and tokens, all of which the first tick of the clock makes stale.
SPECIFICATION Spec
CONSTANTS
    NoExchange = NoExchange
    read = read
    execute = execute
    account = account
    g1 = g1
    g2 = g2
    Scopes <- MCScopes
    Grants = {g1, g2}
    Procs = {p1}
    Clients = {a1}
    Requests = {r1, r2}
    Consents = {c1, c2}
    Exchanges = {e1, e2, e3}
    Revocations = {v1}
    GrantScopes <- Either
    Asks <- OneScope
    PendingTTL = 0
    CodeTTL = 0
    AccessTTL = 1
    RefreshTTL = 0
    ClientTTL = 3
    SharedStore = FALSE
    MaxTime = 1
    MaxFaults = 1
    MaxRestarts = 0
INVARIANTS
    AllowAgainWorks
    OneLiveRefresh
SYMMETRY Symmetric
