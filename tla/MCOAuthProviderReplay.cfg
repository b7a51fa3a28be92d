\* Two consents for one request.
SPECIFICATION Spec
CONSTANTS
    NoExchange = NoExchange
    read = read
    execute = execute
    account = account
    g1 = g1
    g2 = g2
    Scopes <- MCScopes
    Grants = {g1, g2}
    Procs = {p1}
    Clients = {a1}
    Requests = {r1}
    Consents = {c1, c2}
    Exchanges = {e1}
    Revocations = {}
    GrantScopes <- Either
    Asks <- Anything
    PendingTTL = 1
    CodeTTL = 1
    AccessTTL = 1
    RefreshTTL = 2
    ClientTTL = 3
    SharedStore = FALSE
    MaxTime = 2
    MaxFaults = 1
    MaxRestarts = 0
INVARIANTS
    RequestOnce
SYMMETRY Symmetric
