\* Two processes on one Redis: codes and tokens are presented to either,
\* and one token is revoked.
SPECIFICATION Spec
CONSTANTS
    NoExchange = NoExchange
    read = read
    execute = execute
    account = account
    g1 = g1
    g2 = g2
    Scopes <- ThreeScopes
    Grants = {g1}
    Procs = {p1, p2}
    Clients = {a1}
    Requests = {r1}
    Consents = {c1}
    Exchanges = {e1, e2, e3}
    Revocations = {v1}
    GrantScopes <- Narrow
    Asks <- Overlapping
    PendingTTL = 1
    CodeTTL = 1
    AccessTTL = 2
    RefreshTTL = 2
    ClientTTL = 3
    SharedStore = TRUE
    MaxTime = 1
    MaxFaults = 1
    MaxRestarts = 1
INVARIANTS
    CodeOnce
    RevokedIsTheEnd
    HeldTokenWorks
    ScopesWithinGrant
    RotationNotRefused
SYMMETRY Symmetric
