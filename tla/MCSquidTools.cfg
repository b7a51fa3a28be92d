\* Two calls on one squid, two failures anywhere and a change on the dashboard.
SPECIFICATION Spec
CONSTANTS
    sq = sq
    k1 = k1
    k2 = k2
    alias2 = alias2
    on = on
    off = off
    t1 = t1
    t2 = t2
    x1 = x1
    a1 = a1
    a2 = a2
    Calls = {c1, c2}
    Squids = {sq, n1, n2}
    Saved = {sq}
    NoSquid = NoSquid
    Settings = {k1, k2}
    Aliases = {alias2}
    WireName <- MCWireName
    Values = {on, off}
    Unset = Unset
    Defaults <- MCDefaults
    Titles = {t1, t2}
    NoTitle = NoTitle
    Rows = {x1}
    Accounts = {a1, a2}
    Matching = {a1, a2}
    NoAccount = NoAccount
    NeedsAccount = TRUE
    Requests <- MCRequests
    AtFirst <- MCAtFirst
    MaxFaults = 2
    MaxEdits = 1
SYMMETRY Symmetric
INVARIANTS
    TypeOK
    NoHiddenSquid
    RetrySafeMeansUntouched
    SavedUnderRealNames
PROPERTIES
    SavedStateLostOnlyBlind
    LinksLostOnlyToRaces
    ConfiguredSquidKept
