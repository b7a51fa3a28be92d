SPECIFICATION Spec
CONSTANTS
    Names <- MCNames
    Groups = {g1, g2}
    NoGroup = NoGroup
    None = None
    s1 = s1
    s2 = s2
    Steps = {s1, s2}
    Rates = {1, 2}
    Den = 2
    MostRows = 8
    acc1 = acc1
    acc2 = acc2
    acc3 = acc3
    AccountIds = {acc1, acc2, acc3}
    t1 = t1
    t2 = t2
    Types = {t1, t2}
    PageCap = 2
    c1 = c1
    c2 = c2
    c3 = c3
    Ids = {c1, c2, c3}
    reddit = reddit
    posts = posts
    post = post
    of = of
    Scraper = scraper
    Words = {reddit, posts, post, scraper, of}
    Singulars <- MCSingulars
    StopWords = {of}
    SearchCap = 1
    DefaultSize = 2
    FullSize = 3
    MaxSize = 4
    WalkMax = 5
    Schemas <- MCSchemas
    Estimates <- MCEstimates
    Balances <- MCBalances
    AccountLists <- MCAccountLists
    Searches <- MCSearches
    Slugs <- MCSlugs
    Walks <- MCWalks
    Reads <- MCReads
INVARIANTS
    SchemaKeepsApart
    SchemaAsksEnough
    SchemaReachesAll
    CostIsTold
    AccountIsForced
    CrawlersAreFound
    PagesLoseNothing
CHECK_DEADLOCK FALSE
