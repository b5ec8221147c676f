SPECIFICATION MCSpec
SYMMETRY Symmetry
CHECK_DEADLOCK FALSE
CONSTANTS
    bptA = bptA
    bptB = bptB
    web = web
    mirror = mirror
    dir = dir
    stable = stable
    beta = beta
    m1 = m1
    m2 = m2
    Procs = {bptA, bptB}
    Urls = {web, mirror, dir}
    Names = {stable, beta}
    FileUrls <- MCFileUrls
    Serves <- MCServes
    Packages = {"lib", "app"}
    Metas = {m1, m2}
    Listings <- MCListings
    Invalid = Invalid
    CacheControls = {"max-age", None}
    MaxAge = 0
    MaxTime = 1
    MaxPublishes = 1
    MaxCommands = 3
    MaxUrls = 1
    None = None
INVARIANTS TypeOK PackagesMatchEtag
PROPERTIES NotModifiedIsCached FreshWithinSomeMaxAge
