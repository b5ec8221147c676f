SPECIFICATION Spec
CHECK_DEADLOCK FALSE
CONSTANTS
    bptA = bptA
    bptB = bptB
    web = web
    mirror = mirror
    dir = dir
    stable = stable
    beta = beta
    m1 = m1
    m2 = m2
    Procs = {bptA}
    Urls = {web, mirror}
    Names = {stable, beta}
    FileUrls <- MCFileUrls
    Serves <- MCServes
    Packages = {"lib", "app"}
    Metas = {m1, m2}
    Listings <- MCListings
    Invalid = Invalid
    CacheControls = {"max-age", None}
    MaxAge = 0
    MaxTime = 1
    MaxPublishes = 0
    MaxCommands = 2
    MaxUrls = 2
    None = None
PROPERTIES FreshWithinItsMaxAge
