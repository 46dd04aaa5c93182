SPECIFICATION Spec
CONSTANTS
    None = None
    c1 = c1
    c2 = c2
    c3 = c3
    Crawls = {c1, c2, c3}
    Urls <- OneUrl
    OriginOf <- OneSiteOf
    SiteOf <- OneSiteOf
    DomainVerdict <- OneDomainVerdict
    TermsLinks <- OneTermsLinks
    RestrictedTerms = {}
    MaxTermsDocuments = 1
    Given <- MCGiven
    Normal <- OneNormal
    Restricted = {}
    Links <- OneTermsLinks
    RedirectTargets = {"a/"}
    MaxPages = 1
    MaxQueued = 3
    MaxRedirects = 0
    Permits = 2
    Delay = 2
    RetryAfter = 2
PROPERTIES StartsAreSpaced CrawlsEnd
CHECK_DEADLOCK FALSE
