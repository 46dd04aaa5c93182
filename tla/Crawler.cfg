SPECIFICATION Spec
CONSTANTS
    None = None
    c1 = c1
    c2 = c2
    c3 = c3
    Crawls = {c1, c2}
    Urls <- MCUrls
    OriginOf <- MCSiteOf
    SiteOf <- MCSiteOf
    DomainVerdict <- MCDomainVerdict
    TermsLinks <- MCTermsLinks
    RestrictedTerms = {}
    MaxTermsDocuments = 1
    Given <- MCGiven
    Normal <- MCNormal
    Restricted = {"a/login"}
    Links <- MCLinks
    RedirectTargets = {"b/", "a/login", "c/"}
    MaxPages = 3
    MaxQueued = 3
    MaxRedirects = 1
    Permits = 2
    Delay = 1
    RetryAfter = 2
SYMMETRY Symmetry
INVARIANTS RequestsWereApproved PermitsConserved
CHECK_DEADLOCK FALSE
