SPECIFICATION Spec
CONSTANTS
    None = None
    Callers <- TwoCallers
    Urls <- MCUrls
    OriginOf <- MCOriginOf
    DomainVerdict <- MCDomainVerdict
    TermsLinks <- MCTermsLinks
    RestrictedTerms = {"terms"}
    MaxTermsDocuments = 1
INVARIANTS ApprovalsAreReviewed ApprovalRestsOnReview
