SPECIFICATION Spec
CONSTANTS
    Reviewers = {r1}
    Domains <- MCDomains
    Bare <- MCBare
    Ancestors <- MCAncestors
    FirstApproved <- MCFirstApproved
    FirstBlocked <- MCFirstBlocked
    MaxHistory = 2
CHECK_DEADLOCK FALSE
INVARIANTS RecordsMatchRules ApprovalsTakeEffect
PROPERTY ApprovalsAreDecided
