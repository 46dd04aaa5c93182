SPECIFICATION RobotsSpec
CONSTANTS
    None = None
    c1 = c1
    c2 = c2
    Checks = {c1, c2}
    Origins = {"site"}
    Paths = {"/about"}
    Rulings <- OpenOrClosed
    Ttl = 2
    Strict = TRUE
    MaxTime = 4
SYMMETRY Symmetry
INVARIANT ApprovalsAreFresh
