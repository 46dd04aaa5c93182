CONSTANTS
    Sources = {"wikidata"}
    Malformed = Malformed
    LegalOnly = LegalOnly
    Resembling <- MCResembling
    Candidates = {"a/", "b/", "c/"}
    Websites = {"a", "b", "c"}
    Website <- MCWebsite
    Stored <- MCStored
    Facts <- DuplicateFacts
    Providers = 0
    Formats = 0
    ResultCount = 2
    Budget = 3
    Queries = 1
    LastOffset = 9
    PageSize = 3
    RetainSkipped = FALSE
    CallbackOutcomes <- Silent
    None = None
SPECIFICATION Spec
CHECK_DEADLOCK FALSE
INVARIANT SearchIsNotCutShort
