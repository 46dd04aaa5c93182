CONSTANTS
    Sources = {"wikidata"}
    Malformed = Malformed
    LegalOnly = LegalOnly
    Resembling <- MCResembling
    Candidates = {"a/", "b/", "c/"}
    Websites = {"a", "b", "c"}
    Website <- MCWebsite
    Stored <- MCStored
    Facts <- PipelineFacts
    Providers = 1
    Formats = 1
    ResultCount = 2
    Budget = 3
    Queries = 1
    LastOffset = 9
    PageSize = 2
    RetainSkipped = FALSE
    CallbackOutcomes <- AnyOutcome
    None = None
SPECIFICATION Spec
CHECK_DEADLOCK FALSE
INVARIANTS
    TypeOK
    EveryWebsiteAccountedFor
    RowAgreesWithResult
    CleanCompletionLosesNothing
    PublishedCompaniesAreDistinct
    CancellationSplitsNoPersistence
PROPERTY KeepsLifecycle
