CONSTANTS
    Sources = {"wikidata", "registry"}
    Malformed = Malformed
    LegalOnly = LegalOnly
    Resembling <- MCResembling
    DraftFacts <- MCFacts
    MaxDrafts = 5
SPECIFICATION DraftsSpec
CHECK_DEADLOCK FALSE
INVARIANTS
    EveryDraftInOneCompany
    ConflictingIdentifiersStayApart
    MergesAreCorroborated
PROPERTY CompaniesOnlyGrow
