SPECIFICATION Spec
CONSTANTS
    placed = placed
    bare = bare
    de = de
    nl = nl
    town = town
    port = port
    Companies = {placed, bare}
    Chain <- MCChain
    Extracted <- MCExtracted
    Countries = {de, nl}
    Cities = {town, port}
    MaxRetries = 1
    Several = Several
    Some = Some
    None = None
INVARIANTS IdentifiersAreCorroborated SilenceMeansCorroborated LookupsAreNotRepeated
PROPERTY EnrichmentsEnd
CHECK_DEADLOCK FALSE
