SPECIFICATION Spec
CONSTANTS
    acme = acme
    other = other
    odd = odd
    shop = shop
    plain = plain
    here = here
    there = there
    town = town
    craft = craft
    h = h
    sub = sub
    out = out
    Pages = {1, 2, 3, 4, 5, 6}
    Home = 1
    RankedAs <- MCRankedAs
    Limit = 3
    OnTopic = {shop}
    Target = {here}
    TargetCities = {town}
    OnSite = {1, 2, 3, 4, 5, 6}
    Websites <- MCWebsites
    Requests <- MCRequests
    Answers <- MCAnswers
    Personal = {"ceo"}
    Host <- MCHost
    Depth <- MCDepth
    Unusual = {odd}
    MaxServices = 2
    MaxResponseRetries = 1
    MaxHttpRetries = 1
    None = None
INVARIANTS AssessmentTypeOK SelectionKeepsTheBest EvidenceWasSupplied SiteIsNotOverruled ScoresExplainThemselves InferenceEarnsLittle
