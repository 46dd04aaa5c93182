---------------------- MODULE MCResearchOrchestrator ----------------------
(***************************************************************************)
(* Small instances of ResearchOrchestrator: three websites that may be     *)
(* one, two or three companies.                                            *)
(***************************************************************************)
EXTENDS ResearchOrchestrator

Certain == [name |-> 2, website |-> 2]
Unsure  == [name |-> 1, website |-> 1]

Company(name, website, canonical, ids, confidence) ==
    [name |-> name, website |-> website, canonical |-> canonical,
     ids |-> ids, confidence |-> confidence]

Acme       == Company("acme", "a", "a", {}, Certain)
AcmeMoved  == Company("acme", "b", "a", {}, Unsure)
AcmeKnown  == Company("acme", "a", "a", {<<"wikidata", 1>>}, Certain)
Zeta       == Company("zeta", "c", "c", {}, Certain)
Omega      == Company("omega", "b", "b", {}, Certain)
Unnamed    == Company(LegalOnly, "c", "c", {}, Certain)

MCResembling == {}

MCWebsite == [url \in Candidates |->
    CASE url = "a/" -> "a" [] url = "b/" -> "b" [] url = "c/" -> "c"]
MCStored == [url \in Candidates \cup Websites |->
    CASE url = "a" -> "a/" [] url = "b" -> "b/" [] url = "c" -> "c/" [] OTHER -> url]

PipelineFacts  == {Acme, AcmeKnown, Omega, Unnamed}
DuplicateFacts == {Acme, AcmeMoved, Zeta, Omega}
Silent     == {FALSE}
AnyOutcome == BOOLEAN
=============================================================================
