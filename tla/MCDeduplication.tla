-------------------------- MODULE MCDeduplication --------------------------
(***************************************************************************)
(* Small instance of Deduplication: three domains, two identifiers of one  *)
(* source and one of another, one pair of similar names.                   *)
(***************************************************************************)
EXTENDS Deduplication

Confidences(name, website) == [name |-> name, website |-> website]

Company(name, website, canonical, ids, confidence) ==
    [name |-> name, website |-> website, canonical |-> canonical,
     ids |-> ids, confidence |-> confidence]

MCResembling == {{"acme", "acmee"}}

MCFacts ==
    { Company("acme",  "a", "a", {},                   Confidences(2, 2)),
      Company("acme",  "b", "a", {<<"wikidata", 1>>},  Confidences(1, 3)),
      Company("acmee", "b", "b", {<<"registry", 1>>},  Confidences(2, 1)),
      Company("acme",  "c", "c", {<<"wikidata", 1>>},  Confidences(3, 3)),
      Company("acmee", "a", "a", {<<"wikidata", 2>>},  Confidences(1, 1)),
      Company("zeta",  "c", "b", {<<"wikidata", Malformed>>}, Confidences(1, 1)),
      Company(LegalOnly, "d", "d", {},                 Confidences(1, 1)) }
=============================================================================
