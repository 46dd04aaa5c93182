---------------------------- MODULE MCEnrichment ----------------------------
(***************************************************************************)
(* Two companies: one whose website names its country and city, and one    *)
(* whose website names neither, so that Wikidata may supply them.          *)
(***************************************************************************)
EXTENDS Enrichment

CONSTANTS placed, bare, de, nl, town, port

MCChain == <<"opencorporates", "wikidata", "geonames">>

MCExtracted ==
    [c \in Companies |->
        IF c = placed
        THEN [Nothing EXCEPT !["country"] = de, !["headquarters_location"] = town]
        ELSE Nothing]
=============================================================================
