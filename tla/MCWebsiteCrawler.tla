-------------------------- MODULE MCWebsiteCrawler --------------------------
(***************************************************************************)
(* Crawls of the website https://a, whose URL the orchestrator holds       *)
(* without the slash of the root path.  Its home page links to another     *)
(* pages of it and to a second website b.  A redirect may lead to the home *)
(* page of b, to a login page, or to a website c that is not approved.     *)
(***************************************************************************)
EXTENDS WebsiteCrawler, TLC

CONSTANTS c1, c2, c3

MCUrls == {"a", "a/", "a/x", "a/y", "a/z", "b/", "b/x", "a/login", "c/"}
OnB == {"b/", "b/x"}

MCSiteOf == [u \in MCUrls |-> CASE u \in OnB -> "b" [] u = "c/" -> "c" [] OTHER -> "a"]
MCDomainVerdict == [u \in MCUrls |-> IF u = "c/" THEN "manual" ELSE "approved"]
MCTermsLinks == [u \in MCUrls |-> <<>>]
MCNormal == [u \in MCUrls |-> IF u = "a" THEN "a/" ELSE u]
MCGiven == [c \in Crawls |-> "a"]

MCLinks ==
    [u \in MCUrls |-> CASE u = "a/" -> <<"b/", "a/", "a/x", "a/y", "a/z">>
                        [] u = "b/" -> <<"a/x", "b/x">>
                        [] OTHER -> <<>>]

Symmetry == Permutations(Crawls)

\* One page and no links, for the run about pacing.
OneUrl == {"a", "a/"}
OneSiteOf == [u \in OneUrl |-> "a"]
OneDomainVerdict == [u \in OneUrl |-> "approved"]
OneNormal == [u \in OneUrl |-> "a/"]
OneTermsLinks == [u \in OneUrl |-> <<>>]
=============================================================================
