----------------------- MODULE MCCompliancePreflight -----------------------
(***************************************************************************)
(* Two callers and two origins.  Of origin "one", the home page links to a *)
(* document with a signal, while its contact page links to no terms; the   *)
(* home page of origin "two" links to a clean document and, beyond the     *)
(* limit, to one of an unreviewed domain, which the clean one links to.    *)
(***************************************************************************)
EXTENDS CompliancePreflight

TwoCallers == {"r1", "r2"}

MCUrls == {"home", "contact", "terms", "two", "clean", "foreign"}

MCOriginOf ==
    [u \in MCUrls |-> CASE u \in {"two", "clean"} -> "two"
                        [] u = "foreign" -> "foreign"
                        [] OTHER -> "one"]

MCDomainVerdict ==
    [u \in MCUrls |-> IF u = "foreign" THEN "manual" ELSE "approved"]

MCTermsLinks ==
    [u \in MCUrls |-> CASE u = "home" -> <<"terms">>
                        [] u = "two" -> <<"clean", "foreign">>
                        [] u = "clean" -> <<"foreign">>
                        [] OTHER -> <<>>]
=============================================================================
