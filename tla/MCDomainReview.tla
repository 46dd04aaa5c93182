--------------------------- MODULE MCDomainReview ---------------------------
(***************************************************************************)
(* A host with both its names, a subdomain of it and another host.  The    *)
(* first rules block "shop" with everything below it, as the shipped       *)
(* blocked_domains.yaml does for its platforms, and list "other" in both   *)
(* files.                                                                  *)
(***************************************************************************)
EXTENDS DomainReview

MCDomains == {"shop", "www.shop", "blog.shop", "other"}
MCBare == [d \in MCDomains |-> IF d = "www.shop" THEN "shop" ELSE d]
MCAncestors == [d \in MCDomains |->
    IF d \in {"www.shop", "blog.shop"} THEN {"shop"} ELSE {}]

MCFirstApproved == [exact |-> {"other"}, recursive |-> {}]
MCFirstBlocked == [exact |-> {"other"}, recursive |-> {"shop"}]
=============================================================================
