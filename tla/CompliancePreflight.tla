------------------------ MODULE CompliancePreflight ------------------------
(***************************************************************************)
(* CompliancePreflightService (app/services/compliance_preflight.py): the  *)
(* one service that every research run of the process and the crawler ask  *)
(* before they read a page.  It remembers the targets and origins whose    *)
(* terms it has reviewed, and keeps the page it read while reviewing for   *)
(* the crawler to take over once.                                          *)
(*                                                                         *)
(* Checks run concurrently, one per caller, and are interrupted wherever   *)
(* the code awaits: at a robots answer and at the body of a page.  What    *)
(* the robots policy answers is free here (RobotsCache models it); the     *)
(* source policy is a constant, as SourcePolicyService loads its snapshot  *)
(* once and nothing in the process reloads it.                             *)
(***************************************************************************)
EXTENDS Naturals, Sequences

CONSTANTS
    Callers,            \* tasks that may each have one check under way
    Urls,               \* the URL strings the service is asked about
    OriginOf,           \* scheme, host and port of a URL
    DomainVerdict,      \* SourcePolicyService.evaluate
    TermsLinks,         \* TermsPolicyScanner.discover_links of a page
    RestrictedTerms,    \* documents in which scan_document finds a signal
    MaxTermsDocuments,  \* TERMS_MAX_DOCUMENTS
    None

Decisions == {"approved", "manual", "rejected"}

ASSUME PreflightAssumption ==
    /\ None \notin Urls \cup Decisions
    /\ DomainVerdict \in [Urls -> Decisions]
    /\ TermsLinks \in [Urls -> Seq(Urls)]
    /\ RestrictedTerms \subseteq Urls
    /\ MaxTermsDocuments \in Nat \ {0}

VARIABLES
    approvedTargets,
    approvedOrigins,
    prefetched,         \* the URLs whose body waits in _prefetched_html
    call                \* the check each caller has under way, or its answer

vars == <<approvedTargets, approvedOrigins, prefetched, call>>
memory == <<approvedTargets, approvedOrigins, prefetched>>

(***************************************************************************)
(* A check waits for the robots answer of its target ("robots"), for the   *)
(* target's page ("page"), for the robots answer of the next terms         *)
(* document ("terms") and for that document ("document").                  *)
(***************************************************************************)
Working == {"robots", "page", "terms", "document"}
Stages == Working \cup {"idle", "answered", "raised"}

Check(stage, u, d) == [stage |-> stage, url |-> u, pending |-> <<>>,
                       manual |-> FALSE, decision |-> d]
Idle == Check("idle", None, None)

Init ==
    /\ approvedTargets = {}
    /\ approvedOrigins = {}
    /\ prefetched = {}
    /\ call = [c \in Callers |-> Idle]

Answer(c, d) == [call EXCEPT ![c].stage = "answered", ![c].decision = d]

----------------------------------------------------------------------------
\* The domain policy is evaluated before the check first awaits.
Begin(c, u) ==
    /\ call[c].stage \notin Working
    /\ call' = [call EXCEPT ![c] =
           IF DomainVerdict[u] = "approved" THEN Check("robots", u, None)
           ELSE Check("answered", u, DomainVerdict[u])]
    /\ UNCHANGED memory

\* Mutant: one reviewed origin stands for all of them.
AlreadyReviewedAnywhere(u) == u \in approvedTargets \/ approvedOrigins # {}

\* A target or origin approved by now, by whichever caller, skips the terms.
AlreadyReviewed(u) == u \in approvedTargets \/ OriginOf[u] \in approvedOrigins

TargetRobots(c, d) ==
    /\ call[c].stage = "robots"
    /\ call' = IF d # "approved" \/ AlreadyReviewed(call[c].url)
               THEN Answer(c, d)
               ELSE [call EXCEPT ![c].stage = "page"]
    /\ UNCHANGED memory

\* Mutant: the limit cuts the list but is no signal.
PageArrivesTruncated(c) ==
    LET links == TermsLinks[call[c].url] IN
    /\ call[c].stage = "page"
    /\ call' = [call EXCEPT
           ![c].stage = "terms",
           ![c].pending = IF Len(links) > MaxTermsDocuments
                          THEN SubSeq(links, 1, MaxTermsDocuments) ELSE links]
    /\ UNCHANGED memory

\* Documents beyond the limit are not read, and their existence is a signal.
PageArrives(c) ==
    LET links == TermsLinks[call[c].url] IN
    /\ call[c].stage = "page"
    /\ call' = [call EXCEPT
           ![c].stage = "terms",
           ![c].pending = IF Len(links) > MaxTermsDocuments
                          THEN SubSeq(links, 1, MaxTermsDocuments) ELSE links,
           ![c].manual = Len(links) > MaxTermsDocuments]
    /\ UNCHANGED memory

\* No HTML: a status, type or size that is not acceptable, or no response.
PageUnusable(c) ==
    /\ call[c].stage = "page"
    /\ call' = Answer(c, "manual")
    /\ UNCHANGED memory

\* Leave the first pending document, with or without a signal from it.
Reviewed(c, signal) ==
    call' = [call EXCEPT ![c].stage = "terms",
                         ![c].pending = Tail(@),
                         ![c].manual = @ \/ signal]

SkipDocument(c) ==
    /\ call[c].stage = "terms" /\ call[c].pending # <<>>
    /\ DomainVerdict[Head(call[c].pending)] # "approved"
    /\ Reviewed(c, TRUE)
    /\ UNCHANGED memory

DocumentRobots(c, d) ==
    /\ call[c].stage = "terms" /\ call[c].pending # <<>>
    /\ DomainVerdict[Head(call[c].pending)] = "approved"
    /\ IF d = "approved"
       THEN call' = [call EXCEPT ![c].stage = "document"]
       ELSE Reviewed(c, TRUE)
    /\ UNCHANGED memory

DocumentArrives(c) ==
    /\ call[c].stage = "document"
    /\ Reviewed(c, Head(call[c].pending) \in RestrictedTerms)
    /\ UNCHANGED memory

DocumentUnusable(c) ==
    /\ call[c].stage = "document"
    /\ Reviewed(c, TRUE)
    /\ UNCHANGED memory

\* Only an approval is remembered; a review that asks for a human is not.
Conclude(c) ==
    LET u == call[c].url IN
    /\ call[c].stage = "terms" /\ call[c].pending = <<>>
    /\ IF call[c].manual
       THEN call' = Answer(c, "manual") /\ UNCHANGED memory
       ELSE /\ call' = Answer(c, "approved")
            /\ approvedTargets' = approvedTargets \cup {u}
            /\ approvedOrigins' = approvedOrigins \cup {OriginOf[u]}
            /\ prefetched' = prefetched \cup {u}

\* An error check does not handle: an unreadable policy file, a body that
\* cannot be decoded.
Raise(c) ==
    /\ call[c].stage \in Working
    /\ call' = [call EXCEPT ![c].stage = "raised"]
    /\ UNCHANGED memory

Cancel(c) ==
    /\ call[c].stage \in Working
    /\ call' = [call EXCEPT ![c] = Idle]
    /\ UNCHANGED memory

\* take_prefetched_content; what it returns is whether u was in the set.
TakePrefetched(u) == prefetched' = prefetched \ {u}

Take(u) ==
    /\ u \in prefetched
    /\ TakePrefetched(u)
    /\ UNCHANGED <<approvedTargets, approvedOrigins, call>>

----------------------------------------------------------------------------
\* The steps of a check its caller waits for.
Progress(c) ==
    \/ \E d \in Decisions : TargetRobots(c, d)
    \/ PageArrives(c)
    \/ PageUnusable(c)
    \/ SkipDocument(c)
    \/ \E d \in Decisions : DocumentRobots(c, d)
    \/ DocumentArrives(c)
    \/ DocumentUnusable(c)
    \/ Conclude(c)

Next ==
    \/ \E c \in Callers, u \in Urls : Begin(c, u)
    \/ \E c \in Callers : Progress(c) \/ Raise(c) \/ Cancel(c)
    \/ \E u \in Urls : Take(u)

Spec == Init /\ [][Next]_vars

----------------------------------------------------------------------------
\* The values of the variables: an answered check has a decision.
Calls == [stage : Stages, url : Urls \cup {None}, pending : Seq(Urls),
          manual : BOOLEAN, decision : Decisions \cup {None}]

TypeOK ==
    /\ approvedTargets \subseteq Urls
    /\ approvedOrigins \subseteq {OriginOf[u] : u \in Urls}
    /\ prefetched \subseteq approvedTargets
    /\ call \in [Callers -> Calls]
    /\ \A c \in Callers :
           /\ call[c].stage # "idle" => call[c].url \in Urls
           /\ call[c].stage = "answered" <=> call[c].decision \in Decisions

\* A page all of whose terms documents may be read and hold no signal.
CleanTerms(u) ==
    /\ Len(TermsLinks[u]) <= MaxTermsDocuments
    /\ \A i \in 1..Len(TermsLinks[u]) :
           /\ DomainVerdict[TermsLinks[u][i]] = "approved"
           /\ TermsLinks[u][i] \notin RestrictedTerms

\* Whatever checks overlap, fail or are cancelled: a remembered origin is one
\* whose terms were read to the end from some page of it that the source
\* policy allows, and nothing unreviewed is remembered (check, lines 144-244).
ApprovalsAreReviewed ==
    /\ approvedOrigins = {OriginOf[u] : u \in approvedTargets}
    /\ \A u \in approvedTargets : CleanTerms(u) /\ DomainVerdict[u] = "approved"

\* A caller that is told "approved" is told so of a permitted domain and of an
\* origin that has been reviewed, be it by another caller during its own check.
ApprovalRestsOnReview ==
    \A c \in Callers :
        call[c].decision = "approved" =>
            /\ DomainVerdict[call[c].url] = "approved"
            /\ OriginOf[call[c].url] \in approvedOrigins

\* README.md:490 says that explicit language in the terms requires manual
\* review: a page whose own terms hold a signal is then never approved.
RestrictedTermsNeedReview ==
    \A c \in Callers :
        call[c].decision = "approved" =>
            \A i \in 1..Len(TermsLinks[call[c].url]) :
                TermsLinks[call[c].url][i] \notin RestrictedTerms

=============================================================================
