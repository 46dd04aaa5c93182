--------------------------- MODULE WebsiteCrawler ---------------------------
(***************************************************************************)
(* AsyncWebsiteCrawler (app/providers/async_crawler.py) as the research    *)
(* runs of one process use it: one crawler and one preflight service are   *)
(* shared by all of them.  A crawl stands for a run that works on one      *)
(* website: it asks the preflight about the website's URL, then crawls it. *)
(*                                                                         *)
(* Crawls interleave wherever the code awaits: at a preflight check, at    *)
(* the semaphore and the delay lock of a domain, in a sleep, while the     *)
(* response is awaited and while its body is read.  A crawl may be         *)
(* cancelled at any of these points.  Time is counted by what is left of   *)
(* every delay.                                                            *)
(***************************************************************************)
EXTENDS Naturals, Sequences, FiniteSets

CONSTANTS
    Crawls, Urls, OriginOf, DomainVerdict, TermsLinks, RestrictedTerms,
    MaxTermsDocuments, None,
    Given,            \* the website URL each crawl is called with
    Normal,           \* _normalize_url, which adds the slash of the root path
    SiteOf,           \* _domain_key: the registrable domain
    Restricted,       \* URLs that _validate_safe_path rejects
    Links,            \* _discover_links of a page
    RedirectTargets,  \* normalized URLs that a Location header may lead to
    MaxPages,         \* RESEARCH_CRAWL_PAGE_LIMIT
    MaxQueued,        \* max_pages * 20
    MaxRedirects,
    Permits,          \* concurrent responses per domain
    Delay,            \* CRAWLER_REQUEST_DELAY_SECONDS
    RetryAfter        \* the longest Retry-After that is observed

ASSUME CrawlerAssumption ==
    /\ IsFiniteSet(Crawls) /\ None \notin Crawls
    /\ Given \in [Crawls -> Urls]
    /\ Normal \in [Urls -> Urls]
    /\ Links \in [Urls -> Seq(Urls)]
    /\ Restricted \subseteq Urls /\ RedirectTargets \subseteq Urls
    /\ {MaxPages, MaxQueued, Permits} \subseteq Nat \ {0}
    /\ {MaxRedirects, Delay, RetryAfter} \subseteq Nat

Sites == {SiteOf[u] : u \in Urls}

VARIABLES
    approvedTargets, approvedOrigins, prefetched, call,  \* the preflight's
    crawl,   \* the crawls
    site,    \* _domain_states: permits left, holder of the delay lock, and
             \* what is left of the delay since the last start
    quiet    \* history: time since the last request to a domain started, up to
             \* Delay; no action reads it

Preflight == INSTANCE CompliancePreflight WITH Callers <- Crawls

ASSUME ReviewAssumption == Preflight!PreflightAssumption

vars == <<approvedTargets, approvedOrigins, prefetched, call, crawl, site, quiet>>
preflightVars == <<approvedTargets, approvedOrigins, prefetched, call>>
pacing == <<site, quiet>>

(***************************************************************************)
(* Where a crawl is: "review" and "check" wait for the preflight, "permit" *)
(* for the semaphore, "lock" and "pause" for the delay before a request,   *)
(* "sent" for a response, "body" for its content; "backoff" and "rest"     *)
(* wait out a Retry-After.  "next" is the head of the loop of crawl and     *)
(* "links" that of the loop over a page's links, where nothing is awaited. *)
(***************************************************************************)
HoldsLock == {"pause", "rest"}
HoldsPermit == {"lock", "sent", "body", "backoff"} \cup HoldsLock
Fetching == {"permit"} \cup HoldsPermit
Active == {"review", "next", "check", "links"} \cup Fetching
Ended == {"skipped", "done", "failed", "raised", "cancelled"}

\* visited of the code is queued without what is still in queue: a URL enters
\* queue once, so the code's tests of visited never fire.
NewCrawl == [pc |-> "new", hop |-> None, redirects |-> 0, queue |-> <<>>,
             queued |-> {}, pages |-> <<>>, links |-> <<>>, domain |-> None, wait |-> 0]

Init ==
    /\ Preflight!Init
    /\ crawl = [c \in Crawls |-> NewCrawl]
    /\ site = [d \in Sites |-> [permits |-> Permits, lock |-> None, pace |-> 0]]
    /\ quiet = [d \in Sites |-> Delay]

Site(c) == SiteOf[crawl[c].hop]
Goes(c, pc) == crawl' = [crawl EXCEPT ![c].pc = pc]

\* A CrawlError loses the crawl only when no page was fetched before it.
Stop(c) == Goes(c, IF crawl[c].pages = <<>> THEN "failed" ELSE "done")

ReleasePermit(c) == site' = [site EXCEPT ![Site(c)].permits = @ + 1]

----------------------------------------------------------------------------
\* _process_candidate: the preflight check of the website.
Start(c) ==
    /\ crawl[c].pc = "new"
    /\ Preflight!Begin(c, Given[c])
    /\ Goes(c, "review")
    /\ UNCHANGED pacing

Reviewed(c) ==
    LET home == Normal[Given[c]] IN
    /\ crawl[c].pc = "review" /\ call[c].stage \in {"answered", "raised"}
    /\ IF call[c].decision = "approved"
       THEN crawl' = [crawl EXCEPT ![c].pc = "next", ![c].queue = <<home>>,
                                   ![c].queued = {home}]
       ELSE Goes(c, "skipped")
    /\ UNCHANGED <<preflightVars, pacing>>

\* The head of _fetch_with_redirects: the path is judged before the preflight
\* is asked about it.
Visit(c, u, moved) ==
    IF u \in Restricted
    THEN Stop(c) /\ UNCHANGED preflightVars
    ELSE /\ Preflight!Begin(c, u)
         /\ crawl' = [crawl EXCEPT ![c] = [moved EXCEPT !.pc = "check", !.hop = u]]

\* The loop of crawl: take the next target, or return the result.
NextTarget(c) ==
    LET w == crawl[c] IN
    /\ w.pc = "next"
    /\ IF w.queue = <<>> \/ Len(w.pages) >= MaxPages
       THEN Goes(c, "done") /\ UNCHANGED preflightVars
       ELSE Visit(c, Head(w.queue),
                  [w EXCEPT !.queue = Tail(@), !.redirects = 0])
    /\ UNCHANGED pacing

\* The crawl after a page of its current hop: the first page settles the domain
\* the crawl stays on, and only HTML has links.
WithPage(w, html) ==
    [w EXCEPT !.pc = "links",
              !.domain = IF w.pages = <<>> THEN SiteOf[w.hop] ELSE @,
              !.pages = Append(@, w.hop),
              !.links = IF html THEN Links[w.hop] ELSE <<>>]

\* One link of a page: queued if it is of the crawl's domain and new, as long as
\* the limit is not reached.
NextLink(c) ==
    LET w == crawl[c] IN
    /\ w.pc = "links"
    /\ crawl' = [crawl EXCEPT ![c] =
           IF w.links = <<>> \/ Cardinality(w.queued) >= MaxQueued
           THEN [w EXCEPT !.pc = "next", !.links = <<>>]
           ELSE IF SiteOf[Head(w.links)] = w.domain /\ Head(w.links) \notin w.queued
           THEN [w EXCEPT !.links = Tail(@),
                          !.queue = Append(@, Head(w.links)),
                          !.queued = @ \cup {Head(w.links)}]
           ELSE [w EXCEPT !.links = Tail(@)]]
    /\ UNCHANGED <<preflightVars, pacing>>

\* The preflight's answer about a hop; a page it has kept is taken over, unless
\* it is too large or a challenge, and otherwise a request is made.
Checked(c) ==
    LET w == crawl[c] IN
    /\ w.pc = "check" /\ call[c].stage \in {"answered", "raised"}
    /\ \/ /\ call[c].stage = "raised"
          /\ Goes(c, "raised")
          /\ UNCHANGED preflightVars
       \/ /\ call[c].stage = "answered" /\ call[c].decision # "approved"
          /\ Stop(c)
          /\ UNCHANGED preflightVars
       \/ /\ call[c].decision = "approved" /\ w.hop \in prefetched
          /\ Preflight!TakePrefetched(w.hop)
          /\ crawl' = [crawl EXCEPT ![c] = WithPage(w, TRUE)] \/ Stop(c)
          /\ UNCHANGED <<approvedTargets, approvedOrigins, call>>
       \/ /\ call[c].decision = "approved" /\ w.hop \notin prefetched
          /\ Goes(c, "permit") \/ Stop(c)  \* Stop: the address is not public
          /\ UNCHANGED preflightVars
    /\ UNCHANGED pacing

----------------------------------------------------------------------------
\* _request: a permit, then the delay lock, then the delay, then the request.
TakePermit(c) ==
    /\ crawl[c].pc = "permit" /\ site[Site(c)].permits > 0
    /\ site' = [site EXCEPT ![Site(c)].permits = @ - 1]
    /\ Goes(c, "lock")
    /\ UNCHANGED <<preflightVars, quiet>>

\* Mutant: the delay is waited out without the lock.
TakeLockShared(c) ==
    /\ crawl[c].pc = "lock"
    /\ crawl' = [crawl EXCEPT ![c].pc = "pause", ![c].wait = site[Site(c)].pace]
    /\ UNCHANGED <<preflightVars, pacing>>

\* What is left of the delay is computed once, under the lock.
TakeLock(c) ==
    /\ crawl[c].pc = "lock" /\ site[Site(c)].lock = None
    /\ site' = [site EXCEPT ![Site(c)].lock = c]
    /\ crawl' = [crawl EXCEPT ![c].pc = "pause", ![c].wait = site[Site(c)].pace]
    /\ UNCHANGED <<preflightVars, quiet>>

Send(c) ==
    /\ crawl[c].pc = "pause" /\ crawl[c].wait = 0
    /\ site' = [site EXCEPT ![Site(c)].lock = None, ![Site(c)].pace = Delay]
    /\ quiet' = [quiet EXCEPT ![Site(c)] = 0]
    /\ Goes(c, "sent")
    /\ UNCHANGED preflightVars

TransportFails(c) ==
    /\ crawl[c].pc = "sent"
    /\ ReleasePermit(c)
    /\ Stop(c)
    /\ UNCHANGED <<preflightVars, quiet>>

\* Mutant: only the first URL of a chain is checked.
RedirectedUnchecked(c) ==
    /\ crawl[c].pc = "sent" /\ crawl[c].redirects < MaxRedirects
    /\ ReleasePermit(c)
    /\ \E u \in RedirectTargets :
           crawl' = [crawl EXCEPT ![c].pc = "permit", ![c].hop = u,
                                  ![c].redirects = @ + 1]
    /\ UNCHANGED <<preflightVars, quiet>>

\* The response closes, which releases the permit, before its Location is read.
Redirected(c) ==
    /\ crawl[c].pc = "sent"
    /\ ReleasePermit(c)
    /\ \/ /\ crawl[c].redirects < MaxRedirects
          /\ \E u \in RedirectTargets :
                 Visit(c, u, [crawl[c] EXCEPT !.redirects = @ + 1])
       \/ Stop(c) /\ UNCHANGED preflightVars  \* one too many, or no Location
    /\ UNCHANGED quiet

\* A Location that _normalize_url rejects raises a ValueError, which no handler
\* of crawl catches.
RedirectedNowhere(c) ==
    /\ crawl[c].pc = "sent" /\ crawl[c].redirects < MaxRedirects
    /\ ReleasePermit(c)
    /\ Goes(c, "raised")
    /\ UNCHANGED <<preflightVars, quiet>>

\* 429 with a Retry-After.
RateLimited(c) ==
    /\ crawl[c].pc = "sent" /\ RetryAfter > 0
    /\ Goes(c, "backoff")
    /\ UNCHANGED <<preflightVars, pacing>>

\* The sleep holds the domain's lock, so that no other crawl starts a request.
BackOff(c) ==
    /\ crawl[c].pc = "backoff" /\ site[Site(c)].lock = None
    /\ site' = [site EXCEPT ![Site(c)].lock = c]
    /\ \E r \in 1..RetryAfter :
           crawl' = [crawl EXCEPT ![c].pc = "rest", ![c].wait = r]
    /\ UNCHANGED <<preflightVars, quiet>>

Rested(c) ==
    /\ crawl[c].pc = "rest" /\ crawl[c].wait = 0
    /\ site' = [site EXCEPT ![Site(c)].lock = None, ![Site(c)].pace = Delay,
                            ![Site(c)].permits = @ + 1]
    /\ Stop(c)
    /\ UNCHANGED <<preflightVars, quiet>>

\* Mutant: a response that is refused is not closed.
RefusedOpen(c) ==
    /\ crawl[c].pc = "sent"
    /\ Stop(c)
    /\ UNCHANGED <<preflightVars, pacing>>

\* Another status, type or declared size that stops the crawl.
Refused(c) ==
    /\ crawl[c].pc = "sent"
    /\ ReleasePermit(c)
    /\ Stop(c)
    /\ UNCHANGED <<preflightVars, quiet>>

Accepted(c) ==
    /\ crawl[c].pc = "sent"
    /\ Goes(c, "body")
    /\ UNCHANGED <<preflightVars, pacing>>

\* The body is complete, or is too large, a challenge, or broken off.
BodyEnds(c) ==
    /\ crawl[c].pc = "body"
    /\ ReleasePermit(c)
    /\ \/ \E html \in BOOLEAN :
              crawl' = [crawl EXCEPT ![c] = WithPage(crawl[c], html)]
       \/ Stop(c)
    /\ UNCHANGED <<preflightVars, quiet>>

----------------------------------------------------------------------------
\* Mutant: except Exception where the code says except BaseException.
CancelKeepingPermit(c) ==
    LET w == crawl[c] IN
    /\ w.pc \in Active \ {"next", "links"}
    /\ crawl' = [crawl EXCEPT ![c].pc = "cancelled", ![c].wait = 0]
    /\ IF call[c].stage \in Preflight!Working
       THEN Preflight!Cancel(c) ELSE UNCHANGED preflightVars
    /\ site' = [d \in Sites |-> [site[d] EXCEPT
           !.lock = IF w.pc \in HoldsLock /\ d = Site(c) THEN None ELSE @]]
    /\ UNCHANGED quiet

\* The run is cancelled: what the crawl holds is given back on the way out.
Cancel(c) ==
    LET w == crawl[c] IN
    /\ w.pc \in Active \ {"next", "links"}
    /\ crawl' = [crawl EXCEPT ![c].pc = "cancelled", ![c].wait = 0]
    /\ IF call[c].stage \in Preflight!Working
       THEN Preflight!Cancel(c) ELSE UNCHANGED preflightVars
    /\ site' = [d \in Sites |-> [site[d] EXCEPT
           !.permits = IF w.pc \in HoldsPermit /\ d = Site(c) THEN @ + 1 ELSE @,
           !.lock = IF w.pc \in HoldsLock /\ d = Site(c) THEN None ELSE @]]
    /\ UNCHANGED quiet

PreflightStep(c) == Preflight!Progress(c) /\ UNCHANGED <<crawl, pacing>>

PreflightRaises(c) == Preflight!Raise(c) /\ UNCHANGED <<crawl, pacing>>

Less(n) == IF n = 0 THEN 0 ELSE n - 1

Tick ==
    /\ \/ \E c \in Crawls : crawl[c].wait > 0
       \/ \E d \in Sites : site[d].pace > 0 \/ quiet[d] < Delay
    /\ crawl' = [c \in Crawls |-> [crawl[c] EXCEPT !.wait = Less(@)]]
    /\ site' = [d \in Sites |-> [site[d] EXCEPT !.pace = Less(@)]]
    /\ quiet' = [d \in Sites |-> IF quiet[d] < Delay THEN quiet[d] + 1 ELSE Delay]
    /\ UNCHANGED preflightVars

Answered(c) ==
    \/ TransportFails(c) \/ Redirected(c) \/ RedirectedNowhere(c)
    \/ RateLimited(c) \/ Refused(c) \/ Accepted(c)

Work(c) ==
    \/ Start(c) \/ Reviewed(c) \/ NextTarget(c) \/ NextLink(c) \/ Checked(c)
    \/ TakePermit(c) \/ TakeLock(c) \/ Send(c) \/ Answered(c)
    \/ BackOff(c) \/ Rested(c) \/ BodyEnds(c)

Next ==
    \/ \E c \in Crawls : Work(c) \/ PreflightStep(c) \/ PreflightRaises(c) \/ Cancel(c)
    \/ Tick

\* Every request has a timeout and every sleep ends.
Fairness ==
    /\ \A c \in Crawls : WF_vars(Work(c)) /\ WF_vars(PreflightStep(c))
    /\ WF_vars(Tick)

Spec == Init /\ [][Next]_vars /\ Fairness

----------------------------------------------------------------------------
CrawlStates ==
    [pc : {"new"} \cup Active \cup Ended, hop : Urls \cup {None},
     redirects : 0..MaxRedirects, queue : Seq(Urls), queued : SUBSET Urls,
     pages : Seq(Urls), links : Seq(Urls), domain : Sites \cup {None}, wait : Nat]

\* The values of the variables: only a holder of the lock waits out a delay.
TypeOK ==
    /\ Preflight!TypeOK
    /\ crawl \in [Crawls -> CrawlStates]
    /\ site \in [Sites -> [permits : 0..Permits, lock : Crawls \cup {None},
                          pace : 0..Delay]]
    /\ quiet \in [Sites -> 0..Delay]
    /\ \A c \in Crawls :
           /\ crawl[c].pc \in {"check"} \cup Fetching => crawl[c].hop \in Urls
           /\ crawl[c].wait > 0 => crawl[c].pc \in HoldsLock

Holders(d) == {c \in Crawls : crawl[c].pc \in HoldsPermit /\ Site(c) = d}

\* README.md:693, "at most two concurrent responses per domain": whatever fails,
\* is redirected or is cancelled, every permit is either free or held by one
\* crawl that has still to release it, and the lock is held by whom it says.
PermitsConserved ==
    \A d \in Sites :
        /\ site[d].permits + Cardinality(Holders(d)) = Permits
        /\ \A c \in Crawls :
               site[d].lock = c <=> crawl[c].pc \in HoldsLock /\ Site(c) = d

\* README.md:693, the crawler "spaces request starts": between two requests to a
\* domain, of whichever crawls, the delay passes.
StartsAreSpaced ==
    [][\A c \in Crawls :
           crawl[c].pc # "sent" /\ crawl'[c].pc = "sent" =>
               quiet[Site(c)] >= Delay]_vars

\* README.md:681: every target, discovered page and redirect hop is approved by
\* the preflight before it is fetched, and is not a restricted path.
RequestsWereApproved ==
    \A c \in Crawls :
        crawl[c].pc \in Fetching =>
            /\ call[c].url = crawl[c].hop /\ call[c].decision = "approved"
            /\ crawl[c].hop \notin Restricted

\* Every page of a crawl, requested or taken over from the preflight, is of an
\* origin the preflight has reviewed and a domain the source policy permits.
PagesAreReviewed ==
    \A c \in Crawls : \A i \in 1..Len(crawl[c].pages) :
        /\ OriginOf[crawl[c].pages[i]] \in approvedOrigins
        /\ DomainVerdict[crawl[c].pages[i]] = "approved"

\* Only links of the domain the first page came from are followed, also after a
\* later page was redirected elsewhere.
QueueStaysOnSite ==
    \A c \in Crawls :
        crawl[c].pages # <<>> =>
            \A i \in 1..Len(crawl[c].queue) : SiteOf[crawl[c].queue[i]] = crawl[c].domain

\* A crawl keeps within its page and queue limits, and asks for no target twice:
\* every queued URL was taken from the queue or is in it once.
CrawlStaysBounded ==
    \A c \in Crawls :
        LET w == crawl[c] IN
        /\ Len(w.pages) <= MaxPages
        /\ Cardinality(w.queued) <= MaxQueued
        /\ \A i, j \in 1..Len(w.queue) : w.queue[i] = w.queue[j] => i = j

\* Every crawl comes to an end, whatever the others do with the domain's permits
\* and lock.
CrawlsEnd == \A c \in Crawls : <>(crawl[c].pc \in Ended)

\* models/orchestration.py:75 calls a result "Bounded same-domain crawl output".
PagesOnOneSite ==
    \A c \in Crawls : \A i \in 1..Len(crawl[c].pages) :
        SiteOf[crawl[c].pages[i]] = crawl[c].domain

\* async_crawler.py:170 counts an invalid redirect among the CrawlErrors, so that
\* only an error of the preflight escapes from a crawl.
InvalidRedirectsAreCrawlErrors ==
    \A c \in Crawls : crawl[c].pc = "raised" => call[c].stage = "raised"

\* compliance_preflight.py:247: the home page read by the preflight is transferred
\* to the crawler, and is not kept after the crawl has returned its pages.
HomePageIsTransferred ==
    \A c \in Crawls : crawl[c].pc = "done" => Given[c] \notin prefetched
=============================================================================
