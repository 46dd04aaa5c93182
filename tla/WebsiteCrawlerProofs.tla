------------------------ MODULE WebsiteCrawlerProofs ------------------------
(***************************************************************************)
(* The crawler's permits, delays and approvals, for any number of crawls,  *)
(* websites, permits and limits.  The memory of the preflight service that *)
(* the crawls share is sound by the lemmas of CompliancePreflightProofs.   *)
(***************************************************************************)
EXTENDS WebsiteCrawler, FiniteSetTheorems, TLAPS

P == INSTANCE CompliancePreflightProofs WITH Callers <- Crawls

\* A step of the preflight as its own module and as this one see it.
LEMMA PreflightSteps ==
    /\ P!PreflightAssumption
    /\ Preflight!Init => P!Init
    /\ \A c \in Crawls :
           /\ \A u \in Urls : Preflight!Begin(c, u) => P!Begin(c, u)
           /\ Preflight!Progress(c) => P!Progress(c)
           /\ Preflight!Raise(c) => P!Raise(c)
           /\ Preflight!Cancel(c) => P!Cancel(c)
    /\ \A u : Preflight!TakePrefetched(u) => P!TakePrefetched(u)
  <1>1. P!PreflightAssumption
    BY ReviewAssumption DEF P!PreflightAssumption, Preflight!PreflightAssumption,
       P!Decisions, Preflight!Decisions
  <1> USE DEF P!Check, Preflight!Check, P!Idle, Preflight!Idle, P!Working,
         Preflight!Working, P!memory, Preflight!memory, P!Answer, Preflight!Answer,
         P!Reviewed, Preflight!Reviewed, P!AlreadyReviewed, Preflight!AlreadyReviewed,
         P!Decisions, Preflight!Decisions
  <1>2. Preflight!Init => P!Init
    BY DEF P!Init, Preflight!Init
  <1>3. ASSUME NEW c \in Crawls
        PROVE  /\ \A u \in Urls : Preflight!Begin(c, u) => P!Begin(c, u)
               /\ Preflight!Raise(c) => P!Raise(c)
               /\ Preflight!Cancel(c) => P!Cancel(c)
    BY DEF P!Begin, Preflight!Begin, P!Raise, Preflight!Raise, P!Cancel, Preflight!Cancel
  <1>4. ASSUME NEW c \in Crawls, Preflight!Progress(c) PROVE P!Progress(c)
    BY <1>4 DEF P!Progress, Preflight!Progress, P!TargetRobots,
       Preflight!TargetRobots, P!PageArrives, Preflight!PageArrives,
       P!PageUnusable, Preflight!PageUnusable, P!SkipDocument,
       Preflight!SkipDocument, P!DocumentRobots, Preflight!DocumentRobots,
       P!DocumentArrives, Preflight!DocumentArrives, P!DocumentUnusable,
       Preflight!DocumentUnusable, P!Conclude, Preflight!Conclude
  <1>5. \A u : Preflight!TakePrefetched(u) => P!TakePrefetched(u)
    BY DEF P!TakePrefetched, Preflight!TakePrefetched
  <1> QED BY <1>1, <1>2, <1>3, <1>4, <1>5

-----------------------------------------------------------------------------
\* Where a crawl has a hop, about which it asks or has asked the preflight.
Hopping == {"check"} \cup Fetching

\* The pages of a crawl.
PagesSound(w, reviewed) ==
    /\ Len(w.pages) <= MaxPages
    /\ w.pc \in Hopping => Len(w.pages) < MaxPages
    /\ w.pc \in {"done", "links"} => w.pages # <<>>
    /\ w.pc \in {"failed", "new", "review"} => w.pages = <<>>
    /\ \A i \in 1..Len(w.pages) :
           /\ OriginOf[w.pages[i]] \in reviewed
           /\ DomainVerdict[w.pages[i]] = "approved"

\* The queue of a crawl: before the first page it holds the home page or, once
\* that was taken, nothing.
QueueSound(w) ==
    /\ IsFiniteSet(w.queued) /\ Cardinality(w.queued) <= MaxQueued
    /\ \A i \in 1..Len(w.queue) : w.queue[i] \in w.queued
    /\ \A i, j \in 1..Len(w.queue) : w.queue[i] = w.queue[j] => i = j
    /\ w.pages = <<>> /\ w.pc \in Hopping => w.queue = <<>>
    /\ w.pages = <<>> /\ w.pc = "next" => Len(w.queue) = 1
    /\ w.pages # <<>> =>
           \A i \in 1..Len(w.queue) : SiteOf[w.queue[i]] = w.domain

\* The hop of a crawl and what the preflight says of it.
HopSound(w, asked) ==
    /\ w.pc \in Hopping =>
           w.hop \in Urls /\ w.hop \notin Restricted /\ asked.url = w.hop
    /\ w.pc \in Fetching => asked.decision = "approved"
    /\ w.wait > 0 => w.pc \in HoldsLock

Local(w, asked, reviewed) ==
    /\ w \in CrawlStates
    /\ PagesSound(w, reviewed)
    /\ QueueSound(w)
    /\ HopSound(w, asked)

CrawlsSound ==
    /\ crawl \in [Crawls -> CrawlStates]
    /\ \A c \in Crawls : Local(crawl[c], call[c], approvedOrigins)

\* The crawls and the preflight they ask.
AInv == P!IInv /\ CrawlsSound

SiteStates == [permits : Nat, lock : Crawls \cup {None}, pace : 0..Delay]

SitesTyped ==
    /\ site \in [Sites -> SiteStates]
    /\ quiet \in [Sites -> 0..Delay]

\* What is left of a delay, on the site and for the crawl that waits it out,
\* covers what is missing since the last request.
Paced ==
    /\ \A d \in Sites : quiet[d] + site[d].pace >= Delay
    /\ \A c \in Crawls :
           crawl[c].pc = "pause" => quiet[Site(c)] + crawl[c].wait >= Delay

\* The inductive invariant.
IInv == AInv /\ SitesTyped /\ PermitsConserved /\ Paced

-----------------------------------------------------------------------------
USE CrawlerAssumption

\* What Append adds to a sequence.
LEMMA Appended ==
    ASSUME NEW S, NEW s \in Seq(S), NEW x \in S
    PROVE  /\ Append(s, x) \in Seq(S) /\ Len(s) \in Nat
           /\ Len(Append(s, x)) = Len(s) + 1
           /\ \A i \in 1..Len(Append(s, x)) : i \in 1..Len(s) \/ i = Len(s) + 1
           /\ \A i \in 1..Len(s) : Append(s, x)[i] = s[i]
           /\ Append(s, x)[Len(s) + 1] = x
  OBVIOUS

\* A step that changes one crawl to a sound one, and the preflight for no other.
LEMMA OneCrawl ==
    ASSUME CrawlsSound, NEW c \in Crawls, NEW w,
           Local(w, call'[c], approvedOrigins'),
           crawl' = [crawl EXCEPT ![c] = w],
           \A e \in Crawls : e # c => call'[e] = call[e],
           approvedOrigins \subseteq approvedOrigins'
    PROVE  CrawlsSound'
  <1>1. w \in CrawlStates
    BY DEF Local
  <1>2. crawl' \in [Crawls -> CrawlStates]
    BY <1>1 DEF CrawlsSound
  <1>3. ASSUME NEW e \in Crawls PROVE Local(crawl'[e], call'[e], approvedOrigins')
    <2>1. CASE e = c
      BY <2>1 DEF CrawlsSound
    <2>2. CASE e # c
      <3>1. crawl'[e] = crawl[e] /\ call'[e] = call[e]
        BY <2>2 DEF CrawlsSound
      <3>2. Local(crawl[e], call[e], approvedOrigins)
        BY DEF CrawlsSound
      <3> QED BY <3>1, <3>2 DEF Local, PagesSound
    <2> QED BY <2>1, <2>2
  <1> QED BY <1>2, <1>3 DEF CrawlsSound

\* A crawl that keeps its pages and queue and goes elsewhere.
LEMMA Elsewhere ==
    ASSUME NEW w, NEW asked, NEW reviewed, Local(w, asked, reviewed), NEW asked2,
           NEW pc \in {"new"} \cup Active \cup Ended, NEW wait \in Nat,
           pc \in Hopping => /\ w.pc \in Hopping /\ asked2 = asked
                             /\ asked.decision = "approved",
           pc \notin {"next", "new", "review", "links"},
           pc = "done" => w.pages # <<>>, pc = "failed" => w.pages = <<>>,
           wait > 0 => pc \in HoldsLock
    PROVE  Local([w EXCEPT !.pc = pc, !.wait = wait], asked2, reviewed)
  <1> DEFINE v == [w EXCEPT !.pc = pc, !.wait = wait]
  <1>1. w \in CrawlStates
    BY DEF Local
  <1>2. /\ v \in CrawlStates /\ v.pc = pc /\ v.hop = w.hop /\ v.queue = w.queue
        /\ v.queued = w.queued /\ v.pages = w.pages /\ v.domain = w.domain
        /\ v.wait = wait
    BY <1>1 DEF CrawlStates
  <1> HIDE DEF v
  <1>3. PagesSound(v, reviewed)
    BY <1>2 DEF Local, PagesSound, Hopping, Fetching, HoldsPermit, HoldsLock
  <1>4. QueueSound(v)
    BY <1>2 DEF Local, QueueSound
  <1>5. HopSound(v, asked2)
    BY <1>2 DEF Local, HopSound, Hopping
  <1> QED BY <1>2, <1>3, <1>4, <1>5 DEF Local, v

\* A step of a crawl that only goes elsewhere.
LEMMA Move ==
    ASSUME CrawlsSound, NEW c \in Crawls,
           NEW pc \in {"new"} \cup Active \cup Ended, NEW wait \in Nat,
           crawl' = [crawl EXCEPT ![c].pc = pc, ![c].wait = wait],
           pc \in Hopping => /\ crawl[c].pc \in Hopping /\ call'[c] = call[c]
                             /\ call[c].decision = "approved",
           pc \notin {"next", "new", "review", "links"},
           pc = "done" => crawl[c].pages # <<>>,
           pc = "failed" => crawl[c].pages = <<>>,
           wait > 0 => pc \in HoldsLock,
           \A e \in Crawls : e # c => call'[e] = call[e],
           approvedOrigins' = approvedOrigins
    PROVE  CrawlsSound'
  <1> DEFINE w == [crawl[c] EXCEPT !.pc = pc, !.wait = wait]
  <1>1. Local(crawl[c], call[c], approvedOrigins) /\ crawl[c] \in CrawlStates
    BY DEF CrawlsSound
  <1>2. Local(w, call'[c], approvedOrigins)
    BY <1>1, Elsewhere
  <1>3. crawl' = [crawl EXCEPT ![c] = w]
    BY <1>1 DEF CrawlsSound, CrawlStates
  <1> QED BY <1>2, <1>3, OneCrawl

\* Goes is such a step where no delay is being waited out.
LEMMA GoesMoves ==
    ASSUME CrawlsSound, NEW c \in Crawls, NEW pc, Goes(c, pc), crawl[c].wait = 0
    PROVE  crawl' = [crawl EXCEPT ![c].pc = pc, ![c].wait = 0]
  <1>1. crawl[c] \in CrawlStates
    BY DEF CrawlsSound
  <1> QED BY <1>1 DEF Goes, CrawlsSound, CrawlStates

LEMMA GoesSound ==
    ASSUME CrawlsSound, NEW c \in Crawls, NEW pc \in Fetching \cup Ended, Goes(c, pc),
           crawl[c].wait = 0,
           pc \in Fetching => crawl[c].pc \in Hopping /\ call[c].decision = "approved",
           pc = "done" => crawl[c].pages # <<>>,
           pc = "failed" => crawl[c].pages = <<>>,
           call' = call, approvedOrigins' = approvedOrigins
    PROVE  CrawlsSound'
  <1>1. crawl' = [crawl EXCEPT ![c].pc = pc, ![c].wait = 0]
    BY GoesMoves
  <1>2. /\ pc \in {"new"} \cup Active \cup Ended
        /\ pc \notin {"next", "new", "review", "links"}
        /\ pc \in Hopping => pc \in Fetching
        /\ 0 \in Nat /\ (0 > 0 => pc \in HoldsLock)
    BY DEF Active, Ended, Hopping, Fetching, HoldsPermit, HoldsLock
  <1>3. \A e \in Crawls : e # c => call'[e] = call[e]
    OBVIOUS
  <1>4. pc \in Hopping => /\ crawl[c].pc \in Hopping /\ call'[c] = call[c]
                         /\ call[c].decision = "approved"
    BY <1>2
  <1> QED BY <1>1, <1>2, <1>3, <1>4, Move, Zenon

\* A crawl that stops at an error keeps what it has.
LEMMA StopSound ==
    ASSUME CrawlsSound, NEW c \in Crawls, Stop(c), crawl[c].wait = 0,
           call' = call, approvedOrigins' = approvedOrigins
    PROVE  CrawlsSound'
  <1>1. PICK pc \in {"failed", "done"} :
             /\ Goes(c, pc)
             /\ pc = "done" => crawl[c].pages # <<>>
             /\ pc = "failed" => crawl[c].pages = <<>>
    BY DEF Stop
  <1>2. pc \in Fetching \cup Ended /\ pc \notin Fetching
    BY DEF Ended, Fetching, HoldsPermit, HoldsLock
  <1> QED BY <1>1, <1>2, GoesSound

\* A new hop is not restricted, and the preflight has been asked about it.
LEMMA VisitSound ==
    ASSUME CrawlsSound, NEW c \in Crawls, NEW u \in Urls, NEW w \in CrawlStates,
           Visit(c, u, w), crawl[c].wait = 0, w.wait = 0,
           w.pages = crawl[c].pages, w.queued = crawl[c].queued, w.domain = crawl[c].domain,
           Len(w.pages) < MaxPages, w.pages = <<>> => w.queue = <<>>,
           QueueSound([w EXCEPT !.pc = "check", !.hop = u]),
           call \in [Crawls -> P!Calls]
    PROVE  CrawlsSound'
  <1>1. CASE u \in Restricted
    BY <1>1, StopSound DEF Visit, preflightVars
  <1>2. CASE u \notin Restricted
    <2> DEFINE v == [w EXCEPT !.pc = "check", !.hop = u]
    <2>1. Preflight!Begin(c, u) /\ crawl' = [crawl EXCEPT ![c] = v]
      BY <1>2 DEF Visit
    <2>2. /\ call'[c].url = u /\ approvedOrigins' = approvedOrigins
          /\ \A e \in Crawls : e # c => call'[e] = call[e]
      BY <2>1 DEF Preflight!Begin, Preflight!Check, Preflight!memory
    <2>3. v \in CrawlStates /\ v.pc = "check" /\ v.hop = u /\ v.pages = w.pages
          /\ v.wait = 0
      BY DEF CrawlStates, Active
    <2>4. Local(crawl[c], call[c], approvedOrigins)
      BY DEF CrawlsSound
    <2> HIDE DEF v
    <2>5. PagesSound(v, approvedOrigins')
      BY <2>2, <2>3, <2>4 DEF Local, PagesSound
    <2>6. HopSound(v, call'[c])
      BY <1>2, <2>2, <2>3 DEF HopSound, Fetching, HoldsPermit, HoldsLock
    <2>7. Local(v, call'[c], approvedOrigins')
      BY <2>3, <2>5, <2>6 DEF Local, v
    <2> QED BY <2>1, <2>2, <2>7, OneCrawl
  <1> QED BY <1>1, <1>2

\* A page of the hop joins the crawl, whose queue is of its domain.
LEMMA WithPageSound ==
    ASSUME CrawlsSound, NEW c \in Crawls, NEW html \in BOOLEAN,
           crawl' = [crawl EXCEPT ![c] = WithPage(crawl[c], html)],
           crawl[c].pc \in Hopping, crawl[c].wait = 0,
           OriginOf[crawl[c].hop] \in approvedOrigins,
           DomainVerdict[crawl[c].hop] = "approved",
           call' = call, approvedOrigins' = approvedOrigins
    PROVE  CrawlsSound'
  <1> DEFINE w == crawl[c]
             domain == IF w.pages = <<>> THEN SiteOf[w.hop] ELSE w.domain
             pages == Append(w.pages, w.hop)
             links == IF html THEN Links[w.hop] ELSE <<>>
             v == [w EXCEPT !.pc = "links", !.domain = domain, !.pages = pages,
                            !.links = links]
  <1>1. w \in CrawlStates /\ Local(w, call[c], approvedOrigins) /\ w.hop \in Urls
    BY DEF CrawlsSound, Local, HopSound
  <1>2. w.pages \in Seq(Urls) /\ w.queue \in Seq(Urls) /\ Len(w.pages) < MaxPages
    BY <1>1 DEF CrawlStates, Local, PagesSound
  <1>3. pages \in Seq(Urls) /\ Len(pages) = Len(w.pages) + 1
        /\ \A i \in 1..Len(pages) :
               pages[i] = IF i <= Len(w.pages) THEN w.pages[i] ELSE w.hop
    BY <1>1, <1>2
  <1>0. domain \in Sites \cup {None} /\ links \in Seq(Urls)
    BY <1>1 DEF Sites, CrawlStates
  <1>9. crawl' = [crawl EXCEPT ![c] = v]
    BY DEF WithPage
  <1>10. w.pages # <<>> => domain = w.domain
    OBVIOUS
  <1> HIDE DEF domain, pages, links
  <1>4. /\ v \in CrawlStates /\ v.pc = "links" /\ v.pages = pages
        /\ v.queue = w.queue /\ v.queued = w.queued /\ v.wait = 0
        /\ v.domain = domain
    BY <1>0, <1>1, <1>3 DEF CrawlStates, Active
  <1> HIDE DEF v
  <1>5. PagesSound(v, approvedOrigins)
    <2>1. Len(w.pages) \in Nat /\ v.pages # <<>>
      BY <1>2, <1>3, <1>4
    <2>2. Len(v.pages) <= MaxPages
      BY <1>2, <1>3, <1>4, <2>1
    <2>3. ASSUME NEW i \in 1..Len(v.pages)
          PROVE  /\ OriginOf[v.pages[i]] \in approvedOrigins
                 /\ DomainVerdict[v.pages[i]] = "approved"
      <3>1. CASE i <= Len(w.pages)
        <4>0. i \in 1..Len(pages) /\ v.pages[i] = pages[i]
          BY <1>4
        <4>1. i \in 1..Len(w.pages)
          BY <1>3, <2>1, <3>1, <4>0
        <4>2. v.pages[i] = w.pages[i]
          BY <1>3, <3>1, <4>0
        <4> QED BY <1>1, <4>1, <4>2 DEF Local, PagesSound
      <3>2. CASE ~(i <= Len(w.pages))
        BY <1>3, <1>4, <3>2
      <3> QED BY <3>1, <3>2
    <2> QED BY <1>4, <2>1, <2>2, <2>3
            DEF PagesSound, Hopping, Fetching, HoldsPermit, HoldsLock
  <1>6. QueueSound(v)
    <2>1. v.pages # <<>>
      BY <1>2, <1>3, <1>4
    <2>2. w.pages = <<>> => w.queue = <<>>
      BY <1>1 DEF Local, QueueSound
    <2> QED BY <1>1, <1>4, <1>10, <2>1, <2>2
            DEF Local, QueueSound, Hopping, Fetching, HoldsPermit, HoldsLock
  <1>7. HopSound(v, call[c])
    BY <1>4 DEF HopSound, Hopping, Fetching, HoldsPermit, HoldsLock
  <1>8. Local(v, call'[c], approvedOrigins')
    BY <1>4, <1>5, <1>6, <1>7 DEF Local
  <1> QED BY <1>8, <1>9, OneCrawl

-----------------------------------------------------------------------------
\* Delays are waited out only under the lock.
LEMMA NoWait ==
    ASSUME CrawlsSound, NEW c \in Crawls,
           crawl[c].pc \notin HoldsLock \/ crawl[c].wait = 0
    PROVE  crawl[c].wait = 0
  <1>1. Local(crawl[c], call[c], approvedOrigins) /\ crawl[c].wait \in Nat
    BY DEF CrawlsSound, CrawlStates
  <1> QED BY <1>1 DEF Local, HopSound

\* What the crawl of a fetched page knows of it.
LEMMA HopApproved ==
    ASSUME AInv, NEW c \in Crawls, crawl[c].pc \in Hopping,
           call[c].decision = "approved"
    PROVE  /\ OriginOf[crawl[c].hop] \in approvedOrigins
           /\ DomainVerdict[crawl[c].hop] = "approved"
           /\ crawl[c].hop \in Urls
  <1>1. Local(crawl[c], call[c], approvedOrigins)
    BY DEF AInv, CrawlsSound
  <1>2. P!Sound(call[c], approvedOrigins)
    BY DEF AInv, P!IInv
  <1> QED BY <1>1, <1>2 DEF Local, HopSound, P!Sound

\* The steps of a crawl that leave its pages and queue alone.
LEMMA FetchStepsSound ==
    ASSUME AInv, SitesTyped, NEW c \in Crawls,
           \/ TakePermit(c) \/ TakeLock(c) \/ Send(c) \/ TransportFails(c)
           \/ RedirectedNowhere(c) \/ RateLimited(c) \/ Refused(c) \/ Accepted(c)
           \/ BackOff(c) \/ Rested(c)
    PROVE  CrawlsSound'
  <1>1. CrawlsSound /\ Local(crawl[c], call[c], approvedOrigins)
    BY DEF AInv, CrawlsSound
  <1>2. /\ call' = call /\ approvedOrigins' = approvedOrigins
        /\ crawl[c].pc \in Fetching
    BY DEF TakePermit, TakeLock, Send, TransportFails, RedirectedNowhere, RateLimited,
           Refused, Accepted, BackOff, Rested, preflightVars, Fetching, HoldsPermit,
           HoldsLock
  <1>3. crawl[c].pc \in Hopping /\ call[c].decision = "approved" /\ crawl[c].hop \in Urls
    BY <1>1, <1>2 DEF Local, HopSound, Hopping
  <1>4. CASE TransportFails(c) \/ Refused(c) \/ Rested(c)
    <2>1. Stop(c) /\ crawl[c].wait = 0
      BY <1>1, <1>4, NoWait DEF TransportFails, Refused, Rested, HoldsLock
    <2> QED BY <1>1, <1>2, <2>1, StopSound
  <1>5. CASE \/ TakePermit(c) \/ Send(c) \/ RedirectedNowhere(c)
             \/ RateLimited(c) \/ Accepted(c)
    <2>1. PICK pc \in {"lock", "sent", "raised", "backoff", "body"} : Goes(c, pc)
      BY <1>5 DEF TakePermit, Send, RedirectedNowhere, RateLimited, Accepted
    <2>2. crawl[c].wait = 0
      BY <1>1, <1>5, NoWait DEF TakePermit, Send, RedirectedNowhere, RateLimited,
         Accepted, HoldsLock
    <2>3. pc \in Fetching \cup Ended /\ pc \notin {"done", "failed"}
      BY DEF Fetching, Ended, HoldsPermit, HoldsLock
    <2> QED BY <1>1, <1>2, <1>3, <2>1, <2>2, <2>3, GoesSound
  <1>6. CASE TakeLock(c) \/ BackOff(c)
    <2>1. PICK pc \in {"pause", "rest"}, n \in Nat :
               crawl' = [crawl EXCEPT ![c].pc = pc, ![c].wait = n]
      <3>1. site[Site(c)].pace \in Nat
        <4>1. Site(c) \in Sites /\ 0..Delay \subseteq Nat
          BY <1>3 DEF Sites, Site
        <4> QED BY <4>1 DEF SitesTyped, SiteStates
      <3>2. CASE TakeLock(c)
        BY <3>1, <3>2 DEF TakeLock
      <3>3. CASE BackOff(c)
        <4>1. PICK r \in 1..RetryAfter :
                   crawl' = [crawl EXCEPT ![c].pc = "rest", ![c].wait = r]
          BY <3>3 DEF BackOff
        <4>2. r \in Nat
          BY <4>1
        <4> QED BY <4>1, <4>2
      <3> QED BY <1>6, <3>2, <3>3
    <2>2. /\ pc \in {"new"} \cup Active \cup Ended
          /\ pc \notin {"next", "new", "review", "links"}
          /\ (n > 0 => pc \in HoldsLock) /\ pc # "done" /\ pc # "failed"
      BY DEF Active, Fetching, HoldsPermit, HoldsLock
    <2>3. \A e \in Crawls : e # c => call'[e] = call[e]
      BY <1>2
    <2>4. pc \in Hopping => /\ crawl[c].pc \in Hopping /\ call'[c] = call[c]
                           /\ call[c].decision = "approved"
      BY <1>2, <1>3
    <2> QED BY <1>1, <1>2, <2>1, <2>2, <2>3, <2>4, Move, Zenon
  <1> QED BY <1>4, <1>5, <1>6

\* The pages of a crawl are taken over or read.
LEMMA PageStepsSound ==
    ASSUME AInv, NEW c \in Crawls, Checked(c) \/ BodyEnds(c)
    PROVE  CrawlsSound'
  <1>1. CrawlsSound /\ Local(crawl[c], call[c], approvedOrigins) /\ crawl[c].wait = 0
    <2>1. crawl[c].pc \notin HoldsLock
      BY DEF Checked, BodyEnds, HoldsLock
    <2> QED BY <2>1, NoWait DEF AInv, CrawlsSound
  <1>2. call' = call /\ approvedOrigins' = approvedOrigins
    BY DEF Checked, BodyEnds, preflightVars
  <1>3. crawl[c].pc \in {"check", "body"} /\ crawl[c].pc \in Hopping
    BY DEF Checked, BodyEnds, Hopping, Fetching, HoldsPermit
  <1>4. CASE Stop(c)
    BY <1>1, <1>2, <1>4, StopSound
  <1>5. CASE Goes(c, "raised")
    <2>1. "raised" \in Fetching \cup Ended /\ "raised" \notin Fetching
      BY DEF Ended, Fetching, HoldsPermit, HoldsLock
    <2> QED BY <1>1, <1>2, <1>5, <2>1, GoesSound
  <1>6. CASE Goes(c, "permit") /\ call[c].decision = "approved"
    <2>1. "permit" \in Fetching \cup Ended
      BY DEF Fetching
    <2> QED BY <1>1, <1>2, <1>3, <1>6, <2>1, GoesSound
  <1>7. CASE /\ call[c].decision = "approved"
             /\ \E html \in BOOLEAN : crawl' = [crawl EXCEPT ![c] = WithPage(crawl[c], html)]
    <2>1. OriginOf[crawl[c].hop] \in approvedOrigins /\ DomainVerdict[crawl[c].hop] = "approved"
      BY <1>3, <1>7, HopApproved
    <2>2. PICK html \in BOOLEAN : crawl' = [crawl EXCEPT ![c] = WithPage(crawl[c], html)]
      BY <1>7
    <2> QED BY <1>1, <1>2, <1>3, <2>1, <2>2, WithPageSound
  <1>8. CASE Checked(c)
    BY <1>4, <1>5, <1>6, <1>7, <1>8 DEF Checked
  <1>9. CASE BodyEnds(c)
    <2>1. call[c].decision = "approved"
      BY <1>1, <1>9 DEF BodyEnds, Local, HopSound, Fetching, HoldsPermit
    <2> QED BY <1>4, <1>7, <1>9, <2>1 DEF BodyEnds
  <1> QED BY <1>8, <1>9

\* A redirect: the hop changes, and is asked about like the first.
LEMMA RedirectedSound ==
    ASSUME AInv, NEW c \in Crawls, Redirected(c)
    PROVE  CrawlsSound'
  <1>1. CrawlsSound /\ Local(crawl[c], call[c], approvedOrigins) /\ crawl[c].wait = 0
    <2>1. crawl[c].pc \notin HoldsLock
      BY DEF Redirected, HoldsLock
    <2> QED BY <2>1, NoWait DEF AInv, CrawlsSound
  <1>2. CASE Stop(c) /\ UNCHANGED preflightVars
    BY <1>1, <1>2, StopSound DEF preflightVars
  <1>3. CASE /\ crawl[c].redirects < MaxRedirects
             /\ \E u \in RedirectTargets :
                    Visit(c, u, [crawl[c] EXCEPT !.redirects = @ + 1])
    <2>1. PICK u \in RedirectTargets : Visit(c, u, [crawl[c] EXCEPT !.redirects = @ + 1])
      BY <1>3
    <2> DEFINE w == [crawl[c] EXCEPT !.redirects = crawl[c].redirects + 1]
               v == [w EXCEPT !.pc = "check", !.hop = u]
    <2>2. u \in Urls /\ crawl[c].pc \in Hopping
      BY DEF Redirected, Hopping, Fetching, HoldsPermit
    <2>3. crawl[c] \in CrawlStates /\ crawl[c].redirects + 1 \in 0..MaxRedirects
      BY <1>1, <1>3 DEF Local, CrawlStates
    <2>4. /\ w \in CrawlStates /\ w.wait = 0 /\ w.pages = crawl[c].pages
          /\ w.queued = crawl[c].queued /\ w.domain = crawl[c].domain
          /\ w.queue = crawl[c].queue
      BY <1>1, <2>3 DEF CrawlStates
    <2>5. Len(w.pages) < MaxPages /\ (w.pages = <<>> => w.queue = <<>>)
      BY <1>1, <2>2, <2>4 DEF Local, PagesSound, QueueSound
    <2>6. /\ v.pages = w.pages /\ v.queue = w.queue /\ v.queued = w.queued
          /\ v.domain = w.domain /\ v.pc = "check"
      BY <2>4 DEF CrawlStates
    <2>7. Visit(c, u, w)
      BY <2>1
    <2> HIDE DEF w, v
    <2>8. QueueSound(v)
      BY <1>1, <2>2, <2>4, <2>5, <2>6 DEF Local, QueueSound
    <2>9. call \in [Crawls -> P!Calls]
      BY DEF AInv, P!IInv
    <2> QED BY <1>1, <2>2, <2>4, <2>5, <2>7, <2>8, <2>9, VisitSound DEF v
  <1> QED BY <1>2, <1>3 DEF Redirected

\* The next target leaves the queue.
LEMMA NextTargetSound ==
    ASSUME AInv, NEW c \in Crawls, NextTarget(c)
    PROVE  CrawlsSound'
  <1> DEFINE o == crawl[c]
  <1>1. /\ CrawlsSound /\ Local(o, call[c], approvedOrigins) /\ o.wait = 0
        /\ o.pc = "next" /\ o \in CrawlStates
    <2>1. crawl[c].pc \notin HoldsLock
      BY DEF NextTarget, HoldsLock
    <2> QED BY <2>1, NoWait DEF AInv, CrawlsSound, NextTarget
  <1>0. o.queue \in Seq(Urls) /\ o.pages \in Seq(Urls)
    BY <1>1 DEF CrawlStates
  <1>2. CASE o.queue = <<>> \/ Len(o.pages) >= MaxPages
    <2>1. Goes(c, "done") /\ call' = call /\ approvedOrigins' = approvedOrigins
      BY <1>2 DEF NextTarget, preflightVars
    <2>2. o.pages # <<>>
      <3>1. o.pages = <<>> => Len(o.queue) = 1
        BY <1>1 DEF Local, QueueSound
      <3>2. MaxPages \in Nat /\ MaxPages > 0
        OBVIOUS
      <3>3. CASE o.queue = <<>>
        <4>1. Len(o.queue) # 1
          BY <3>3
        <4> QED BY <3>1, <4>1
      <3>4. CASE Len(o.pages) >= MaxPages
        <4>1. Len(<<>>) = 0
          OBVIOUS
        <4> QED BY <3>2, <3>4, <4>1
      <3> QED BY <1>2, <3>3, <3>4
    <2>3. "done" \in Fetching \cup Ended /\ "done" \notin Fetching
      BY DEF Ended, Fetching, HoldsPermit, HoldsLock
    <2> QED BY <1>1, <2>1, <2>2, <2>3, GoesSound
  <1>3. CASE ~(o.queue = <<>> \/ Len(o.pages) >= MaxPages)
    <2> DEFINE u == Head(o.queue)
               tail == Tail(o.queue)
               w == [o EXCEPT !.queue = tail, !.redirects = 0]
               v == [w EXCEPT !.pc = "check", !.hop = u]
    <2>1. /\ tail \in Seq(Urls) /\ u \in Urls /\ Len(tail) = Len(o.queue) - 1
          /\ \A i \in 1..Len(tail) : tail[i] = o.queue[i + 1]
      BY <1>0, <1>3
    <2>2. Visit(c, u, w)
      BY <1>1, <1>3 DEF NextTarget
    <2> HIDE DEF tail, u
    <2>3. /\ w \in CrawlStates /\ w.wait = 0 /\ w.pages = o.pages
          /\ w.queued = o.queued /\ w.domain = o.domain /\ w.queue = tail
      <3>1. 0 \in 0..MaxRedirects
        OBVIOUS
      <3> QED BY <1>1, <2>1, <3>1 DEF CrawlStates
    <2>4. /\ v.pages = w.pages /\ v.queue = w.queue /\ v.queued = w.queued
          /\ v.domain = w.domain /\ v.pc = "check"
      BY <2>3 DEF CrawlStates
    <2> HIDE DEF w, v
    <2>5. Len(w.pages) < MaxPages
      BY <1>0, <1>3, <2>3
    <2>6. w.pages = <<>> => tail = <<>>
      <3>1. SUFFICES ASSUME w.pages = <<>> PROVE tail = <<>>
        OBVIOUS
      <3>2. Len(o.queue) = 1
        BY <1>1, <2>3, <3>1 DEF Local, QueueSound
      <3> QED BY <2>1, <3>2
    <2>7. ASSUME NEW i \in 1..Len(tail)
          PROVE  i + 1 \in 1..Len(o.queue) /\ tail[i] = o.queue[i + 1]
      BY <1>0, <2>1
    <2>8. QueueSound(v)
      <3>1. ASSUME NEW i \in 1..Len(tail) PROVE tail[i] \in v.queued
        BY <1>1, <2>3, <2>4, <2>7 DEF Local, QueueSound
      <3>2. ASSUME NEW i \in 1..Len(tail), NEW j \in 1..Len(tail), tail[i] = tail[j]
            PROVE  i = j
        <4>1. i + 1 = j + 1
          BY <1>1, <2>7, <3>2 DEF Local, QueueSound
        <4> QED BY <2>1, <4>1
      <3>3. ASSUME NEW i \in 1..Len(tail), v.pages # <<>>
            PROVE  SiteOf[tail[i]] = v.domain
        <4>1. o.pages # <<>> /\ v.domain = o.domain
          BY <2>3, <2>4, <3>3
        <4>2. SiteOf[o.queue[i + 1]] = o.domain
          BY <1>1, <2>7, <4>1 DEF Local, QueueSound
        <4> QED BY <2>7, <4>1, <4>2
      <3>4. IsFiniteSet(v.queued) /\ Cardinality(v.queued) <= MaxQueued
        BY <1>1, <2>3, <2>4 DEF Local, QueueSound
      <3> QED BY <2>3, <2>4, <2>6, <3>1, <3>2, <3>3, <3>4 DEF QueueSound
    <2>9. call \in [Crawls -> P!Calls]
      BY DEF AInv, P!IInv
    <2> QED BY <1>1, <2>1, <2>2, <2>3, <2>5, <2>6, <2>8, <2>9, VisitSound DEF v
  <1> QED BY <1>2, <1>3

\* A link joins the queue when it is of the crawl's domain and new.
LEMMA NextLinkSound ==
    ASSUME AInv, NEW c \in Crawls, NextLink(c)
    PROVE  CrawlsSound'
  <1> DEFINE o == crawl[c]
  <1>1. /\ CrawlsSound /\ Local(o, call[c], approvedOrigins)
        /\ o.pc = "links" /\ o \in CrawlStates
        /\ call' = call /\ approvedOrigins' = approvedOrigins
    BY DEF AInv, CrawlsSound, NextLink, preflightVars
  <1>2. /\ o.queue \in Seq(Urls) /\ o.links \in Seq(Urls) /\ o.pages # <<>>
        /\ o.wait \in Nat
    BY <1>1 DEF CrawlStates, Local, PagesSound
  <1>3. /\ IsFiniteSet(o.queued) /\ Cardinality(o.queued) <= MaxQueued
        /\ Cardinality(o.queued) \in Nat /\ o.queued \subseteq Urls
        /\ \A i \in 1..Len(o.queue) : /\ o.queue[i] \in o.queued
                                     /\ SiteOf[o.queue[i]] = o.domain
        /\ \A i, j \in 1..Len(o.queue) : o.queue[i] = o.queue[j] => i = j
    BY <1>1, <1>2, FS_CardinalityType DEF Local, QueueSound, CrawlStates
  <1>4. ASSUME NEW v \in CrawlStates, v.pages = o.pages, v.domain = o.domain,
               v.wait = o.wait, v.pc \in {"next", "links"},
               IsFiniteSet(v.queued), Cardinality(v.queued) <= MaxQueued,
               \A i \in 1..Len(v.queue) : /\ v.queue[i] \in v.queued
                                        /\ SiteOf[v.queue[i]] = v.domain,
               \A i, j \in 1..Len(v.queue) : v.queue[i] = v.queue[j] => i = j,
               crawl' = [crawl EXCEPT ![c] = v]
        PROVE  CrawlsSound'
    <2>1. PagesSound(v, approvedOrigins)
      BY <1>1, <1>2, <1>4 DEF Local, PagesSound, Hopping, Fetching, HoldsPermit, HoldsLock
    <2>2. QueueSound(v)
      BY <1>2, <1>4 DEF QueueSound, Hopping, Fetching, HoldsPermit, HoldsLock
    <2>3. HopSound(v, call[c])
      BY <1>1, <1>4 DEF Local, HopSound, Hopping, Fetching, HoldsPermit, HoldsLock
    <2>4. Local(v, call'[c], approvedOrigins')
      BY <1>1, <1>4, <2>1, <2>2, <2>3 DEF Local
    <2> QED BY <1>1, <1>4, <2>4, OneCrawl
  <1>5. CASE o.links = <<>> \/ Cardinality(o.queued) >= MaxQueued
    <2> DEFINE v == [o EXCEPT !.pc = "next", !.links = <<>>]
    <2>1. crawl' = [crawl EXCEPT ![c] = v]
      BY <1>5 DEF NextLink
    <2>2. /\ v \in CrawlStates /\ v.pages = o.pages /\ v.domain = o.domain
          /\ v.wait = o.wait /\ v.pc = "next" /\ v.queue = o.queue /\ v.queued = o.queued
      <3>1. <<>> \in Seq(Urls)
        OBVIOUS
      <3> QED BY <1>1, <3>1 DEF CrawlStates, Active
    <2> HIDE DEF v
    <2> QED BY <1>3, <1>4, <2>1, <2>2
  <1>6. CASE /\ ~(o.links = <<>> \/ Cardinality(o.queued) >= MaxQueued)
             /\ ~(SiteOf[Head(o.links)] = o.domain /\ Head(o.links) \notin o.queued)
    <2> DEFINE links == Tail(o.links)
               v == [o EXCEPT !.links = links]
    <2>1. crawl' = [crawl EXCEPT ![c] = v]
      BY <1>6 DEF NextLink
    <2>2. links \in Seq(Urls)
      BY <1>2, <1>6
    <2> HIDE DEF links
    <2>3. /\ v \in CrawlStates /\ v.pages = o.pages /\ v.domain = o.domain
          /\ v.wait = o.wait /\ v.pc = "links" /\ v.queue = o.queue /\ v.queued = o.queued
      BY <1>1, <2>2 DEF CrawlStates
    <2> HIDE DEF v
    <2> QED BY <1>3, <1>4, <2>1, <2>3
  <1>7. CASE /\ ~(o.links = <<>> \/ Cardinality(o.queued) >= MaxQueued)
             /\ SiteOf[Head(o.links)] = o.domain /\ Head(o.links) \notin o.queued
    <2> DEFINE link == Head(o.links)
               links == Tail(o.links)
               queue == Append(o.queue, link)
               queued == o.queued \cup {link}
               v == [o EXCEPT !.links = links, !.queue = queue, !.queued = queued]
    <2>1. crawl' = [crawl EXCEPT ![c] = v]
      BY <1>7 DEF NextLink
    <2>2. /\ links \in Seq(Urls) /\ link \in Urls /\ link \notin o.queued
          /\ SiteOf[link] = o.domain
      BY <1>2, <1>7
    <2> HIDE DEF links, link
    <2>3. /\ queue \in Seq(Urls) /\ Len(queue) = Len(o.queue) + 1
          /\ Len(o.queue) \in Nat
          /\ \A i \in 1..Len(queue) :
                 queue[i] = IF i <= Len(o.queue) THEN o.queue[i] ELSE link
      <3>1. o.queue \in Seq(Urls) /\ link \in Urls
        BY <1>2, <2>2
      <3>2. queue \in Seq(Urls) /\ Len(o.queue) \in Nat
        BY <3>1, Appended
      <3>3. Len(queue) = Len(o.queue) + 1
        BY <3>1, Appended
      <3>4. \A i \in 1..Len(queue) :
                queue[i] = IF i <= Len(o.queue) THEN o.queue[i] ELSE link
        <4>1. /\ \A i \in 1..Len(o.queue) : queue[i] = o.queue[i]
              /\ queue[Len(o.queue) + 1] = link
              /\ \A i \in 1..Len(queue) : i \in 1..Len(o.queue) \/ i = Len(o.queue) + 1
          BY <3>1, Appended
        <4> HIDE DEF queue
        <4>2. ASSUME NEW i \in 1..Len(queue)
              PROVE  queue[i] = IF i <= Len(o.queue) THEN o.queue[i] ELSE link
          <5>1. CASE i \in 1..Len(o.queue)
            BY <3>2, <4>1, <5>1
          <5>2. CASE i \notin 1..Len(o.queue)
            <6>1. i = Len(o.queue) + 1
              BY <4>1, <5>2
            <6> QED BY <3>2, <4>1, <6>1
          <5> QED BY <5>1, <5>2
        <4> QED BY <4>2
      <3> HIDE DEF queue
      <3> QED BY <3>2, <3>3, <3>4
    <2>4. IsFiniteSet(queued) /\ Cardinality(queued) = Cardinality(o.queued) + 1
      <3>1. IsFiniteSet(o.queued) /\ link \notin o.queued
        BY <1>3, <2>2
      <3> QED BY <3>1, FS_AddElement
    <2>5. Cardinality(queued) <= MaxQueued /\ queued \subseteq Urls
      <3>1. MaxQueued \in Nat
        OBVIOUS
      <3> QED BY <1>3, <1>7, <2>2, <2>4, <3>1
    <2>6. \A i \in 1..Len(queue) : i <= Len(o.queue) => i \in 1..Len(o.queue)
      BY <2>3
    <2>7. ASSUME NEW i \in 1..Len(queue)
          PROVE  queue[i] \in queued /\ SiteOf[queue[i]] = o.domain
      <3>1. CASE i <= Len(o.queue)
        BY <1>3, <2>3, <2>6, <3>1
      <3>2. CASE ~(i <= Len(o.queue))
        BY <2>2, <2>3, <3>2
      <3> QED BY <3>1, <3>2
    <2>8. ASSUME NEW i \in 1..Len(queue), NEW j \in 1..Len(queue), queue[i] = queue[j]
          PROVE  i = j
      <3>1. CASE i <= Len(o.queue) /\ j <= Len(o.queue)
        <4>1. o.queue[i] = o.queue[j] /\ i \in 1..Len(o.queue) /\ j \in 1..Len(o.queue)
          BY <2>3, <2>6, <2>8, <3>1
        <4> QED BY <1>3, <4>1
      <3>2. CASE ~(i <= Len(o.queue)) /\ ~(j <= Len(o.queue))
        BY <2>3, <3>2
      <3>3. ASSUME NEW m \in 1..Len(queue), m <= Len(o.queue) PROVE queue[m] # link
        <4>1. o.queue[m] \in o.queued /\ queue[m] = o.queue[m]
          BY <1>3, <2>3, <2>6, <3>3
        <4> QED BY <2>2, <4>1
      <3>4. CASE i <= Len(o.queue) /\ ~(j <= Len(o.queue))
        BY <2>3, <2>8, <3>3, <3>4
      <3>5. CASE ~(i <= Len(o.queue)) /\ j <= Len(o.queue)
        BY <2>3, <2>8, <3>3, <3>5
      <3> QED BY <3>1, <3>2, <3>4, <3>5
    <2> HIDE DEF queue, queued
    <2>9. /\ v \in CrawlStates /\ v.pages = o.pages /\ v.domain = o.domain
          /\ v.wait = o.wait /\ v.pc = "links" /\ v.queue = queue /\ v.queued = queued
      BY <1>1, <2>2, <2>3, <2>5 DEF CrawlStates
    <2> HIDE DEF v
    <2> QED BY <1>4, <2>1, <2>4, <2>5, <2>7, <2>8, <2>9
  <1> QED BY <1>5, <1>6, <1>7

\* A crawl begins with the home page, once the preflight has answered.
LEMMA BeginningSound ==
    ASSUME AInv, NEW c \in Crawls, Start(c) \/ Reviewed(c)
    PROVE  CrawlsSound'
  <1> DEFINE o == crawl[c]
             home == Normal[Given[c]]
  <1>1. /\ CrawlsSound /\ Local(o, call[c], approvedOrigins) /\ o.wait = 0
        /\ o \in CrawlStates /\ o.pc \in {"new", "review"} /\ o.pages = <<>>
    <2>1. o.pc \in {"new", "review"} /\ o.pc \notin HoldsLock
      BY DEF Start, Reviewed, HoldsLock
    <2> QED BY <2>1, NoWait DEF AInv, CrawlsSound, Local, PagesSound
  <1>2. /\ \A e \in Crawls : e # c => call'[e] = call[e]
        /\ approvedOrigins' = approvedOrigins
    BY DEF AInv, P!IInv, Start, Reviewed, preflightVars, Preflight!Begin,
           Preflight!memory
  <1>3. Given[c] \in Urls /\ home \in Urls
    OBVIOUS
  <1>4. MaxPages \in Nat /\ MaxPages > 0 /\ MaxQueued \in Nat /\ MaxQueued > 0
    OBVIOUS
  <1>5. CASE Start(c)
    <2> DEFINE v == [o EXCEPT !.pc = "review"]
    <2>1. crawl' = [crawl EXCEPT ![c] = v]
      BY <1>1, <1>5 DEF Start, Goes, CrawlsSound
    <2>2. /\ v \in CrawlStates /\ v.pc = "review" /\ v.pages = <<>> /\ v.wait = 0
          /\ v.queue = o.queue /\ v.queued = o.queued
      BY <1>1 DEF CrawlStates, Active
    <2> HIDE DEF v
    <2>3. Local(v, call'[c], approvedOrigins')
      BY <1>1, <1>4, <2>2 DEF Local, PagesSound, QueueSound, HopSound, Hopping, Fetching,
         HoldsPermit, HoldsLock
    <2> QED BY <1>1, <1>2, <2>1, <2>3, OneCrawl
  <1>6. CASE Reviewed(c) /\ call[c].decision # "approved"
    <2>1. Goes(c, "skipped") /\ call' = call
      BY <1>6 DEF Reviewed, preflightVars
    <2>2. "skipped" \in Fetching \cup Ended /\ "skipped" \notin Fetching
      BY DEF Ended, Fetching, HoldsPermit, HoldsLock
    <2> QED BY <1>1, <1>2, <2>1, <2>2, GoesSound
  <1>7. CASE Reviewed(c) /\ call[c].decision = "approved"
    <2> DEFINE queue == <<home>>
               queued == {home}
               v == [o EXCEPT !.pc = "next", !.queue = queue, !.queued = queued]
    <2>1. crawl' = [crawl EXCEPT ![c] = v]
      BY <1>7 DEF Reviewed
    <2>2. /\ queue \in Seq(Urls) /\ queued \subseteq Urls
          /\ Len(queue) = 1 /\ queue[1] = home
      BY <1>3
    <2>3. IsFiniteSet(queued) /\ Cardinality(queued) = 1
      BY FS_Singleton
    <2>4. \A i \in 1..Len(queue) : i = 1 /\ queue[i] \in queued
      BY <2>2
    <2> HIDE DEF queue, queued
    <2>5. /\ v \in CrawlStates /\ v.pc = "next" /\ v.pages = <<>> /\ v.wait = 0
          /\ v.queue = queue /\ v.queued = queued
      BY <1>1, <2>2 DEF CrawlStates, Active
    <2> HIDE DEF v
    <2>6. QueueSound(v)
      <3>1. \A i, j \in 1..Len(queue) : queue[i] = queue[j] => i = j
        BY <2>4
      <3>2. Cardinality(queued) <= MaxQueued
        BY <1>4, <2>3
      <3>3. \A i \in 1..Len(queue) : queue[i] \in queued
        BY <2>4
      <3> QED BY <2>2, <2>3, <2>5, <3>1, <3>2, <3>3
              DEF QueueSound, Hopping, Fetching, HoldsPermit, HoldsLock
    <2>7. PagesSound(v, approvedOrigins')
      BY <1>4, <2>5 DEF PagesSound, Hopping, Fetching, HoldsPermit, HoldsLock
    <2>8. HopSound(v, call'[c])
      BY <2>5 DEF HopSound, Hopping, Fetching, HoldsPermit, HoldsLock
    <2>9. Local(v, call'[c], approvedOrigins')
      BY <2>5, <2>6, <2>7, <2>8 DEF Local
    <2> QED BY <1>1, <1>2, <2>1, <2>9, OneCrawl
  <1> QED BY <1>5, <1>6, <1>7

\* A check of the preflight goes on only while no request rests on it.
LEMMA PreflightKeepsCrawls ==
    ASSUME AInv, NEW c \in Crawls, PreflightStep(c) \/ PreflightRaises(c),
           approvedOrigins \subseteq approvedOrigins'
    PROVE  CrawlsSound'
  <1>1. CrawlsSound /\ Local(crawl[c], call[c], approvedOrigins) /\ crawl' = crawl
    BY DEF AInv, CrawlsSound, PreflightStep, PreflightRaises
  <1>2. /\ call[c].stage \in Preflight!Working
        /\ call'[c].url = call[c].url
        /\ \A e \in Crawls : e # c => call'[e] = call[e]
    BY DEF AInv, P!IInv, P!Calls, PreflightStep, PreflightRaises, Preflight!Progress,
       Preflight!Raise, Preflight!Working, Preflight!TargetRobots, Preflight!PageArrives,
       Preflight!PageUnusable, Preflight!SkipDocument, Preflight!DocumentRobots,
       Preflight!DocumentArrives, Preflight!DocumentUnusable, Preflight!Conclude,
       Preflight!Answer, Preflight!Reviewed
  <1>3. call[c].decision # "approved"
    BY <1>2 DEF AInv, P!IInv, P!Sound, P!Decisions, Preflight!Working
  <1>4. crawl[c].pc \notin Fetching
    BY <1>1, <1>3 DEF Local, HopSound, Hopping
  <1>5. Local(crawl[c], call'[c], approvedOrigins')
    BY <1>1, <1>2, <1>4 DEF Local, HopSound, PagesSound
  <1>6. crawl' = [crawl EXCEPT ![c] = crawl[c]]
    BY <1>1 DEF CrawlsSound
  <1> QED BY <1>1, <1>2, <1>5, <1>6, OneCrawl

LEMMA CancelSound ==
    ASSUME AInv, NEW c \in Crawls, Cancel(c)
    PROVE  CrawlsSound'
  <1>1. /\ CrawlsSound
        /\ crawl' = [crawl EXCEPT ![c].pc = "cancelled", ![c].wait = 0]
    BY DEF AInv, Cancel
  <1>2. /\ \A e \in Crawls : e # c => call'[e] = call[e]
        /\ approvedOrigins' = approvedOrigins
    BY DEF AInv, P!IInv, Cancel, preflightVars, Preflight!Cancel, Preflight!memory
  <1>3. /\ "cancelled" \in {"new"} \cup Active \cup Ended
        /\ "cancelled" \notin Hopping /\ 0 \in Nat /\ ~(0 > 0)
    BY DEF Ended, Hopping, Fetching, HoldsPermit, HoldsLock
  <1> QED BY <1>1, <1>2, <1>3, Move

\* Time passes for every crawl.
LEMMA TickSound ==
    ASSUME AInv, Tick
    PROVE  CrawlsSound'
  <1>1. ASSUME NEW c \in Crawls PROVE Local(crawl'[c], call'[c], approvedOrigins')
    <2> DEFINE o == crawl[c]
               n == Less(o.wait)
               v == [o EXCEPT !.wait = n]
    <2>1. Local(o, call[c], approvedOrigins) /\ o \in CrawlStates /\ crawl'[c] = v
      BY DEF AInv, CrawlsSound, Tick
    <2>2. n \in Nat /\ (n > 0 => o.wait > 0)
      BY <2>1 DEF CrawlStates, Less
    <2> HIDE DEF n
    <2>3. /\ v \in CrawlStates /\ v.pc = o.pc /\ v.hop = o.hop /\ v.queue = o.queue
          /\ v.queued = o.queued /\ v.pages = o.pages /\ v.domain = o.domain
          /\ v.wait = n
      BY <2>1, <2>2 DEF CrawlStates
    <2> HIDE DEF v
    <2>4. call' = call /\ approvedOrigins' = approvedOrigins
      BY DEF Tick, preflightVars
    <2>5. PagesSound(v, approvedOrigins) /\ QueueSound(v) /\ HopSound(v, call[c])
      BY <2>1, <2>2, <2>3 DEF Local, PagesSound, QueueSound, HopSound
    <2> QED BY <2>1, <2>3, <2>4, <2>5 DEF Local
  <1>2. crawl' \in [Crawls -> CrawlStates]
    <2>1. \A c \in Crawls : crawl'[c] \in CrawlStates
      BY <1>1 DEF Local
    <2>2. crawl' = [c \in Crawls |-> crawl'[c]]
      BY DEF Tick
    <2> QED BY <2>1, <2>2
  <1> QED BY <1>1, <1>2 DEF CrawlsSound

-----------------------------------------------------------------------------
\* The preflight that the crawls share is the one of CompliancePreflightProofs.
LEMMA PreflightSound ==
    ASSUME AInv, [Next]_vars
    PROVE  P!IInv' /\ approvedOrigins \subseteq approvedOrigins'
  <1>1. /\ P!PreflightAssumption /\ P!IInv /\ CrawlsSound
        /\ Given \in [Crawls -> Urls] /\ RedirectTargets \subseteq Urls
    BY PreflightSteps DEF AInv
  <1>2. CASE UNCHANGED preflightVars
    BY <1>1, <1>2 DEF preflightVars, P!IInv, P!SoundMemory, P!ApprovalsAreReviewed
  <1>3. ASSUME NEW c \in Crawls, NEW u \in Urls, Preflight!Begin(c, u)
        PROVE  P!IInv' /\ approvedOrigins' = approvedOrigins
    <2>1. P!Begin(c, u)
      BY <1>3, PreflightSteps
    <2>2. approvedOrigins' = approvedOrigins
      BY <1>3 DEF Preflight!Begin, Preflight!memory
    <2> QED BY <1>1, <2>1, <2>2, P!BeginSound
  <1>4. ASSUME NEW c \in Crawls, Preflight!Progress(c)
        PROVE  P!IInv' /\ approvedOrigins \subseteq approvedOrigins'
    <2>1. P!Progress(c)
      BY <1>4, PreflightSteps
    <2>2. approvedOrigins \subseteq approvedOrigins'
      BY <1>4 DEF Preflight!Progress, Preflight!TargetRobots, Preflight!PageArrives,
         Preflight!PageUnusable, Preflight!SkipDocument, Preflight!DocumentRobots,
         Preflight!DocumentArrives, Preflight!DocumentUnusable, Preflight!Conclude,
         Preflight!memory
    <2> QED BY <1>1, <2>1, <2>2, P!ProgressSound
  <1>5. ASSUME NEW c \in Crawls, Preflight!Raise(c) \/ Preflight!Cancel(c)
        PROVE  P!IInv' /\ approvedOrigins' = approvedOrigins
    <2>1. P!Raise(c) \/ P!Cancel(c)
      BY <1>5, PreflightSteps
    <2>2. approvedOrigins' = approvedOrigins
      BY <1>5 DEF Preflight!Raise, Preflight!Cancel, Preflight!memory
    <2> QED BY <1>1, <2>1, <2>2, P!EndSound
  <1>6. ASSUME NEW u, Preflight!TakePrefetched(u),
               UNCHANGED <<approvedTargets, approvedOrigins, call>>
        PROVE  P!IInv' /\ approvedOrigins' = approvedOrigins
    <2>1. P!TakePrefetched(u)
      BY <1>6, PreflightSteps
    <2> QED BY <1>1, <1>6, <2>1, P!TakeSound
  <1>7. ASSUME NEW c \in Crawls, NEW u \in Urls, NEW w, Visit(c, u, w)
        PROVE  P!IInv' /\ approvedOrigins \subseteq approvedOrigins'
    BY <1>2, <1>3, <1>7 DEF Visit
  <1>8. ASSUME NEW c \in Crawls, NextTarget(c)
        PROVE  P!IInv' /\ approvedOrigins \subseteq approvedOrigins'
    <2>1. CASE crawl[c].queue = <<>> \/ Len(crawl[c].pages) >= MaxPages
      BY <1>2, <1>8, <2>1 DEF NextTarget
    <2>2. CASE ~(crawl[c].queue = <<>> \/ Len(crawl[c].pages) >= MaxPages)
      <3>1. crawl[c].queue \in Seq(Urls)
        BY <1>1 DEF CrawlsSound, CrawlStates
      <3>2. Head(crawl[c].queue) \in Urls
        BY <2>2, <3>1
      <3> QED BY <1>7, <1>8, <2>2, <3>2 DEF NextTarget
    <2> QED BY <2>1, <2>2
  <1>9. ASSUME NEW c \in Crawls, Redirected(c)
        PROVE  P!IInv' /\ approvedOrigins \subseteq approvedOrigins'
    BY <1>1, <1>2, <1>7, <1>9 DEF Redirected
  <1>10. ASSUME NEW c \in Crawls, Checked(c)
         PROVE  P!IInv' /\ approvedOrigins \subseteq approvedOrigins'
    BY <1>2, <1>6, <1>10 DEF Checked
  <1>11. ASSUME NEW c \in Crawls, Start(c)
         PROVE  P!IInv' /\ approvedOrigins \subseteq approvedOrigins'
    BY <1>1, <1>3, <1>11 DEF Start
  <1>12. ASSUME NEW c \in Crawls, Cancel(c)
         PROVE  P!IInv' /\ approvedOrigins \subseteq approvedOrigins'
    BY <1>2, <1>5, <1>12 DEF Cancel
  <1>13. ASSUME NEW c \in Crawls, PreflightStep(c) \/ PreflightRaises(c)
         PROVE  P!IInv' /\ approvedOrigins \subseteq approvedOrigins'
    BY <1>4, <1>5, <1>13 DEF PreflightStep, PreflightRaises
  <1>14. ASSUME NEW c \in Crawls,
                \/ Reviewed(c) \/ NextLink(c) \/ TakePermit(c) \/ TakeLock(c) \/ Send(c)
                \/ TransportFails(c) \/ RedirectedNowhere(c) \/ RateLimited(c)
                \/ Refused(c) \/ Accepted(c) \/ BackOff(c) \/ Rested(c) \/ BodyEnds(c)
         PROVE  UNCHANGED preflightVars
    BY <1>14 DEF Reviewed, NextLink, TakePermit, TakeLock, Send, TransportFails,
       RedirectedNowhere, RateLimited, Refused, Accepted, BackOff, Rested, BodyEnds,
       preflightVars
  <1>15. CASE Tick
    BY <1>2, <1>15 DEF Tick
  <1>16. CASE UNCHANGED vars
    BY <1>2, <1>16 DEF vars, preflightVars
  <1> QED BY <1>2, <1>8, <1>9, <1>10, <1>11, <1>12, <1>13, <1>14, <1>15, <1>16
          DEF Next, Work, Answered

\* The pages, queues and hops of the crawls, and the memory they share.
LEMMA CrawlsStaySound ==
    ASSUME AInv, SitesTyped, [Next]_vars
    PROVE  AInv'
  <1>1. P!IInv' /\ approvedOrigins \subseteq approvedOrigins'
    BY PreflightSound
  <1>2. ASSUME NEW c \in Crawls, Work(c) PROVE CrawlsSound'
    BY <1>2, BeginningSound, NextTargetSound, NextLinkSound, PageStepsSound,
       RedirectedSound, FetchStepsSound DEF Work, Answered
  <1>3. ASSUME NEW c \in Crawls, PreflightStep(c) \/ PreflightRaises(c)
        PROVE  CrawlsSound'
    BY <1>1, <1>3, PreflightKeepsCrawls
  <1>4. ASSUME NEW c \in Crawls, Cancel(c) PROVE CrawlsSound'
    BY <1>4, CancelSound
  <1>5. ASSUME Tick PROVE CrawlsSound'
    BY <1>5, TickSound
  <1>6. ASSUME UNCHANGED vars PROVE CrawlsSound'
    <2>1. crawl' = crawl /\ call' = call /\ approvedOrigins' = approvedOrigins
      BY <1>6 DEF vars
    <2> QED BY <2>1 DEF AInv, CrawlsSound, Local, PagesSound, QueueSound, HopSound
  <1>7. CrawlsSound'
    BY <1>2, <1>3, <1>4, <1>5, <1>6 DEF Next
  <1> QED BY <1>1, <1>7 DEF AInv

-----------------------------------------------------------------------------
\* Whether a crawl holds a permit, or the lock, of a site.
HoldsAt(w, d) == w.pc \in HoldsPermit /\ SiteOf[w.hop] = d
LocksAt(w, d) == w.pc \in HoldsLock /\ SiteOf[w.hop] = d
One(b) == IF b THEN 1 ELSE 0

\* A step of one crawl changes who holds a permit by that crawl at most.
LEMMA HoldersChange ==
    ASSUME NEW c \in Crawls, \A e \in Crawls : e # c => crawl'[e] = crawl[e], NEW d
    PROVE  /\ Cardinality(Holders(d)) \in Nat /\ Cardinality(Holders(d)') \in Nat
           /\ Cardinality(Holders(d)') + One(HoldsAt(crawl[c], d))
                  = Cardinality(Holders(d)) + One(HoldsAt(crawl'[c], d))
  <1> DEFINE H == Holders(d)
             G == Holders(d)'
  <1>1. /\ IsFiniteSet(H) /\ IsFiniteSet(G)
        /\ Cardinality(H) \in Nat /\ Cardinality(G) \in Nat
    <2>1. IsFiniteSet(Crawls) /\ H \subseteq Crawls /\ G \subseteq Crawls
      BY DEF Holders
    <2> HIDE DEF H, G
    <2> QED BY <2>1, FS_Subset, FS_CardinalityType
  <1>2. /\ c \in H <=> HoldsAt(crawl[c], d)
        /\ c \in G <=> HoldsAt(crawl'[c], d)
        /\ \A e : e # c => (e \in H <=> e \in G)
    BY DEF Holders, HoldsAt, Site
  <1> HIDE DEF H, G
  <1>3. CASE HoldsAt(crawl[c], d) <=> HoldsAt(crawl'[c], d)
    <2>1. \A e : e \in H <=> e \in G
      <3>1. c \in H <=> c \in G
        BY <1>2, <1>3 DEF HoldsAt
      <3> QED BY <1>2, <3>1
    <2>0. H = G
      BY <2>1
    <2> QED BY <1>1, <1>3, <2>0 DEF One, H, G
  <1>4. CASE HoldsAt(crawl[c], d) /\ ~HoldsAt(crawl'[c], d)
    <2>1. H = G \cup {c} /\ c \notin G
      BY <1>2, <1>4
    <2>2. Cardinality(H) = Cardinality(G) + 1
      BY <1>1, <2>1, FS_AddElement
    <2> QED BY <1>1, <1>4, <2>2 DEF One, H, G
  <1>5. CASE ~HoldsAt(crawl[c], d) /\ HoldsAt(crawl'[c], d)
    <2>1. G = H \cup {c} /\ c \notin H
      BY <1>2, <1>5
    <2>2. Cardinality(G) = Cardinality(H) + 1
      BY <1>1, <2>1, FS_AddElement
    <2> QED BY <1>1, <1>5, <2>2 DEF One, H, G
  <1> QED BY <1>3, <1>4, <1>5

\* A step of one crawl that takes and gives back what it then holds.
LEMMA PermitStep ==
    ASSUME SitesTyped, PermitsConserved, NEW c \in Crawls,
           \A e \in Crawls : e # c => crawl'[e] = crawl[e],
           \A d \in Sites :
               /\ site'[d].permits \in Nat
               /\ site'[d].permits + One(HoldsAt(crawl'[c], d))
                      = site[d].permits + One(HoldsAt(crawl[c], d))
               /\ LocksAt(crawl'[c], d) =>
                      site[d].lock \in {None, c} /\ site'[d].lock = c
               /\ ~LocksAt(crawl'[c], d) =>
                      site'[d].lock = IF site[d].lock = c THEN None ELSE site[d].lock
    PROVE  PermitsConserved'
  <1>1. ASSUME NEW d \in Sites
        PROVE  site'[d].permits + Cardinality(Holders(d)') = Permits
    <2>1. /\ site[d].permits + Cardinality(Holders(d)) = Permits
          /\ site[d].permits \in Nat /\ Permits \in Nat
      BY DEF PermitsConserved, SitesTyped, SiteStates
    <2>2. /\ site'[d].permits \in Nat
          /\ site'[d].permits + One(HoldsAt(crawl'[c], d))
                 = site[d].permits + One(HoldsAt(crawl[c], d))
      OBVIOUS
    <2>3. /\ Cardinality(Holders(d)) \in Nat /\ Cardinality(Holders(d)') \in Nat
          /\ Cardinality(Holders(d)') + One(HoldsAt(crawl[c], d))
                 = Cardinality(Holders(d)) + One(HoldsAt(crawl'[c], d))
      BY HoldersChange
    <2>4. One(HoldsAt(crawl[c], d)) \in Nat /\ One(HoldsAt(crawl'[c], d)) \in Nat
      BY DEF One
    <2> DEFINE before == One(HoldsAt(crawl[c], d))
               after == One(HoldsAt(crawl'[c], d))
               h == Cardinality(Holders(d))
               g == Cardinality(Holders(d)')
               p == site[d].permits
               q == site'[d].permits
    <2>5. /\ p \in Nat /\ q \in Nat /\ Permits \in Nat
          /\ h \in Nat /\ g \in Nat /\ before \in Nat /\ after \in Nat
          /\ p + h = Permits /\ g + before = h + after
          /\ q + after = p + before
      BY <2>1, <2>2, <2>3, <2>4
    <2> HIDE DEF before, after, h, g, p, q
    <2>6. q + g = Permits
      BY <2>5
    <2> QED BY <2>6 DEF g, q
  <1>2. ASSUME NEW d \in Sites, NEW e \in Crawls
        PROVE  site'[d].lock = e <=> LocksAt(crawl'[e], d)
    <2>1. /\ site[d].lock = e <=> LocksAt(crawl[e], d)
          /\ site[d].lock = c <=> LocksAt(crawl[c], d)
      BY DEF PermitsConserved, LocksAt, Site
    <2>2. e # None /\ c # None
      OBVIOUS
    <2>3. CASE e = c
      BY <2>1, <2>2, <2>3
    <2>4. CASE e # c
      <3>1. crawl'[e] = crawl[e]
        BY <2>4
      <3> QED BY <2>1, <2>2, <2>4, <3>1
    <2> QED BY <2>3, <2>4
  <1> QED BY <1>1, <1>2 DEF PermitsConserved, LocksAt, Site

-----------------------------------------------------------------------------
\* The steps after which a crawl holds nothing.
LEMMA Leaves ==
    ASSUME CrawlsSound, NEW c \in Crawls,
           \/ Start(c) \/ Reviewed(c) \/ NextTarget(c) \/ NextLink(c)
           \/ TransportFails(c) \/ Redirected(c) \/ RedirectedNowhere(c)
           \/ Refused(c) \/ Rested(c) \/ BodyEnds(c) \/ Cancel(c)
           \/ Checked(c)
    PROVE  /\ \A e \in Crawls : e # c => crawl'[e] = crawl[e]
           /\ crawl'[c].pc \notin HoldsPermit
  <1>1. crawl[c] \in CrawlStates /\ crawl \in [Crawls -> CrawlStates]
    BY DEF CrawlsSound
  <1>2. ASSUME NEW v, crawl' = [crawl EXCEPT ![c] = v], v.pc \notin HoldsPermit
        PROVE  /\ \A e \in Crawls : e # c => crawl'[e] = crawl[e]
               /\ crawl'[c].pc \notin HoldsPermit
    BY <1>1, <1>2
  <1>3. ASSUME NEW pc, pc \notin HoldsPermit, Goes(c, pc)
        PROVE  /\ \A e \in Crawls : e # c => crawl'[e] = crawl[e]
               /\ crawl'[c].pc \notin HoldsPermit
    BY <1>1, <1>3 DEF Goes, CrawlStates
  <1>4. {"next", "review", "links", "check", "permit"} \cap HoldsPermit = {}
        /\ Ended \cap HoldsPermit = {}
    BY DEF HoldsPermit, HoldsLock, Ended
  <1>5. ASSUME Stop(c)
        PROVE  /\ \A e \in Crawls : e # c => crawl'[e] = crawl[e]
               /\ crawl'[c].pc \notin HoldsPermit
    BY <1>3, <1>4, <1>5 DEF Stop, Ended
  <1>6. ASSUME NEW html \in BOOLEAN, crawl' = [crawl EXCEPT ![c] = WithPage(crawl[c], html)]
        PROVE  /\ \A e \in Crawls : e # c => crawl'[e] = crawl[e]
               /\ crawl'[c].pc \notin HoldsPermit
    <2>1. WithPage(crawl[c], html).pc = "links"
      BY <1>1 DEF WithPage, CrawlStates
    <2> QED BY <1>2, <1>4, <1>6, <2>1
  <1>7. ASSUME NEW u, NEW w \in CrawlStates, Visit(c, u, w)
        PROVE  /\ \A e \in Crawls : e # c => crawl'[e] = crawl[e]
               /\ crawl'[c].pc \notin HoldsPermit
    <2>1. [w EXCEPT !.pc = "check", !.hop = u].pc = "check"
      BY DEF CrawlStates
    <2> QED BY <1>2, <1>4, <1>5, <1>7, <2>1 DEF Visit
  <1>8. CASE TransportFails(c) \/ Refused(c) \/ Rested(c)
    BY <1>5, <1>8 DEF TransportFails, Refused, Rested
  <1>9. CASE Start(c) \/ RedirectedNowhere(c)
    BY <1>3, <1>4, <1>9 DEF Start, RedirectedNowhere, Ended
  <1>10. CASE Checked(c)
    BY <1>3, <1>4, <1>5, <1>6, <1>10 DEF Checked, Ended
  <1>11. CASE BodyEnds(c)
    BY <1>5, <1>6, <1>11 DEF BodyEnds
  <1>12. CASE Cancel(c)
    BY <1>1, <1>4, <1>12 DEF Cancel, CrawlStates, Ended
  <1>13. CASE Reviewed(c)
    BY <1>1, <1>3, <1>4, <1>13 DEF Reviewed, CrawlStates, Ended
  <1>14. CASE NextLink(c)
    <2> DEFINE o == crawl[c]
    <2>1. /\ o.pc = "links"
          /\ [o EXCEPT !.pc = "next", !.links = <<>>].pc = "next"
          /\ [o EXCEPT !.links = Tail(o.links), !.queue = Append(o.queue, Head(o.links)),
                        !.queued = o.queued \cup {Head(o.links)}].pc = o.pc
          /\ [o EXCEPT !.links = Tail(o.links)].pc = o.pc
      BY <1>1, <1>14 DEF CrawlStates, NextLink
    <2> QED BY <1>2, <1>4, <1>14, <2>1 DEF NextLink
  <1>15. CASE NextTarget(c)
    <2> DEFINE w == [crawl[c] EXCEPT !.queue = Tail(crawl[c].queue), !.redirects = 0]
    <2>1. CASE crawl[c].queue = <<>> \/ Len(crawl[c].pages) >= MaxPages
      BY <1>3, <1>4, <1>15, <2>1 DEF NextTarget, Ended
    <2>2. CASE ~(crawl[c].queue = <<>> \/ Len(crawl[c].pages) >= MaxPages)
      <3>1. crawl[c].queue \in Seq(Urls)
        BY <1>1 DEF CrawlStates
      <3>2. Tail(crawl[c].queue) \in Seq(Urls) /\ 0 \in 0..MaxRedirects
        BY <2>2, <3>1
      <3>3. w \in CrawlStates
        BY <1>1, <3>2 DEF CrawlStates
      <3> QED BY <1>7, <1>15, <2>2, <3>3 DEF NextTarget
    <2> QED BY <2>1, <2>2
  <1>16. CASE Redirected(c)
    <2> DEFINE w == [crawl[c] EXCEPT !.redirects = crawl[c].redirects + 1]
    <2>1. CASE Stop(c)
      BY <1>5, <2>1
    <2>2. CASE /\ crawl[c].redirects < MaxRedirects
               /\ \E u \in RedirectTargets : Visit(c, u, w)
      <3>1. crawl[c].redirects + 1 \in 0..MaxRedirects
        BY <1>1, <2>2 DEF CrawlStates
      <3>2. w \in CrawlStates
        BY <1>1, <3>1 DEF CrawlStates
      <3> QED BY <1>7, <2>2, <3>2
    <2> QED BY <1>16, <2>1, <2>2 DEF Redirected
  <1> QED BY <1>8, <1>9, <1>10, <1>11, <1>12, <1>13, <1>14, <1>15, <1>16

\* A step of a crawl with the site of its hop.
LEMMA SiteStep ==
    ASSUME SitesTyped, PermitsConserved, NEW c \in Crawls, NEW d \in Sites,
           NEW permits \in Nat, NEW lock \in Crawls \cup {None}, NEW pace \in 0..Delay,
           site' = [site EXCEPT ![d] = [permits |-> permits, lock |-> lock, pace |-> pace]],
           \A e \in Crawls : e # c => crawl'[e] = crawl[e],
           Site(c) = d, crawl'[c].pc \in HoldsPermit => SiteOf[crawl'[c].hop] = d,
           permits + One(crawl'[c].pc \in HoldsPermit)
               = site[d].permits + One(crawl[c].pc \in HoldsPermit),
           crawl'[c].pc \in HoldsLock => site[d].lock \in {None, c} /\ lock = c,
           crawl'[c].pc \notin HoldsLock =>
               lock = IF site[d].lock = c THEN None ELSE site[d].lock
    PROVE  site' \in [Sites -> SiteStates] /\ PermitsConserved'
  <1>1. site' \in [Sites -> SiteStates]
    BY DEF SitesTyped, SiteStates
  <1>2. /\ site'[d].permits = permits /\ site'[d].lock = lock
        /\ \A f \in Sites : f # d => site'[f] = site[f]
    BY DEF SitesTyped, SiteStates
  <1>3. HoldsLock \subseteq HoldsPermit
    BY DEF HoldsPermit
  <1>4. ASSUME NEW f \in Sites
        PROVE  /\ site'[f].permits \in Nat
               /\ site'[f].permits + One(HoldsAt(crawl'[c], f))
                      = site[f].permits + One(HoldsAt(crawl[c], f))
               /\ LocksAt(crawl'[c], f) =>
                      site[f].lock \in {None, c} /\ site'[f].lock = c
               /\ ~LocksAt(crawl'[c], f) =>
                      site'[f].lock = IF site[f].lock = c THEN None ELSE site[f].lock
    <2>1. CASE f = d
      <3>1. /\ HoldsAt(crawl[c], d) <=> crawl[c].pc \in HoldsPermit
            /\ HoldsAt(crawl'[c], d) <=> crawl'[c].pc \in HoldsPermit
            /\ LocksAt(crawl'[c], d) <=> crawl'[c].pc \in HoldsLock
        BY <1>3 DEF HoldsAt, LocksAt, Site
      <3>2. site'[d].permits + One(HoldsAt(crawl'[c], d))
                = site[d].permits + One(HoldsAt(crawl[c], d))
        BY <1>2, <3>1 DEF One
      <3> QED BY <1>2, <2>1, <3>1, <3>2
    <2>2. CASE f # d
      <3>1. ~HoldsAt(crawl[c], f) /\ ~HoldsAt(crawl'[c], f) /\ ~LocksAt(crawl'[c], f)
        BY <1>3, <2>2 DEF HoldsAt, LocksAt, Site
      <3>2. site[f].lock # c
        BY <2>2 DEF PermitsConserved
      <3>3. site'[f] = site[f] /\ site[f].permits \in Nat
        BY <1>2, <2>2 DEF SitesTyped, SiteStates
      <3> QED BY <3>1, <3>2, <3>3 DEF One
    <2> QED BY <2>1, <2>2
  <1>5. PermitsConserved'
    BY <1>4, PermitStep
  <1> QED BY <1>1, <1>5

\* A step after which the crawl neither waits for a delay nor shortens one.
LEMMA PacedKeeps ==
    ASSUME Paced, SitesTyped, SitesTyped', NEW c \in Crawls, crawl'[c].pc # "pause",
           \A e \in Crawls : e # c => crawl'[e] = crawl[e],
           quiet' = quiet, \A d \in Sites : site'[d].pace >= site[d].pace
    PROVE  Paced'
  <1>1. ASSUME NEW d \in Sites PROVE quiet'[d] + site'[d].pace >= Delay
    <2>1. quiet[d] + site[d].pace >= Delay /\ site'[d].pace >= site[d].pace
      BY DEF Paced
    <2>2. quiet[d] \in 0..Delay /\ site[d].pace \in 0..Delay /\ site'[d].pace \in 0..Delay
      BY DEF SitesTyped, SiteStates
    <2> QED BY <2>1, <2>2
  <1>2. ASSUME NEW e \in Crawls, crawl'[e].pc = "pause"
        PROVE  quiet'[SiteOf[crawl'[e].hop]] + crawl'[e].wait >= Delay
    <2>1. crawl'[e] = crawl[e]
      BY <1>2
    <2> QED BY <1>2, <2>1 DEF Paced, Site
  <1> QED BY <1>1, <1>2 DEF Paced, Site

\* A fetching crawl has a site.
LEMMA OnSite ==
    ASSUME CrawlsSound, NEW c \in Crawls, crawl[c].pc \in Fetching
    PROVE  Site(c) \in Sites
  <1>1. Local(crawl[c], call[c], approvedOrigins)
    BY DEF CrawlsSound
  <1> QED BY <1>1 DEF Local, HopSound, Hopping, Site, Sites

\* A crawl that holds no permit changes nothing of the sites.
LEMMA AwaySound ==
    ASSUME IInv, NEW c \in Crawls,
           \/ Start(c) \/ Reviewed(c) \/ NextTarget(c) \/ NextLink(c) \/ Checked(c)
    PROVE  SitesTyped' /\ PermitsConserved' /\ Paced'
  <1>1. /\ site' = site /\ quiet' = quiet
        /\ crawl[c].pc \in {"new", "review", "next", "links", "check"}
    BY DEF Start, Reviewed, NextTarget, NextLink, Checked, pacing
  <1>2. /\ \A e \in Crawls : e # c => crawl'[e] = crawl[e]
        /\ crawl'[c].pc \notin HoldsPermit
    BY Leaves DEF IInv, AInv
  <1>3. SitesTyped'
    BY <1>1 DEF IInv, SitesTyped, SiteStates
  <1>4. PermitsConserved'
    <2>1. ASSUME NEW d \in Sites
          PROVE  /\ ~HoldsAt(crawl[c], d) /\ ~HoldsAt(crawl'[c], d) /\ ~LocksAt(crawl'[c], d)
                 /\ site[d].lock # c /\ site[d].permits \in Nat
      BY <1>1, <1>2 DEF HoldsAt, LocksAt, HoldsPermit, HoldsLock, IInv, PermitsConserved,
         SitesTyped, SiteStates
    <2> QED BY <1>1, <1>2, <2>1, PermitStep DEF IInv, One
  <1>5. Paced'
    <2>1. \A d \in Sites : site'[d].pace >= site[d].pace
      <3>1. \A d \in Sites : site[d].pace \in Nat
        BY DEF IInv, SitesTyped, SiteStates
      <3> QED BY <1>1, <3>1
    <2>2. crawl'[c].pc # "pause"
      BY <1>2 DEF HoldsPermit, HoldsLock
    <2> QED BY <1>1, <1>2, <1>3, <2>1, <2>2, PacedKeeps DEF IInv
  <1> QED BY <1>3, <1>4, <1>5

\* The record of a site of which only some fields change.
LEMMA SiteFields ==
    ASSUME NEW s \in SiteStates, NEW n, NEW l, NEW p
    PROVE  /\ [s EXCEPT !.permits = n] = [permits |-> n, lock |-> s.lock, pace |-> s.pace]
           /\ [s EXCEPT !.lock = l] = [permits |-> s.permits, lock |-> l, pace |-> s.pace]
           /\ [s EXCEPT !.lock = l, !.pace = p]
                  = [permits |-> s.permits, lock |-> l, pace |-> p]
  <1> DEFINE paces == 0..Delay
             locks == Crawls \cup {None}
  <1>1. s \in [permits : Nat, lock : locks, pace : paces]
    BY DEF SiteStates
  <1> HIDE DEF paces, locks
  <1>2. [s EXCEPT !.permits = n] = [permits |-> n, lock |-> s.lock, pace |-> s.pace]
    BY <1>1
  <1>3. [s EXCEPT !.lock = l] = [permits |-> s.permits, lock |-> l, pace |-> s.pace]
    BY <1>1
  <1>4. [s EXCEPT !.lock = l, !.pace = p] = [permits |-> s.permits, lock |-> l, pace |-> p]
    <2>1. [s EXCEPT !.lock = l, !.pace = p] = [[s EXCEPT !.lock = l] EXCEPT !.pace = p]
      OBVIOUS
    <2>2. [[permits |-> s.permits, lock |-> l, pace |-> s.pace] EXCEPT !.pace = p]
              = [permits |-> s.permits, lock |-> l, pace |-> p]
      OBVIOUS
    <2> QED BY <1>3, <2>1, <2>2
  <1> QED BY <1>2, <1>3, <1>4

\* Where a step leads a crawl whose hop stays.
LEMMA GoesTo ==
    ASSUME CrawlsSound, NEW c \in Crawls, NEW pc, Goes(c, pc)
    PROVE  /\ \A e \in Crawls : e # c => crawl'[e] = crawl[e]
           /\ crawl'[c].pc = pc /\ crawl'[c].hop = crawl[c].hop
           /\ crawl'[c].wait = crawl[c].wait
  BY DEF CrawlsSound, CrawlStates, Goes

LEMMA WaitsAt ==
    ASSUME CrawlsSound, NEW c \in Crawls, NEW pc, NEW n,
           crawl' = [crawl EXCEPT ![c].pc = pc, ![c].wait = n]
    PROVE  /\ \A e \in Crawls : e # c => crawl'[e] = crawl[e]
           /\ crawl'[c].pc = pc /\ crawl'[c].hop = crawl[c].hop
           /\ crawl'[c].wait = n
  BY DEF CrawlsSound, CrawlStates

\* A permit is given back where a response is closed.
LEMMA ReleaseSound ==
    ASSUME IInv, NEW c \in Crawls,
           \/ TransportFails(c) \/ Redirected(c) \/ RedirectedNowhere(c)
           \/ Refused(c) \/ BodyEnds(c) \/ Rested(c)
    PROVE  SitesTyped' /\ PermitsConserved' /\ Paced'
  <1> DEFINE d == Site(c)
             lock == IF Rested(c) THEN None ELSE site[d].lock
             pace == IF Rested(c) THEN Delay ELSE site[d].pace
             permits == site[d].permits + 1
  <1>1. /\ crawl[c].pc \in {"sent", "body", "rest"} /\ quiet' = quiet
        /\ crawl[c].pc = "rest" <=> Rested(c)
    BY DEF TransportFails, Redirected, RedirectedNowhere, Refused, BodyEnds, Rested
  <1>2. /\ \A e \in Crawls : e # c => crawl'[e] = crawl[e]
        /\ crawl'[c].pc \notin HoldsPermit /\ crawl'[c].pc \notin HoldsLock
    BY Leaves DEF IInv, AInv, HoldsPermit
  <1>3. d \in Sites /\ crawl[c].pc \in HoldsPermit
    BY <1>1, OnSite DEF IInv, AInv, Fetching, HoldsPermit, HoldsLock
  <1>4. site[d] \in SiteStates /\ Delay \in 0..Delay /\ site \in [Sites -> SiteStates]
    BY <1>3 DEF IInv, SitesTyped, SiteStates
  <1>5. permits \in Nat /\ lock \in Crawls \cup {None} /\ pace \in 0..Delay
    BY <1>4 DEF SiteStates
  <1>6. site' = [site EXCEPT ![d] = [permits |-> permits, lock |-> lock, pace |-> pace]]
    <2>1. CASE Rested(c)
      BY <1>4, <2>1 DEF Rested, SiteStates
    <2>2. CASE ~Rested(c)
      <3>1. site' = [site EXCEPT ![d].permits = @ + 1]
        BY <2>2 DEF TransportFails, Redirected, RedirectedNowhere, Refused, BodyEnds,
           ReleasePermit
      <3>2. site' = [site EXCEPT ![d] = [site[d] EXCEPT !.permits = site[d].permits + 1]]
        BY <1>3, <1>4, <3>1
      <3>3. lock = site[d].lock /\ pace = site[d].pace
        BY <2>2
      <3>4. [site[d] EXCEPT !.permits = permits]
                = [permits |-> permits, lock |-> site[d].lock, pace |-> site[d].pace]
        BY <1>4, SiteFields
      <3> QED BY <3>2, <3>3, <3>4
    <2> QED BY <2>1, <2>2
  <1>7. lock = IF site[d].lock = c THEN None ELSE site[d].lock
    <2>1. site[d].lock = c <=> crawl[c].pc \in HoldsLock
      BY <1>3 DEF IInv, PermitsConserved
    <2>2. crawl[c].pc \in HoldsLock <=> Rested(c)
      BY <1>1 DEF HoldsLock
    <2> QED BY <2>1, <2>2
  <1>8. permits + One(crawl'[c].pc \in HoldsPermit)
            = site[d].permits + One(crawl[c].pc \in HoldsPermit)
    <2>1. site[d].permits \in Nat
      BY <1>4 DEF SiteStates
    <2> QED BY <1>2, <1>3, <2>1 DEF One
  <1>9. pace >= site[d].pace
    BY <1>4 DEF SiteStates
  <1> HIDE DEF lock, pace, permits
  <1>10. site' \in [Sites -> SiteStates] /\ PermitsConserved'
    BY <1>2, <1>3, <1>5, <1>6, <1>7, <1>8, SiteStep DEF IInv
  <1>11. SitesTyped'
    BY <1>1, <1>10 DEF IInv, SitesTyped, SiteStates
  <1>12. \A f \in Sites : site'[f].pace >= site[f].pace
    <2>1. \A f \in Sites : site[f].pace \in 0..Delay /\ Delay \in Nat
      BY DEF IInv, SitesTyped, SiteStates
    <2> QED BY <1>4, <1>6, <1>9, <2>1
  <1>13. Paced'
    BY <1>1, <1>2, <1>11, <1>12, PacedKeeps DEF IInv, HoldsPermit, HoldsLock
  <1> QED BY <1>10, <1>11, <1>13

\* A permit is taken; the lock, and what is left of the delay, later.
LEMMA HoldingSound ==
    ASSUME IInv, NEW c \in Crawls,
           \/ TakePermit(c) \/ TakeLock(c) \/ RateLimited(c) \/ Accepted(c)
           \/ BackOff(c) \/ Send(c)
    PROVE  SitesTyped' /\ PermitsConserved' /\ Paced'
  <1> DEFINE d == Site(c)
             s == site[d]
  <1>1. /\ CrawlsSound /\ site \in [Sites -> SiteStates] /\ SitesTyped /\ PermitsConserved
        /\ quiet \in [Sites -> 0..Delay] /\ Delay \in Nat
    BY DEF IInv, AInv, SitesTyped
  <1>2. d \in Sites /\ crawl[c].pc \in Fetching
    <2>1. crawl[c].pc \in Fetching
      BY DEF TakePermit, TakeLock, RateLimited, Accepted, BackOff, Send, Fetching,
         HoldsPermit, HoldsLock
    <2> QED BY <1>1, <2>1, OnSite
  <1>3. /\ s \in SiteStates /\ s.permits \in Nat /\ s.pace \in 0..Delay
        /\ s.lock \in Crawls \cup {None}
        /\ s.lock = c <=> crawl[c].pc \in HoldsLock
    BY <1>1, <1>2 DEF PermitsConserved, SiteStates
  <1>4. ASSUME NEW permits \in Nat, NEW lock \in Crawls \cup {None}, NEW pace \in 0..Delay,
               site' = [site EXCEPT ![d] = [permits |-> permits, lock |-> lock, pace |-> pace]],
               quiet' \in [Sites -> 0..Delay],
               \A e \in Crawls : e # c => crawl'[e] = crawl[e],
               crawl'[c].pc \in HoldsPermit, crawl'[c].hop = crawl[c].hop,
               permits + 1 = s.permits + One(crawl[c].pc \in HoldsPermit),
               crawl'[c].pc \in HoldsLock => s.lock \in {None, c} /\ lock = c,
               crawl'[c].pc \notin HoldsLock =>
                   lock = IF s.lock = c THEN None ELSE s.lock
        PROVE  SitesTyped' /\ PermitsConserved'
    <2>1. /\ SiteOf[crawl'[c].hop] = d
          /\ permits + One(crawl'[c].pc \in HoldsPermit)
                 = s.permits + One(crawl[c].pc \in HoldsPermit)
      BY <1>4 DEF Site, One
    <2>2. site' \in [Sites -> SiteStates] /\ PermitsConserved'
      BY <1>1, <1>2, <1>4, <2>1, SiteStep
    <2> QED BY <1>4, <2>2 DEF SitesTyped
  <1>5. \A f \in Sites : site[f].pace \in 0..Delay /\ 0..Delay \subseteq Nat
    BY <1>1 DEF SiteStates
  <1>6. CASE TakePermit(c)
    <2> DEFINE permits == s.permits - 1
               lock == s.lock
               pace == s.pace
    <2>1. /\ \A e \in Crawls : e # c => crawl'[e] = crawl[e]
          /\ crawl'[c].pc = "lock" /\ crawl'[c].hop = crawl[c].hop
          /\ crawl[c].pc = "permit" /\ s.permits > 0 /\ quiet' = quiet
          /\ site' = [site EXCEPT ![d].permits = @ - 1]
      BY <1>1, <1>6, GoesTo DEF TakePermit
    <2>2. permits \in Nat /\ permits + 1 = s.permits + 0
      BY <1>3, <2>1
    <2>3. site' = [site EXCEPT ![d] = [s EXCEPT !.permits = permits]]
      BY <1>1, <1>2, <2>1
    <2>4. site' = [site EXCEPT ![d] = [permits |-> permits, lock |-> lock, pace |-> pace]]
      BY <1>3, <2>3, SiteFields
    <2>5. lock = s.lock /\ lock \in Crawls \cup {None} /\ pace \in 0..Delay /\ pace = s.pace
      BY <1>3
    <2> HIDE DEF permits, lock, pace
    <2>6. /\ crawl[c].pc \notin HoldsPermit /\ crawl'[c].pc \in HoldsPermit
          /\ crawl[c].pc \notin HoldsLock /\ crawl'[c].pc \notin HoldsLock
          /\ s.lock # c
      BY <1>3, <2>1 DEF HoldsPermit, HoldsLock
    <2>7. PermitsConserved' /\ SitesTyped'
      BY <1>1, <1>4, <2>1, <2>2, <2>4, <2>5, <2>6 DEF One
    <2>8. \A f \in Sites : site'[f].pace >= site[f].pace
      BY <1>1, <1>5, <2>4, <2>5
    <2> QED BY <2>1, <2>7, <2>8, PacedKeeps DEF IInv
  <1>7. CASE RateLimited(c) \/ Accepted(c)
    <2> DEFINE permits == s.permits
               lock == s.lock
               pace == s.pace
    <2>1. PICK pc \in {"backoff", "body"} : Goes(c, pc)
      BY <1>7 DEF RateLimited, Accepted
    <2>2. /\ \A e \in Crawls : e # c => crawl'[e] = crawl[e]
          /\ crawl'[c].pc = pc /\ crawl'[c].hop = crawl[c].hop
          /\ crawl[c].pc = "sent" /\ quiet' = quiet /\ site' = site
      BY <1>1, <1>7, <2>1, GoesTo DEF RateLimited, Accepted, pacing
    <2>3. s = [permits |-> permits, lock |-> lock, pace |-> pace]
      BY <1>3 DEF SiteStates
    <2>4. site' = [site EXCEPT ![d] = [permits |-> permits, lock |-> lock, pace |-> pace]]
      BY <1>1, <1>2, <2>2, <2>3
    <2>5. /\ lock = s.lock /\ lock \in Crawls \cup {None} /\ pace \in 0..Delay
          /\ permits \in Nat /\ permits + 1 = s.permits + 1
      BY <1>3
    <2> HIDE DEF permits, lock, pace
    <2>6. /\ crawl[c].pc \in HoldsPermit /\ crawl'[c].pc \in HoldsPermit
          /\ crawl[c].pc \notin HoldsLock /\ crawl'[c].pc \notin HoldsLock
          /\ s.lock # c
      BY <1>3, <2>1, <2>2 DEF HoldsPermit, HoldsLock
    <2>7. PermitsConserved' /\ SitesTyped'
      BY <1>1, <1>4, <2>2, <2>4, <2>5, <2>6 DEF One
    <2>8. \A f \in Sites : site'[f].pace >= site[f].pace
      BY <1>5, <2>2
    <2> QED BY <2>1, <2>2, <2>7, <2>8, PacedKeeps DEF IInv
  <1>8. CASE TakeLock(c) \/ BackOff(c)
    <2> DEFINE permits == s.permits
               lock == c
               pace == s.pace
    <2>1. PICK pc \in {"pause", "rest"}, n \in Nat :
              /\ crawl' = [crawl EXCEPT ![c].pc = pc, ![c].wait = n]
              /\ pc = "pause" => n = s.pace
      <3>1. CASE TakeLock(c)
        <4>1. s.pace \in Nat
          BY <1>3, <1>5
        <4>2. crawl' = [crawl EXCEPT ![c].pc = "pause", ![c].wait = s.pace]
          BY <3>1 DEF TakeLock
        <4> QED BY <4>1, <4>2
      <3>2. CASE BackOff(c)
        <4>1. PICK r \in 1..RetryAfter :
                   crawl' = [crawl EXCEPT ![c].pc = "rest", ![c].wait = r]
          BY <3>2 DEF BackOff
        <4>2. r \in Nat
          BY <4>1
        <4> QED BY <4>1, <4>2
      <3> QED BY <1>8, <3>1, <3>2
    <2>2. /\ \A e \in Crawls : e # c => crawl'[e] = crawl[e]
          /\ crawl'[c].pc = pc /\ crawl'[c].hop = crawl[c].hop /\ crawl'[c].wait = n
      <3>1. crawl' = [crawl EXCEPT ![c].pc = pc, ![c].wait = n]
        BY <2>1
      <3> HIDE DEF s, d
      <3> QED BY <1>1, <3>1, WaitsAt
    <2>3. /\ crawl[c].pc \in {"lock", "backoff"} /\ quiet' = quiet /\ s.lock = None
          /\ site' = [site EXCEPT ![d].lock = c]
      BY <1>8 DEF TakeLock, BackOff
    <2>4. site' = [site EXCEPT ![d] = [permits |-> permits, lock |-> lock, pace |-> pace]]
      <3>1. site' = [site EXCEPT ![d] = [s EXCEPT !.lock = c]]
        BY <1>1, <1>2, <2>3
      <3> QED BY <1>3, <3>1, SiteFields
    <2>5. /\ lock = c /\ lock \in Crawls \cup {None} /\ pace \in 0..Delay
          /\ permits \in Nat /\ permits + 1 = s.permits + 1 /\ pace = s.pace
      BY <1>3
    <2> HIDE DEF permits, lock, pace
    <2>6. /\ crawl[c].pc \in HoldsPermit /\ crawl'[c].pc \in HoldsPermit
          /\ crawl'[c].pc \in HoldsLock
      BY <2>1, <2>2, <2>3 DEF HoldsPermit, HoldsLock
    <2>7. PermitsConserved' /\ SitesTyped'
      BY <1>1, <1>4, <2>2, <2>3, <2>4, <2>5, <2>6 DEF One
    <2>8. \A f \in Sites : site'[f].pace = site[f].pace
      BY <1>1, <2>4, <2>5
    <2>9. Paced'
      <3>1. \A f \in Sites : quiet'[f] + site'[f].pace >= Delay
        BY <2>3, <2>8 DEF IInv, Paced
      <3>2. ASSUME NEW e \in Crawls, crawl'[e].pc = "pause"
            PROVE  quiet'[SiteOf[crawl'[e].hop]] + crawl'[e].wait >= Delay
        <4>1. CASE e = c
          <5>1. SiteOf[crawl'[e].hop] = d /\ crawl'[e].wait = s.pace
            BY <2>1, <2>2, <3>2, <4>1 DEF Site
          <5> QED BY <1>2, <2>3, <5>1 DEF IInv, Paced
        <4>2. CASE e # c
          BY <2>2, <2>3, <3>2, <4>2 DEF IInv, Paced, Site
        <4> QED BY <4>1, <4>2
      <3> QED BY <3>1, <3>2 DEF Paced, Site
    <2> QED BY <2>7, <2>9
  <1>9. CASE Send(c)
    <2> DEFINE permits == s.permits
               lock == None
               pace == Delay
    <2>1. /\ \A e \in Crawls : e # c => crawl'[e] = crawl[e]
          /\ crawl'[c].pc = "sent" /\ crawl'[c].hop = crawl[c].hop
          /\ crawl[c].pc = "pause" /\ quiet' = [quiet EXCEPT ![d] = 0]
          /\ site' = [site EXCEPT ![d].lock = None, ![d].pace = Delay]
      BY <1>1, <1>9, GoesTo DEF Send
    <2>2. site' = [site EXCEPT ![d] = [permits |-> permits, lock |-> lock, pace |-> pace]]
      <3>1. site' = [site EXCEPT ![d] = [s EXCEPT !.lock = None, !.pace = Delay]]
        BY <1>1, <1>2, <2>1
      <3> QED BY <1>3, <3>1, SiteFields
    <2>3. quiet' \in [Sites -> 0..Delay]
      <3>1. 0 \in 0..Delay
        BY <1>1
      <3> QED BY <1>1, <2>1, <3>1
    <2>4. /\ lock = None /\ lock \in Crawls \cup {None} /\ pace \in 0..Delay
          /\ permits \in Nat /\ permits + 1 = s.permits + 1 /\ pace = Delay
      BY <1>1, <1>3
    <2> HIDE DEF permits, lock, pace
    <2>5. /\ crawl[c].pc \in HoldsPermit /\ crawl'[c].pc \in HoldsPermit
          /\ crawl'[c].pc \notin HoldsLock /\ s.lock = c
      BY <1>3, <2>1 DEF HoldsPermit, HoldsLock
    <2>6. PermitsConserved' /\ SitesTyped'
      BY <1>1, <1>4, <2>1, <2>2, <2>3, <2>4, <2>5 DEF One
    <2>7. Paced'
      <3>1. ASSUME NEW f \in Sites PROVE quiet'[f] + site'[f].pace >= Delay
        <4>1. CASE f = d
          BY <1>1, <1>2, <2>1, <2>2, <2>4, <4>1
        <4>2. CASE f # d
          BY <1>1, <2>1, <2>2, <4>2 DEF IInv, Paced
        <4> QED BY <4>1, <4>2
      <3>2. ASSUME NEW e \in Crawls, crawl'[e].pc = "pause"
            PROVE  quiet'[SiteOf[crawl'[e].hop]] + crawl'[e].wait >= Delay
        <4>1. e # c /\ crawl'[e] = crawl[e] /\ crawl[e].pc = "pause"
          BY <2>1, <3>2
        <4>2. Site(e) # d
          BY <1>2, <2>5, <4>1 DEF IInv, PermitsConserved, HoldsLock
        <4>3. Site(e) \in Sites
          BY <1>1, <4>1, OnSite DEF Fetching, HoldsPermit, HoldsLock
        <4>4. quiet'[Site(e)] = quiet[Site(e)]
          BY <1>1, <2>1, <4>2, <4>3
        <4> QED BY <4>1, <4>4 DEF IInv, Paced, Site
      <3> QED BY <3>1, <3>2 DEF Paced, Site
    <2> QED BY <2>6, <2>7
  <1> QED BY <1>6, <1>7, <1>8, <1>9

\* A cancelled crawl gives back what it holds, wherever it is.
LEMMA CancelReleases ==
    ASSUME IInv, NEW c \in Crawls, Cancel(c)
    PROVE  SitesTyped' /\ PermitsConserved' /\ Paced'
  <1>1. /\ \A e \in Crawls : e # c => crawl'[e] = crawl[e]
        /\ crawl'[c].pc \notin HoldsPermit /\ crawl'[c].pc \notin HoldsLock
        /\ crawl'[c].pc # "pause"
    BY Leaves DEF IInv, AInv, HoldsPermit, HoldsLock
  <1>2. /\ site \in [Sites -> SiteStates] /\ quiet' = quiet /\ quiet \in [Sites -> 0..Delay]
        /\ site' = [d \in Sites |-> [site[d] EXCEPT
               !.permits = IF HoldsAt(crawl[c], d) THEN @ + 1 ELSE @,
               !.lock = IF LocksAt(crawl[c], d) THEN None ELSE @]]
    BY DEF IInv, SitesTyped, Cancel, HoldsAt, LocksAt, Site
  <1>3. ASSUME NEW d \in Sites
        PROVE  /\ site'[d] \in SiteStates /\ site'[d].pace = site[d].pace
               /\ site'[d].permits = site[d].permits + One(HoldsAt(crawl[c], d))
               /\ site'[d].lock = IF LocksAt(crawl[c], d) THEN None ELSE site[d].lock
    <2> DEFINE n == IF HoldsAt(crawl[c], d) THEN site[d].permits + 1 ELSE site[d].permits
               l == IF LocksAt(crawl[c], d) THEN None ELSE site[d].lock
               r == [site[d] EXCEPT !.permits = n, !.lock = l]
    <2>1. site[d] \in SiteStates /\ site'[d] = r
      BY <1>2
    <2>2. /\ n \in Nat /\ l \in Crawls \cup {None}
          /\ n = site[d].permits + One(HoldsAt(crawl[c], d))
      BY <2>1 DEF SiteStates, One
    <2> HIDE DEF n, l
    <2>3. r \in SiteStates /\ r.permits = n /\ r.lock = l /\ r.pace = site[d].pace
      BY <2>1, <2>2 DEF SiteStates
    <2> QED BY <2>1, <2>2, <2>3 DEF l
  <1>4. SitesTyped'
    <2>1. site' \in [Sites -> SiteStates]
      BY <1>2, <1>3
    <2> QED BY <1>2, <2>1 DEF SitesTyped
  <1>5. PermitsConserved'
    <2>1. ASSUME NEW d \in Sites
          PROVE  /\ site'[d].permits \in Nat
                 /\ site'[d].permits + One(HoldsAt(crawl'[c], d))
                        = site[d].permits + One(HoldsAt(crawl[c], d))
                 /\ ~LocksAt(crawl'[c], d)
                 /\ site'[d].lock = IF site[d].lock = c THEN None ELSE site[d].lock
      <3>1. ~HoldsAt(crawl'[c], d) /\ ~LocksAt(crawl'[c], d)
        BY <1>1 DEF HoldsAt, LocksAt
      <3>2. site'[d].permits \in Nat
        BY <1>3 DEF SiteStates
      <3>3. site[d].lock = c <=> LocksAt(crawl[c], d)
        BY DEF IInv, PermitsConserved, LocksAt, Site
      <3>4. One(HoldsAt(crawl'[c], d)) = 0
        BY <3>1 DEF One
      <3>5. site'[d].permits + 0 = site'[d].permits
        BY <3>2
      <3> QED BY <1>3, <3>1, <3>2, <3>3, <3>4, <3>5
    <2> QED BY <1>1, <2>1, PermitStep DEF IInv
  <1>6. Paced'
    <2>1. \A d \in Sites : site'[d].pace >= site[d].pace
      <3>1. \A d \in Sites : site[d].pace \in 0..Delay /\ Delay \in Nat
        BY <1>2 DEF SiteStates
      <3> QED BY <1>3, <3>1
    <2> QED BY <1>1, <1>2, <1>4, <2>1, PacedKeeps DEF IInv
  <1> QED BY <1>4, <1>5, <1>6

\* Time takes as much from a delay as it adds to what has passed.
LEMMA TickPaces ==
    ASSUME IInv, Tick
    PROVE  SitesTyped' /\ PermitsConserved' /\ Paced'
  <1>1. /\ site \in [Sites -> SiteStates] /\ quiet \in [Sites -> 0..Delay] /\ Delay \in Nat
        /\ crawl \in [Crawls -> CrawlStates] /\ CrawlsSound
    BY DEF IInv, AInv, CrawlsSound, SitesTyped
  <1>2. ASSUME NEW d \in Sites
        PROVE  /\ site'[d] \in SiteStates /\ site'[d].permits = site[d].permits
               /\ site'[d].lock = site[d].lock /\ site'[d].pace = Less(site[d].pace)
               /\ quiet'[d] = IF quiet[d] < Delay THEN quiet[d] + 1 ELSE Delay
    <2> DEFINE n == Less(site[d].pace)
               r == [site[d] EXCEPT !.pace = n]
    <2>1. site[d] \in SiteStates /\ site'[d] = r
      BY <1>1 DEF Tick
    <2>2. n \in 0..Delay
      BY <1>1, <2>1 DEF SiteStates, Less
    <2> HIDE DEF n
    <2>3. /\ r \in SiteStates /\ r.permits = site[d].permits /\ r.lock = site[d].lock
          /\ r.pace = n
      BY <2>1, <2>2 DEF SiteStates
    <2> QED BY <2>1, <2>3 DEF Tick, n
  <1>3. ASSUME NEW c \in Crawls
        PROVE  /\ crawl'[c].pc = crawl[c].pc /\ crawl'[c].hop = crawl[c].hop
               /\ crawl'[c].wait = Less(crawl[c].wait) /\ crawl[c].wait \in Nat
    BY <1>1 DEF Tick, CrawlStates
  <1>4. SitesTyped'
    <2>1. site' \in [Sites -> SiteStates]
      <3>1. site' = [d \in Sites |-> site'[d]]
        BY DEF Tick
      <3> QED BY <1>2, <3>1
    <2>2. quiet' \in [Sites -> 0..Delay]
      BY <1>1 DEF Tick
    <2> QED BY <2>1, <2>2 DEF SitesTyped
  <1>5. PermitsConserved'
    <2>1. ASSUME NEW d \in Sites
          PROVE  site'[d].permits + Cardinality(Holders(d)') = Permits
      <3>1. Holders(d)' = Holders(d)
        BY <1>3 DEF Holders, Site
      <3> QED BY <1>2, <3>1 DEF IInv, PermitsConserved
    <2>2. ASSUME NEW d \in Sites, NEW c \in Crawls
          PROVE  site'[d].lock = c <=> crawl'[c].pc \in HoldsLock /\ SiteOf[crawl'[c].hop] = d
      <3>1. site[d].lock = c <=> crawl[c].pc \in HoldsLock /\ SiteOf[crawl[c].hop] = d
        BY DEF IInv, PermitsConserved, Site
      <3> QED BY <1>2, <1>3, <3>1
    <2> QED BY <2>1, <2>2 DEF PermitsConserved, Site
  <1>6. Paced'
    <2>1. ASSUME NEW q \in 0..Delay, NEW n \in Nat, q + n >= Delay
          PROVE  (IF q < Delay THEN q + 1 ELSE Delay) + Less(n) >= Delay
      BY <1>1, <2>1 DEF Less
    <2>2. ASSUME NEW d \in Sites PROVE quiet'[d] + site'[d].pace >= Delay
      <3>1. quiet[d] \in 0..Delay /\ site[d].pace \in Nat /\ quiet[d] + site[d].pace >= Delay
        BY <1>1 DEF IInv, Paced, SiteStates
      <3> QED BY <1>2, <2>1, <3>1
    <2>3. ASSUME NEW c \in Crawls, crawl'[c].pc = "pause"
          PROVE  quiet'[SiteOf[crawl'[c].hop]] + crawl'[c].wait >= Delay
      <3>1. crawl[c].pc = "pause" /\ quiet[Site(c)] + crawl[c].wait >= Delay
        BY <1>3, <2>3 DEF IInv, Paced
      <3>2. Site(c) \in Sites
        BY <1>1, <3>1, OnSite DEF Fetching, HoldsPermit, HoldsLock
      <3>3. quiet[Site(c)] \in 0..Delay
        BY <1>1, <3>2
      <3>4. (IF quiet[Site(c)] < Delay THEN quiet[Site(c)] + 1 ELSE Delay)
                + Less(crawl[c].wait) >= Delay
        BY <1>3, <2>1, <3>1, <3>3
      <3>5. SiteOf[crawl'[c].hop] = Site(c)
        BY <1>3 DEF Site
      <3> QED BY <1>2, <1>3, <3>2, <3>4, <3>5
    <2> QED BY <2>2, <2>3 DEF Paced, Site
  <1> QED BY <1>4, <1>5, <1>6

-----------------------------------------------------------------------------
\* Nothing is held at first, and no delay is due.
LEMMA InitHolds == Init => IInv
  <1> SUFFICES ASSUME Init PROVE IInv
    OBVIOUS
  <1>1. P!IInv
    BY PreflightSteps, P!InitSound DEF Init
  <1>2. /\ MaxRedirects \in Nat /\ MaxPages \in Nat /\ MaxPages > 0 /\ MaxQueued \in Nat
        /\ Permits \in Nat /\ Delay \in Nat
    OBVIOUS
  <1>3. NewCrawl \in CrawlStates
    <2>1. <<>> \in Seq(Urls) /\ 0 \in 0..MaxRedirects
      BY <1>2
    <2> QED BY <2>1 DEF NewCrawl, CrawlStates
  <1>4. /\ NewCrawl.pc = "new" /\ NewCrawl.pages = <<>> /\ NewCrawl.queue = <<>>
        /\ NewCrawl.queued = {} /\ NewCrawl.wait = 0
        /\ "new" \notin HoldsPermit /\ "new" \notin Hopping /\ "new" \notin HoldsLock
    BY DEF NewCrawl, Hopping, Fetching, HoldsPermit, HoldsLock
  <1>5. CrawlsSound
    <2>1. QueueSound(NewCrawl)
      BY <1>2, <1>4, FS_EmptySet DEF QueueSound
    <2>2. PagesSound(NewCrawl, approvedOrigins)
      BY <1>2, <1>4 DEF PagesSound
    <2>3. ASSUME NEW c \in Crawls PROVE HopSound(NewCrawl, call[c])
      BY <1>4 DEF HopSound, Hopping
    <2> QED BY <1>3, <2>1, <2>2, <2>3 DEF Init, CrawlsSound, Local
  <1>6. SitesTyped
    BY <1>2 DEF Init, SitesTyped, SiteStates
  <1>7. PermitsConserved
    <2>1. ASSUME NEW d \in Sites PROVE Holders(d) = {}
      BY <1>4 DEF Init, Holders
    <2>2. ASSUME NEW d \in Sites PROVE site[d].permits + Cardinality(Holders(d)) = Permits
      <3>1. Cardinality(Holders(d)) = 0
        BY <2>1, FS_EmptySet
      <3>2. site[d].permits = Permits
        BY DEF Init
      <3> QED BY <1>2, <3>1, <3>2
    <2>3. ASSUME NEW d \in Sites, NEW c \in Crawls
          PROVE  site[d].lock # c /\ crawl[c].pc \notin HoldsLock
      BY <1>4 DEF Init
    <2> QED BY <2>2, <2>3 DEF PermitsConserved
  <1>8. Paced
    <2>1. \A c \in Crawls : crawl[c].pc # "pause"
      BY <1>4 DEF Init, HoldsLock
    <2> QED BY <1>2, <2>1 DEF Init, Paced
  <1> QED BY <1>1, <1>5, <1>6, <1>7, <1>8 DEF IInv, AInv

\* The invariant is preserved by every step.
LEMMA NextHolds == IInv /\ [Next]_vars => IInv'
  <1> SUFFICES ASSUME IInv, [Next]_vars PROVE IInv'
    OBVIOUS
  <1>1. AInv'
    BY CrawlsStaySound DEF IInv
  <1>2. ASSUME NEW c \in Crawls, Work(c)
        PROVE  SitesTyped' /\ PermitsConserved' /\ Paced'
    BY <1>2, AwaySound, ReleaseSound, HoldingSound DEF Work, Answered
  <1>3. ASSUME NEW c \in Crawls, Cancel(c)
        PROVE  SitesTyped' /\ PermitsConserved' /\ Paced'
    BY <1>3, CancelReleases
  <1>4. ASSUME crawl' = crawl, site' = site, quiet' = quiet
        PROVE  SitesTyped' /\ PermitsConserved' /\ Paced'
    <2>1. \A d : Holders(d)' = Holders(d)
      BY <1>4 DEF Holders, Site
    <2> QED BY <1>4, <2>1 DEF IInv, SitesTyped, PermitsConserved, Paced, Site
  <1>5. ASSUME NEW c \in Crawls, PreflightStep(c) \/ PreflightRaises(c)
        PROVE  SitesTyped' /\ PermitsConserved' /\ Paced'
    BY <1>4, <1>5 DEF PreflightStep, PreflightRaises, pacing
  <1>6. ASSUME UNCHANGED vars PROVE SitesTyped' /\ PermitsConserved' /\ Paced'
    BY <1>4, <1>6 DEF vars
  <1>7. SitesTyped' /\ PermitsConserved' /\ Paced'
    BY <1>2, <1>3, <1>5, <1>6, TickPaces DEF Next
  <1> QED BY <1>1, <1>7 DEF IInv

\* The invariant, of any number of crawls of any websites.
THEOREM CrawlerInvariant == Spec => []IInv
  BY InitHolds, NextHolds, PTL DEF Spec

\* The types of the variables.
THEOREM CrawlerTypes == Spec => []TypeOK
  <1>1. IInv => TypeOK
    <2> SUFFICES ASSUME IInv PROVE TypeOK
      OBVIOUS
    <2>1. Preflight!TypeOK
      BY DEF IInv, AInv, P!IInv, P!SoundMemory, P!ApprovalsAreReviewed, P!Sound, P!Calls,
         P!Stages, P!Working, P!Decisions, Preflight!TypeOK, Preflight!Calls,
         Preflight!Stages, Preflight!Working, Preflight!Decisions
    <2>2. crawl \in [Crawls -> CrawlStates]
      BY DEF IInv, AInv, CrawlsSound
    <2>3. \A c \in Crawls : HopSound(crawl[c], call[c])
      BY DEF IInv, AInv, CrawlsSound, Local
    <2>4. site \in [Sites -> [permits : 0..Permits, lock : Crawls \cup {None}, pace : 0..Delay]]
      <3>1. ASSUME NEW d \in Sites
            PROVE  site[d] \in [permits : 0..Permits, lock : Crawls \cup {None}, pace : 0..Delay]
        <4>1. site[d] \in SiteStates /\ site[d].permits + Cardinality(Holders(d)) = Permits
          BY DEF IInv, SitesTyped, PermitsConserved
        <4>2. Cardinality(Holders(d)) \in Nat
          <5>1. IsFiniteSet(Crawls) /\ Holders(d) \subseteq Crawls
            BY DEF Holders
          <5> QED BY <5>1, FS_Subset, FS_CardinalityType
        <4>3. site[d].permits \in 0..Permits
          <5>1. site[d].permits \in Nat /\ Permits \in Nat
            BY <4>1 DEF SiteStates
          <5> QED BY <4>1, <4>2, <5>1
        <4> QED BY <4>1, <4>3 DEF SiteStates
      <3>2. site = [d \in Sites |-> site[d]]
        BY DEF IInv, SitesTyped
      <3> QED BY <3>1, <3>2
    <2>5. quiet \in [Sites -> 0..Delay]
      BY DEF IInv, SitesTyped
    <2> QED BY <2>1, <2>2, <2>3, <2>4, <2>5 DEF TypeOK, HopSound, Hopping
  <1> QED BY <1>1, CrawlerInvariant, PTL

\* Whatever fails or is cancelled, no permit and no lock of a domain is lost or
\* held twice (async_crawler.py, _request and _close_response).
THEOREM PermitsAreConserved == Spec => []PermitsConserved
  BY CrawlerInvariant, PTL DEF IInv

\* Between two requests to a domain, of whichever crawls, the delay passes.
THEOREM RequestsAreSpaced == Spec => StartsAreSpaced
  <1> DEFINE Spaced == \A c \in Crawls :
                 crawl[c].pc # "sent" /\ crawl'[c].pc = "sent" => quiet[Site(c)] >= Delay
  <1>1. IInv /\ [Next]_vars => Spaced
    <2> SUFFICES ASSUME IInv, [Next]_vars, NEW e \in Crawls,
                        crawl[e].pc # "sent", crawl'[e].pc = "sent"
                 PROVE  quiet[Site(e)] >= Delay
      OBVIOUS
    <2>1. CrawlsSound /\ "sent" \in HoldsPermit
      BY DEF IInv, AInv, HoldsPermit
    <2>2. ~(UNCHANGED vars) /\ crawl' # crawl
      BY DEF vars
    <2>3. ~Tick
      <3>1. SUFFICES ASSUME Tick PROVE FALSE
        OBVIOUS
      <3>2. crawl'[e] = [crawl[e] EXCEPT !.wait = Less(crawl[e].wait)] /\ crawl[e] \in CrawlStates
        BY <2>1, <3>1 DEF Tick, CrawlsSound
      <3>3. crawl'[e].pc = crawl[e].pc
        BY <3>2 DEF CrawlStates
      <3> QED BY <3>3
    <2>4. PICK c \in Crawls : Work(c) \/ Cancel(c)
      BY <2>2, <2>3 DEF Next, PreflightStep, PreflightRaises
    <2>5. CASE \E pc \in {"lock", "backoff", "body"} : Goes(c, pc)
      BY <2>1, <2>5, GoesTo
    <2>6. CASE \E pc \in {"pause", "rest"} : \E n :
                   crawl' = [crawl EXCEPT ![c].pc = pc, ![c].wait = n]
      <3>0. PICK pc \in {"pause", "rest"} : \E n :
                 crawl' = [crawl EXCEPT ![c].pc = pc, ![c].wait = n]
        BY <2>6
      <3>1. PICK n : crawl' = [crawl EXCEPT ![c].pc = pc, ![c].wait = n]
        BY <3>0
      <3>2. crawl'[c].pc = pc /\ \A f \in Crawls : f # c => crawl'[f] = crawl[f]
        BY <2>1, <3>1, WaitsAt
      <3> QED BY <3>1, <3>2
    <2>7. CASE TakePermit(c) \/ RateLimited(c) \/ Accepted(c)
      BY <2>5, <2>7 DEF TakePermit, RateLimited, Accepted
    <2>8. CASE TakeLock(c) \/ BackOff(c)
      BY <2>6, <2>8 DEF TakeLock, BackOff
    <2>9. CASE Send(c)
      <3>1. e = c
        BY <2>1, <2>9, GoesTo DEF Send
      <3>2. crawl[e].pc = "pause" /\ crawl[e].wait = 0
        BY <2>9, <3>1 DEF Send
      <3>3. Site(e) \in Sites
        BY <2>1, <3>2, OnSite DEF Fetching, HoldsPermit, HoldsLock
      <3>4. quiet[Site(e)] + 0 >= Delay
        BY <3>2 DEF IInv, Paced
      <3>5. quiet[Site(e)] \in Nat
        BY <3>3 DEF IInv, SitesTyped
      <3> QED BY <3>4, <3>5
    <2>10. CASE /\ ~(TakePermit(c) \/ RateLimited(c) \/ Accepted(c))
                /\ ~(TakeLock(c) \/ BackOff(c)) /\ ~Send(c)
      <3>1. /\ \A f \in Crawls : f # c => crawl'[f] = crawl[f]
            /\ crawl'[c].pc \notin HoldsPermit
        BY <2>1, <2>4, <2>10, Leaves DEF Work, Answered
      <3> QED BY <2>1, <3>1
    <2> QED BY <2>7, <2>8, <2>9, <2>10
  <1>2. Spec => [][Spaced]_vars
    BY <1>1, CrawlerInvariant, PTL DEF Spec
  <1> QED BY <1>2 DEF StartsAreSpaced

\* Every request is of a URL that the preflight approved for this crawl.
THEOREM RequestsAreApproved == Spec => []RequestsWereApproved
  <1>1. IInv => RequestsWereApproved
    BY DEF IInv, AInv, CrawlsSound, Local, HopSound, Hopping, RequestsWereApproved
  <1> QED BY <1>1, CrawlerInvariant, PTL

\* Every page of a crawl is of a reviewed origin.
THEOREM PagesRestOnReviews == Spec => []PagesAreReviewed
  <1>1. IInv => PagesAreReviewed
    BY DEF IInv, AInv, CrawlsSound, Local, PagesSound, PagesAreReviewed
  <1> QED BY <1>1, CrawlerInvariant, PTL

\* Only links of the first page's domain are followed.
THEOREM LinksStayOnSite == Spec => []QueueStaysOnSite
  <1>1. IInv => QueueStaysOnSite
    BY DEF IInv, AInv, CrawlsSound, Local, QueueSound, QueueStaysOnSite
  <1> QED BY <1>1, CrawlerInvariant, PTL

\* The limits on pages and targets hold, and no target is asked for twice.
THEOREM CrawlsAreBounded == Spec => []CrawlStaysBounded
  <1>1. IInv => CrawlStaysBounded
    BY DEF IInv, AInv, CrawlsSound, Local, PagesSound, QueueSound, CrawlStaysBounded
  <1> QED BY <1>1, CrawlerInvariant, PTL
=============================================================================
