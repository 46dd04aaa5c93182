------------------------ MODULE ResearchOrchestrator ------------------------
(***************************************************************************)
(* One research run: ResearchOrchestrator.run and _process_candidate       *)
(* (app/services/research_orchestrator.py).  Each action is the code from  *)
(* one call of a provider, repository or callback to the next, with every  *)
(* call that changes state.  The providers, the network and the database   *)
(* are nondeterministic: each may answer or raise at any call.             *)
(*                                                                         *)
(* Abstracted: wording of warnings and events (only whether a warning was  *)
(* recorded, and the latest stage), scores (any order of the scored        *)
(* companies), page contents (any facts of Facts).                         *)
(***************************************************************************)
EXTENDS EntityResolution

CONSTANTS
    Candidates,       \* URLs a search may return, as str(candidate.url)
    Websites,         \* normalized official websites, "https://a.com"
    Website,          \* [Candidates -> Websites]: assessment.website_url, normalized
    Stored,           \* [URLs -> URLs]: str(HttpUrl(url)), "https://a.com/" for a website
    Facts,            \* what extraction or enrichment may say of a company
    Providers,        \* how many enrichment providers are configured
    Formats,          \* how many export formats are requested
    ResultCount,      \* request.result_count
    Budget,           \* search_budget
    Queries,          \* how many queries the planner returns
    LastOffset,       \* largest offset a search may use (9)
    PageSize,         \* search_page_size
    RetainSkipped,    \* search_result_retention_allowed
    CallbackOutcomes, \* {FALSE}, or BOOLEAN when the progress callback may raise
    None              \* no website, no company, no failure

\* A company as the pipeline may hold it.
Profiles == ProfilesOver(Facts)

ASSUME OrchestratorAssumption ==
    /\ Facts \subseteq Profiles
    /\ Website \in [Candidates -> Websites]
    /\ Candidates \cup Websites \subseteq DOMAIN Stored
    /\ \A url \in Candidates : Stored[url] = url
    /\ \A site \in Websites : Stored[site] \notin Websites
    /\ CallbackOutcomes \in SUBSET BOOLEAN
    /\ RetainSkipped \in BOOLEAN
    /\ ResultCount \in Nat /\ Budget \in Nat /\ Queries \in Nat \ {0}
    /\ Providers \in Nat /\ Formats \in Nat /\ LastOffset \in Nat /\ PageSize \in Nat
    /\ None \notin Websites /\ None \notin Facts
    /\ None \notin {"running", "completed", "failed"}

VARIABLES
    phase,      \* where run() is; "returned" and "cancelled" are its ends
    stage,      \* stage of the last event
    warned,     \* warnings # []
    failure,    \* what the "except Exception" of run() caught
    requests,   \* search_requests_used
    batch,      \* candidates of the latest search still to process
    site,       \* website in the pipeline
    company,    \* facts of the company being enriched
    asked,      \* enrichment providers asked about it
    seen,       \* seen_websites
    drafts,     \* drafts: facts of each verified company and its website
    skipped,    \* skipped: the URL each report was made for, in order
    unique,     \* the companies the drafts resolve to, once the search is over
    ranked,     \* ranked_records
    saved,      \* how many of ranked were handed to the company repository
    exports,    \* export formats tried, and those that succeeded
    row,        \* research_runs.status of this run, None before the INSERT
    companyRows,\* ids of the company rows of this run
    skippedRows \* positions in skipped of the skipped-source rows of this run

control == <<phase, stage, warned, failure>>
search  == <<requests, batch>>
sites   == <<site, company, asked, seen, drafts>>
results == <<unique, ranked, saved, exports>>
store   == <<row, companyRows, skippedRows>>
vars    == <<control, search, sites, skipped, results, store>>

Ends         == {"returned", "cancelled"}
SitePhases   == {"compliance", "crawling", "extracting", "enriching"}
Phases       == {"planning", "searching", "validating", "searched", "scoring",
                 "persisting", "exporting"} \cup SitePhases \cup Ends
FinalStages  == {"completed", "completed_with_warnings", "failed"}
Failures     == {"store", "planning", "policy", "extraction", "progress", "identity"}

Entities == [i \in DOMAIN drafts |-> AsDraft(i, drafts[i].facts)]

-----------------------------------------------------------------------------
\* _emit: the event is stored, then the callback may raise, which is a warning.
Emit(newStage, alreadyWarned) ==
    /\ stage' = newStage
    /\ \E raised \in CallbackOutcomes : warned' = (alreadyWarned \/ raised)

\* The "except Exception" of run(): status FAILED, a best-effort UPDATE (an
\* upsert, so it also stores a run whose INSERT failed), the FAILED event.
FailRun(kind, storedRow) ==
    /\ phase' = "returned"
    /\ failure' = kind
    /\ stage' = "failed"
    /\ warned' = TRUE
    /\ row' \in {storedRow, "failed"}
    /\ UNCHANGED <<companyRows, skippedRows, skipped, sites, results>>

\* _skip: a report is made unless an earlier report has this very URL; the
\* stored URL of a website differs from the URL asked for by its final slash.
Skip(url) ==
    IF \E i \in DOMAIN skipped : Stored[skipped[i]] = url
    THEN UNCHANGED <<skipped, skippedRows, warned>>
    ELSE /\ skipped' = Append(skipped, url)
         /\ warned' = TRUE
         /\ \/ skippedRows' = skippedRows
            \/ RetainSkipped /\ skippedRows' = skippedRows \cup {Len(skipped) + 1}

Init ==
    /\ phase = "planning" /\ stage = "planning" /\ failure = None
    /\ warned \in CallbackOutcomes
    /\ requests = 0 /\ batch = <<>>
    /\ site = None /\ company = None /\ asked = 0 /\ seen = {}
    /\ drafts = <<>> /\ skipped = <<>> /\ unique = <<>> /\ ranked = <<>>
    /\ saved = 0 /\ exports = [tried |-> 0, made |-> 0]
    /\ row = None /\ companyRows = {} /\ skippedRows = {}

-----------------------------------------------------------------------------
\* run(): the INSERT of the run, the query plan, the SEARCHING event.
Begin ==
    /\ phase = "planning"
    /\ phase' = "searching"
    /\ row' = "running"
    /\ Emit("searching", warned)
    /\ UNCHANGED <<failure, search, sites, skipped, results, companyRows, skippedRows>>

\* The INSERT or QueryPlanner.plan raises.
BeginRaises ==
    /\ phase = "planning"
    /\ \/ FailRun("store", None)
       \/ FailRun("planning", "running")
    /\ UNCHANGED search

\* Mutant: one request too many.
CanSearchOnceMore == requests <= Budget /\ requests \div Queries <= LastOffset

CanSearch == requests < Budget /\ requests \div Queries <= LastOffset

SearchRaises ==
    /\ phase = "searching" /\ CanSearch
    /\ requests' = requests + 1
    /\ warned' = TRUE
    /\ UNCHANGED <<phase, stage, failure, batch, sites, skipped, results, store>>

\* Mutant: an answered request is not counted.
SearchAnswersUncounted(answer) ==
    /\ phase = "searching" /\ CanSearch
    /\ Len(drafts) <= ResultCount
    /\ batch' = answer
    /\ phase' = "validating"
    /\ Emit("validating", warned)
    /\ UNCHANGED <<failure, requests, sites, skipped, results, store>>

\* The VALIDATING event counts the drafts against result_count before they are
\* deduplicated; ResearchProgressEvent refuses a count above the total.
SearchAnswers(answer) ==
    /\ phase = "searching" /\ CanSearch
    /\ Len(drafts) <= ResultCount
    /\ requests' = requests + 1
    /\ batch' = answer
    /\ phase' = "validating"
    /\ Emit("validating", warned)
    /\ UNCHANGED <<failure, sites, skipped, results, store>>

ProgressEventRaises ==
    /\ phase = "searching" /\ CanSearch
    /\ Len(drafts) > ResultCount
    /\ requests' = requests + 1
    /\ FailRun("progress", row)
    /\ UNCHANGED batch

\* The budget is spent, or the pagination limit ends the loop with a warning.
SearchExhausted ==
    /\ phase = "searching" /\ ~CanSearch
    /\ phase' = "searched"
    /\ warned' = (warned \/ requests < Budget)
    /\ UNCHANGED <<stage, failure, search, sites, skipped, results, store>>

\* After a batch: enough distinct companies end the search.
BatchDone ==
    LET current == Deduplicate(Entities) IN
    /\ phase = "validating" /\ batch = <<>>
    /\ ~current.raised
    /\ phase' = IF Len(current.unique) >= ResultCount THEN "searched" ELSE "searching"
    /\ UNCHANGED <<stage, warned, failure, search, sites, skipped, results, store>>

\* normalize_company_name raises inside _deduplicate.
DeduplicationRaises ==
    /\ phase = "validating" /\ batch = <<>>
    /\ Deduplicate(Entities).raised
    /\ FailRun("identity", row)
    /\ UNCHANGED search

-----------------------------------------------------------------------------
\* _process_candidate, before the website is known: the URL cannot be
\* normalized, the source policy rejects it, or it is not an official website.
RejectCandidate ==
    /\ phase = "validating" /\ batch # <<>>
    /\ batch' = Tail(batch)
    /\ Skip(Head(batch))
    /\ UNCHANGED <<phase, stage, failure, requests, sites, results, row, companyRows>>

\* The policy files are read on first use, so before any website is admitted;
\* an unreadable one raises.
PolicyRaises ==
    /\ phase = "validating" /\ batch # <<>> /\ seen = {}
    /\ FailRun("policy", row)
    /\ UNCHANGED search

IgnoreSeenWebsite ==
    /\ phase = "validating" /\ batch # <<>>
    /\ Website[Head(batch)] \in seen
    /\ batch' = Tail(batch)
    /\ UNCHANGED <<control, requests, sites, skipped, results, store>>

\* Mutant: the website is not remembered.
AdmitWebsiteUnseen ==
    /\ phase = "validating" /\ batch # <<>>
    /\ Website[Head(batch)] \notin seen
    /\ batch' = Tail(batch)
    /\ site' = Website[Head(batch)]
    /\ phase' = "compliance"
    /\ Emit("checking_compliance", warned)
    /\ UNCHANGED <<failure, requests, company, asked, seen, drafts, skipped, results, store>>

AdmitWebsite ==
    /\ phase = "validating" /\ batch # <<>>
    /\ Website[Head(batch)] \notin seen
    /\ batch' = Tail(batch)
    /\ site' = Website[Head(batch)]
    /\ seen' = seen \cup {Website[Head(batch)]}
    /\ phase' = "compliance"
    /\ Emit("checking_compliance", warned)
    /\ UNCHANGED <<failure, requests, company, asked, drafts, skipped, results, store>>

\* The website is reported and left: the preflight raises or does not approve,
\* the crawl raises, the extraction raises, is rejected or is not verified.
DeclineWebsite ==
    /\ phase \in SitePhases \ {"enriching"}
    /\ Skip(site)
    /\ phase' = "validating"
    /\ site' = None
    /\ UNCHANGED <<stage, failure, search, company, asked, seen, drafts, results,
                   row, companyRows>>

ApproveWebsite ==
    /\ phase = "compliance"
    /\ phase' = "crawling"
    /\ Emit("crawling", warned)
    /\ UNCHANGED <<failure, search, sites, skipped, results, store>>

CrawlWebsite ==
    /\ phase = "crawling"
    /\ phase' = "extracting"
    /\ \E crawlWarned \in BOOLEAN : Emit("extracting", warned \/ crawlWarned)
    /\ UNCHANGED <<failure, search, sites, skipped, results, store>>

VerifyCompany(facts) ==
    /\ phase = "extracting"
    /\ phase' = "enriching"
    /\ company' = facts
    /\ asked' = 0
    /\ IF Providers > 0 THEN Emit("enriching", warned) ELSE UNCHANGED <<stage, warned>>
    /\ UNCHANGED <<failure, search, site, seen, drafts, skipped, results, store>>

\* _company_from_extraction raises: a core value is not a string, or the record
\* does not validate.  No handler of _process_candidate covers it.
CompanyRaises ==
    /\ phase = "extracting"
    /\ FailRun("extraction", row)
    /\ UNCHANGED search

\* A provider may not change the verified name or website.
AdoptEnrichment(answer) ==
    /\ phase = "enriching" /\ asked < Providers
    /\ answer.name = company.name /\ answer.website = company.website
    /\ company' = [company EXCEPT !.ids = @ \cup answer.ids]
    /\ asked' = asked + 1
    /\ \E providerWarned \in BOOLEAN : warned' = (warned \/ providerWarned)
    /\ UNCHANGED <<phase, stage, failure, search, site, seen, drafts, skipped, results, store>>

\* The provider raises, changes the identity, or returns a field without evidence.
IgnoreEnrichment ==
    /\ phase = "enriching" /\ asked < Providers
    /\ asked' = asked + 1
    /\ warned' = TRUE
    /\ UNCHANGED <<phase, stage, failure, search, site, company, seen, drafts,
                   skipped, results, store>>

AppendDraft ==
    /\ phase = "enriching" /\ asked = Providers
    /\ drafts' = Append(drafts, [facts |-> company, site |-> site])
    /\ phase' = "validating"
    /\ site' = None
    /\ company' = None
    /\ UNCHANGED <<stage, warned, failure, search, asked, seen, skipped, results, store>>

-----------------------------------------------------------------------------
\* The final _deduplicate: of the drafts the last batch resolved, so it does
\* not raise.  Doubtful pairs and a shortfall are warnings.
ResolveDrafts ==
    LET final == Deduplicate(Entities) IN
    /\ phase = "searched"
    /\ unique' = final.unique
    /\ phase' = "scoring"
    /\ Emit("scoring",
            warned \/ final.reviews > 0 \/ Len(final.unique) < ResultCount)
    /\ UNCHANGED <<failure, search, sites, skipped, ranked, saved, exports, store>>

\* Scoring may raise for any company; the others are sorted and cut.
RankCompanies(order) ==
    LET scored == [i \in DOMAIN order |-> unique[order[i]]] IN
    /\ phase = "scoring"
    /\ ranked' = SubSeq(scored, 1, Min({Len(scored), ResultCount}))
    /\ phase' = "persisting"
    /\ warned' = (warned \/ Len(order) < Len(unique))
    /\ UNCHANGED <<stage, failure, search, sites, skipped, unique, saved, exports, store>>

\* Mutant: a company that could not be stored is not mentioned.
PersistCompanySilently ==
    /\ phase = "persisting" /\ saved < Len(ranked)
    /\ saved' = saved + 1
    /\ companyRows' \in {companyRows, companyRows \cup {ranked[saved + 1].id}}
    /\ UNCHANGED <<control, search, sites, skipped, unique, ranked, exports, row, skippedRows>>

PersistCompany ==
    /\ phase = "persisting" /\ saved < Len(ranked)
    /\ saved' = saved + 1
    /\ \/ companyRows' = companyRows \cup {ranked[saved + 1].id} /\ warned' = warned
       \/ companyRows' = companyRows /\ warned' = TRUE
    /\ UNCHANGED <<phase, stage, failure, search, sites, skipped, unique, ranked,
                   exports, row, skippedRows>>

BeginExports ==
    /\ phase = "persisting" /\ saved = Len(ranked)
    /\ phase' = "exporting"
    /\ IF Formats > 0 THEN Emit("exporting", warned) ELSE UNCHANGED <<stage, warned>>
    /\ UNCHANGED <<failure, search, sites, skipped, results, store>>

\* One format: no exporter has that name, or it raises, or it delivers.
ExportRecords ==
    /\ phase = "exporting" /\ exports.tried < Formats
    /\ \E delivered \in {0, 1} :
         /\ exports' = [tried |-> exports.tried + 1, made |-> exports.made + delivered]
         /\ warned' = (warned \/ delivered = 0)
    /\ UNCHANGED <<phase, stage, failure, search, sites, skipped, unique, ranked, saved, store>>

\* Mutant: the terminal stage chosen before the UPDATE is kept when it fails.
CompleteTooEarly ==
    /\ phase = "exporting" /\ exports.tried = Formats
    /\ phase' = "returned"
    /\ row' \in {row, "completed"}
    /\ Emit(IF warned THEN "completed_with_warnings" ELSE "completed", warned)
    /\ UNCHANGED <<failure, search, sites, skipped, results, companyRows, skippedRows>>

\* The terminal stage, the UPDATE of the run and the terminal event.
Complete ==
    /\ phase = "exporting" /\ exports.tried = Formats
    /\ phase' = "returned"
    /\ \E stored \in BOOLEAN :
         /\ row' = IF stored THEN "completed" ELSE row
         /\ Emit(IF warned \/ ~stored THEN "completed_with_warnings" ELSE "completed",
                 warned \/ ~stored)
    /\ UNCHANGED <<failure, search, sites, skipped, results, companyRows, skippedRows>>

\* Mutant: the repository is awaited while the companies are stored.
AwaitingRepository == phase \in {"compliance", "persisting"}

\* CancelledError reaches run() while it awaits a provider: nothing catches it.
\* (The callback of the API does not suspend.)
Awaiting ==
    \/ phase = "searching" /\ CanSearch
    \/ phase \in {"compliance", "crawling", "extracting"}
    \/ phase = "enriching" /\ asked < Providers
    \/ phase = "exporting" /\ exports.tried < Formats

Cancel ==
    /\ Awaiting
    /\ phase' = "cancelled"
    /\ UNCHANGED <<stage, warned, failure, search, sites, skipped, results, store>>

-----------------------------------------------------------------------------
SearchStep ==
    \/ Begin \/ BeginRaises
    \/ SearchRaises
    \/ \E answer \in BoundedSeq(Candidates, PageSize) : SearchAnswers(answer)
    \/ ProgressEventRaises \/ SearchExhausted \/ BatchDone \/ DeduplicationRaises

CandidateStep ==
    \/ RejectCandidate \/ PolicyRaises \/ IgnoreSeenWebsite \/ AdmitWebsite
    \/ DeclineWebsite \/ ApproveWebsite \/ CrawlWebsite
    \/ \E facts \in Facts : VerifyCompany(facts) \/ AdoptEnrichment(facts)
    \/ CompanyRaises \/ IgnoreEnrichment \/ AppendDraft

ResultStep ==
    \/ ResolveDrafts
    \/ \E chosen \in SUBSET DOMAIN unique :
         \E order \in SetToSeqs(chosen) : RankCompanies(order)
    \/ PersistCompany \/ BeginExports \/ ExportRecords \/ Complete

Next == SearchStep \/ CandidateStep \/ ResultStep \/ Cancel

\* Every call run() awaits has a timeout, so the run is never stuck in one; a
\* cancellation need not come.
Fairness == WF_vars(SearchStep \/ CandidateStep \/ ResultStep)

Spec == Init /\ [][Next]_vars /\ Fairness
-----------------------------------------------------------------------------
TypeOK ==
    /\ phase \in Phases /\ failure \in Failures \cup {None}
    /\ stage \in FinalStages \cup SitePhases \cup
         {"planning", "searching", "validating", "checking_compliance", "scoring", "exporting"}
    /\ warned \in BOOLEAN
    /\ requests \in 0..Budget /\ batch \in Seq(Candidates)
    /\ site \in Websites \cup {None} /\ seen \subseteq Websites
    /\ company \in Profiles \cup {None}
    /\ drafts \in Seq([facts : Profiles, site : Websites])
    /\ asked \in 0..Providers /\ saved \in Nat
    /\ exports \in [tried : 0..Formats, made : 0..Formats]
    /\ skipped \in Seq(Candidates \cup Websites)
    /\ row \in {None, "running", "completed", "failed"}
    /\ skippedRows \subseteq DOMAIN skipped

\* Every website the run admitted is, exactly once, in the pipeline, a verified
\* draft or a skipped-source report: none is lost and none is decided twice.
Drafted(website)  == {i \in DOMAIN drafts : drafts[i].site = website}
Reported(website) == {i \in DOMAIN skipped : skipped[i] = website}

Decisions(website) ==
    Cardinality(Drafted(website)) + Cardinality(Reported(website))
      + (IF site = website THEN 1 ELSE 0)

EveryWebsiteAccountedFor ==
    \A website \in Websites :
        Decisions(website) = IF website \in seen THEN 1 ELSE 0

\* The run row never says more than the result the caller gets: a stored
\* "completed" or "failed" is the returned one, and a row still "running" after
\* the return is never announced as a clean completion.
RowAgreesWithResult ==
    /\ row = "completed" => phase = "returned" /\ stage # "failed"
    /\ row = "failed" => phase = "returned" /\ stage = "failed"
    /\ phase = "returned" <=> stage \in FinalStages
    /\ phase = "returned" /\ row \in {"running", None} => stage # "completed"

\* "completed" without warnings means that nothing was lost on the way: the
\* requested number of companies, each in the database, no source skipped,
\* every export delivered, the run row up to date.
CleanCompletionLosesNothing ==
    stage = "completed" =>
        /\ Len(ranked) = ResultCount
        /\ companyRows = {ranked[i].id : i \in DOMAIN ranked}
        /\ skipped = <<>>
        /\ exports.made = Formats
        /\ row = "completed"

\* The published companies are distinct: no two of them were resolved from a
\* common draft, they have different ids, and only they reach the database.
PublishedCompaniesAreDistinct ==
    /\ \A i, j \in DOMAIN ranked : i # j =>
         /\ ranked[i].members \cap ranked[j].members = {}
         /\ ranked[i].id # ranked[j].id
    /\ Len(ranked) <= ResultCount
    /\ companyRows \subseteq {ranked[i].id : i \in 1..saved}

\* Company and skipped-source rows refer to the run row (a foreign key both
\* databases enforce), so they exist only after its INSERT succeeded.
RowsHaveARun == companyRows \cup skippedRows # {} => row # None

\* Candidate-derived URLs reach the database only under the retention setting.
RetentionRespected == ~RetainSkipped => skippedRows = {}

\* A cancellation never splits the persistence of the results: the repository
\* calls do not suspend the run.
CancellationSplitsNoPersistence == phase = "cancelled" => saved \in {0, Len(ranked)}

\* How the run ended, as its caller sees it.
Outcome ==
    CASE phase = "planning"  -> "pending"
      [] phase = "cancelled" -> "cancelled"
      [] phase = "returned"  -> IF stage = "failed" THEN "failed" ELSE "completed"
      [] OTHER               -> "working"

\* A run keeps the promises of RunLifecycle to the API service, among them that
\* a failed run has published nothing and that every run ends.
Lifecycle ==
    INSTANCE RunLifecycle WITH outcome <- Outcome, published <- companyRows # {}

KeepsLifecycle == Lifecycle!Spec

\* README: "Failures are isolated per domain, allowing a run to complete with
\* partial results": a malformed company does not end a run that has others.
FailuresIsolatedPerDomain == failure = "extraction" => drafts = <<>>

\* README: "Search continues until the requested site-verified record count is
\* reached or RESEARCH_SEARCH_BUDGET is exhausted": drafts of one company are
\* no reason to stop.
SearchIsNotCutShort == failure # "progress"

\* _skip: "Create and persist one skipped-source report": no URL has two.
OneReportPerSource ==
    \A i, j \in DOMAIN skipped : i # j => Stored[skipped[i]] # Stored[skipped[j]]
=============================================================================
