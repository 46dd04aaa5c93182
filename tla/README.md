# Formal model of the AI Web Research & Data Extraction Agent

TLA+ modules that model the agent's core, TLC configurations that check them on
small instances, and TLAPS proofs of the theorems about them. Paths are those
of the repository (`src/app/...`).

```
tlc -config Orchestrator.cfg MCResearchOrchestrator     # one run of the checker
tlapm ResearchApiProofs.tla                             # the proofs of one module
```

## 1. The system

A client submits a brief to the API. A background task searches, checks each
website's policies, crawls it, extracts and enriches one company, resolves
duplicates, scores, stores and optionally exports. The client polls.

```
UI --poll--> API routes --> ResearchRunApplicationService --task--> ResearchOrchestrator
                                 |  _states, _tasks                   |
                                 v                                    v
                          repositories (SQLite / PostgreSQL) <--- add / update
   ResearchOrchestrator --> search provider, source policy, preflight, crawler,
                            extractor, enrichment, deduplication, scoring, exporters
   domain review CLI --> policy YAML files --> source policy
```

### Inventory

| Component (code) | State | Operations | What is hard | What makes it correct |
|---|---|---|---|---|
| Research orchestrator (`services/research_orchestrator.py`) | drafts, skipped reports, seen websites, warnings, events; rows of the run | `run`, `_process_candidate`, `_skip`, `_emit`, `_deduplicate` | every call may raise or be cancelled; partial results; two final stores | websites decided once; row, result and warnings agree; a failed run publishes nothing; it ends |
| Entity resolution (`services/company_deduplication.py`) | none | `resolve`, `_merge_records` | order of signals; chains of merges; order of drafts | partition; conflicting identifiers apart; no merge by name |
| Research API service (`services/research_api.py`) | `_states` cache, `_tasks`; reads and writes run rows | `submit`, `get_run`, `get_results`, `export_google_sheets`, `shutdown`, `_execute`, `_get_state`, pruning | polls against tasks, eviction, crash, restart, lost updates, shutdown | a live run is never taken for an orphan; terminal rows final; every run ends |
| Repositories, database (`repositories/sqlalchemy.py`, `core/database.py`) | rows, foreign keys | `add`, `update` (upsert), `get`, `list_for_run` | failed commits | no dependent row without its run |
| Compliance preflight (`services/compliance_preflight.py`) | approved targets and origins, prefetched pages | `check`, `take_prefetched_content` | memory of approvals that never expires; one-use pages under two spellings of a URL | no fetch without approval; a page is handed over once |
| Robots policy (`services/robots_policy.py`) | cache of rules per origin | `check`, `_get_policy` | concurrent misses; late answers; TTL | an unavailable robots.txt never allows; longest rule wins |
| Terms scanner (`services/terms_policy.py`) | none | `discover_links`, `scan_document` | text only | - |
| Source policy (`services/source_policy.py`) | snapshot of three files | `evaluate`, `reload` | read while the CLI writes | blocked beats approved; most specific rule |
| Domain review, CLI (`services/domain_review.py`, `cli/main.py`) | three YAML files | `inspect`, `record_decision` | lost updates, crash between replaces | every rule change has its audit record |
| Crawler (`providers/async_crawler.py`) | queue, visited, permits and pacing per domain | `crawl`, `_fetch_with_redirects`, `_request` | permits across awaits, redirects, delays | every hop approved; at most two connections per domain; bounded |
| Outbound safety (`services/outbound_safety.py`) | none | URL and address predicates | DNS | - |
| Content extraction (`html_content_extractor.py`) | none | `extract` | text only | - |
| Page selection (`page_selection.py`) | none | `discover`, `select` | bonuses against categories; several links to one page; ties | no page is left out for one of a weaker kind; no page is lost between ranking and lookup |
| Structured extraction, LLM (`structured_data_extraction.py`, `http_llm.py`) | none; retries of one call | `extract`, merge of two sources | sources that contradict each other; a model that answers anything | the site prevails; no fact without evidence |
| Enrichment providers (`opencorporates.py`, `wikidata.py`, `geonames.py`) | GeoNames: two caches and one lock for all runs | `enrich` | retries and cancellation under the lock; ambiguous answers | no identifier without its organization; no gap without a warning; the lock is given back |
| Search providers (`brave_search.py`, `tavily_search.py`) | none | `search` | retries, quota | bounded attempts |
| Relevance scoring (`relevance_scoring.py`) | none | `score` | bonuses and deductions; inferred facts | components within their bounds, each withheld point explained; inference earns little |
| Google Sheets exporter (`exporters/google_sheets.py`) | a remote spreadsheet | `export` | failure between clear and write; retried, lost and late requests; exports that overlap | an undisturbed success means the sheet holds the run |
| Routes, UI, settings, migrations, demos | none that outlives a request | - | - | not modelled |

`PROJECT.json` lists each component with its status, and under `hazards` every
line where something can go wrong that a test would hardly reach, with the
property that covers it, or a note on what is proved or shown instead.

## 2. Modules

| Module | Models | Depends on |
|---|---|---|
| `EntityResolution` | `resolve`, `_merge_records`, `_deduplicate` as operators | - |
| `Deduplication` | the drafts of a run and the companies they resolve to | `EntityResolution` |
| `RunLifecycle` | abstract: what one call of `ResearchOrchestrator.run` promises | - |
| `ResearchOrchestrator` | one run, call by call; implements `RunLifecycle` | `EntityResolution` |
| `ResearchApi` | background runs, cache, restarts; its workflow is any that keeps `RunLifecycle` | - |
| `CompliancePreflight` | concurrent checks, the memory of approvals, the pages kept for the crawler | - |
| `RobotsCache` | the cache of robots.txt answers and the fetches that fill it | - |
| `WebsiteCrawler` | concurrent crawls composed with the preflight they share | `CompliancePreflight` |
| `DomainReview` | the review commands on the three policy files, and what a rule set matches | - |
| `SheetsExport` | concurrent exports, request by request, and the spreadsheets they meet in | - |
| `Enrichment` | companies going through the chain of providers, and the cache of GeoNames | - |
| `PageSelection` | merge, classification, scoring and choice of pages, as operators | - |
| `RelevanceScoring` | the seven components of a score, as operators | - |
| `CompanyAssessment` | one website from its crawled pages to a score: selection, extraction, model, verification, scoring | `PageSelection`, `RelevanceScoring` |
| `ResearchOrchestratorProofs`, `ResearchApiProofs`, `CompliancePreflightProofs`, `WebsiteCrawlerProofs`, `SitePolicyProofs` (for `RobotsCache` and `DomainReview`), `SheetsExportProofs`, `EnrichmentProofs`, `CompanyAssessmentProofs` | theorems; the first also those of `Deduplication` | TLAPS |
| `MC*` | constants for TLC | |

**EntityResolution.** An entity keeps what resolution looks at: name, the two
registrable domains (website, canonical URL), identifiers, confidence of name
and website, and the audit data of the last merge. `Resolve` is the sequence of
signals of `resolve`; text similarity is a given relation `Resembling`, and a
name made only of legal suffixes (for which `normalize_company_name` raises) is
the value `LegalOnly`. `members` is a history field. Name comparison is
reflexive here, as in the code. Extracted fields other than the core ones are
left out.

**ResearchOrchestrator.** `phase` is the position in `run`, `stage` the latest
event, `warned` whether `warnings` is non-empty: this is all the code's
decisions ask of it. An action is the code from one provider, repository or
callback call to the next; what each call returns or raises is free. `RankCompanies`
lets any subset be scored, in any order. `FailRun` is the `except Exception` of
`run`. `Cancel` is possible exactly where the run awaits a provider: repository
calls are synchronous, and the callback of the API service does not suspend.
`DEDUPLICATING` and `SCORING` are one step, since nothing is awaited or stored
in between.

**ResearchApi.** One process with one event loop, so the code between two awaits
is atomic, unless a crash may cut it after a commit. Two such stretches are
modelled step by step, with `busy` holding the loop: the end of a run commits the
companies, then the row, and only when the workflow has returned is the view set
(`BeginSaving`, `SaveCompanies`, `StoreCompleted`, `Finish`; `StoreFailed` or
`StartFails` and then `Finish` when the workflow fails), and a poll of an orphan
stores its failure before it caches the view (`MarkOrphan`, `ShowOrphan`).
`outcome` is the status that is stored and not yet shown. Where the view is set
first (`WorkflowRaises`, `CancelRun`), a crash before the store leaves what a
failed store leaves, so one step does both. `_states` is
`states` with the insertion order `older`; `shown` is a history of the latest
terminal status a client could have seen. `Reload` is `_get_state` for a run that
ended and is not cached. More than one API process on one database is outside the
documented deployment and not modelled.

**CompliancePreflight.** `call[c]` is the check of one caller: its stage is the
await it is at, `pending` the terms documents still to read, `manual` whether a
signal was found. The three sets are the attributes of the service. The verdict of
the source policy, the terms links of a page and the documents with a signal
are constants; robots answers and failed fetches are free at each await.

**RobotsCache.** Time is explicit here, because the property is about age:
`published` is the history of what each site said, and a fetch returns what is
published when it is answered. The lock of the cache is never held across an
await, so it is not a variable.

**WebsiteCrawler.** It instantiates `CompliancePreflight` with the crawls as
callers, and its actions call the other module's (`Begin`, `TakePrefetched`,
`Cancel`), so the memory of approvals is really shared. `crawl[c]` holds the
locals of `crawl` and `_fetch_with_redirects`, `site` the `_DomainState` of each
domain. Delays count down (`wait`, `pace`) instead of comparing clock values.
`quiet` is history. The end of a check and its use by the crawl are two steps
although nothing runs between them in the code: the model allows more than the
code does. A retry-after is any of the bounded values. What the address check,
the challenge patterns and the size limits say is free.

**DomainReview.** `review[r]` is the command of one reviewer's process: the
position in `record_decision`, the documents it has read or changed, and how many
it has replaced. `Abort` is an unreadable file, a failed write or the end of
the process, between any two reads and replacements. A rule set is the pair of
`DomainRuleSet`; `Matches` is `_match_rule`, with the relation between host names
(`Bare`, `Ancestors`) as constants. The inspection before the confirmation reads
only, so it is the choice of the domain. Reviewer, note and snapshot hash are
left out of the records. `unfinished` is a ghost variable: the domains whose
latest command has replaced a file and not the last one.

**SheetsExport.** `export[e]` is the request one call of `export` is at, with its
attempt. The three tabs are cleared and written by the same two calls, so `rows`
is the content of one of them, each row named by its author. What Google's
service does with a request is external, and as unkind as a network allows:
executed and answered, executed and not answered, refused, or kept in `late` and
executed at any later time. `alone` is history: whether anybody else, or a late
request, changed the tab since this export cleared it. An export already
configured for a spreadsheet may find it with any of the tabs and with old rows.

**Enrichment.** Several companies, of any runs, are enriched at the same time,
since `dependencies.py` builds the providers once for the process. `at[c]` is the
place in the chain, `sent[c]` the attempts of the request in flight, `lookup[c]`
what GeoNames is to be asked next. `lock` and `cache` are the attributes of
`GeoNamesProvider`; an expired entry is removed (`Expire`). Answers are free;
which failures are worth another attempt differs per provider (`Retried`).
Fields nothing depends on are one value. Companies come from an accepted
extraction, so they have a website and evidence; the branches for companies
without one (Wikidata's missing website, the orchestrator's rejections at lines
671-688) cannot be reached with these providers and are left out.

**PageSelection, RelevanceScoring, CompanyAssessment.** A text is what matching
finds in it: the page types it names, the terms of the query it holds, its
length. A page is named by its canonical URL, under which the orchestrator looks
pages up; `RankedAs` is the URL the selector ranks in its place, which has lost its
query, so a page fetched with a query is ranked and not found. The selector's bonus
for a place in the navigation is left out: the orchestrator, its only caller, gives
no places. A value is a set of words, the word of a URL the number of its page.
`Unusual` are values that are not text, as a JSON-LD document may hold: for a
requested `website_url` the code admits a number, and so does the model.
`MaxServices` is the limit of twenty services; which services come last in a
signal that reaches the limit is free.
`Sources` gives the authority of each source; `Resolve` is `_resolve_candidates`
with its three special cases. The response of the model is any of `Answers`;
whether its words occur in the cited texts is a mark on each field (`grounded`).
`MalformedResponse` and `SendAgain` are the two nested retry loops. Three things
the code does that a reader may not expect, and that the model therefore does:
a location is scored by the first field that says anything, so an inferred one can
hide an explicit one behind it; equally long URLs are settled by the order of the
pages, and so are the services that are cut; an explicit field of the model that is not one of the core ones is kept
without a look for its words in the text.

## 3. What TLC checks

| Run | Shows | Bounds |
|---|---|---|
| `deduplication` | the pass partitions the drafts; no company holds conflicting identifiers or an uncorroborated draft; adding drafts never splits a company | five drafts over a set of facts with shared domains, shared, conflicting, ambiguous and malformed identifiers, resembling names: chains of three merges occur |
| `orchestrator` | websites accounted for, row against result, clean completion, published companies distinct, a cancellation splits no ranking, refinement of `RunLifecycle` with liveness | three websites that may be one, two or three companies, each found up to six times, two wanted, three requests of up to two results, one provider, one export format, retention off; a callback that may raise |
| `api` | no live run taken for an orphan; terminal rows final, and in agreement with what clients are and were told; eviction; every submitted run ends | three runs, cache of two, two restarts |
| `preflight` | only reviewed pages are remembered, approvals rest on them | two callers; an origin with and one without a signal, a document beyond the limit, one of an unreviewed domain |
| `robots` | no approval rests on rules older than the lifetime | two checks of one origin that opens and closes a path, lifetime of two in four steps of time |
| `crawler` | approval of every hop, permits and lock conserved | two crawls of one website, three pages, three queued, one redirect, two websites and a domain that is not approved |
| `crawler_pacing` | starts spaced, crawls end | three crawls of one page, two permits, a delay of two, retry-after up to two |
| `domain_review` | rules and audit history agree, approvals in force, no rule in force without its command | one reviewer whose commands may die anywhere; a host with both names and a subdomain, blocked recursively at first, another listed in both files; up to two complete commands, any number of interrupted ones |
| `sheets` | an undisturbed success left exactly its rows, in the spreadsheet it reports; exports end | two exports of three and two rows, each to a shared spreadsheet or to one of its own; retried, lost and late requests |
| `enrichment` | identifiers corroborated, silence means confirmation, no repeated lookup, enrichments end | two companies, one with a country and a city and one with neither, all three providers, two countries, two cities |
| `assessment` | best kinds of pages kept, evidence selected, the site prevails, scores bounded and explained, inference earns little | six pages on two hosts, one of them with a query, for three places, every mix of three kinds of evidence about each of three of them; sites that agree, contradict themselves, say nothing, name a website that is a number or list more services than the two that fit; answers of up to two fields out of thirteen; four requests |

The bounds are enough because: a cache limit of two with three runs makes
eviction and the refusal to evict both happen; a restart is needed for orphans,
and a second for a row an earlier reload left; three websites make every pair of
outcomes of `_process_candidate` meet, including a website seen again and three
drafts of one company, which the progress event refuses (the pagination limit
stays out of reach, and what is stored with the retention setting is proved);
five drafts allow two companies that each came from a merge, and a draft
that could join either. For the crawler, a third crawl is needed to wait for a
permit while another waits for the lock, and more pages queue than the limit
allows, so the limit cuts them; the run about pacing has one page, as what a
page holds does not matter to it, and no symmetry, as it checks liveness. What it
checks is the distance between starts, which a Retry-After widens; that a Retry-After
as such is waited out is not a property of its own. For
robots.txt, a lifetime of two lets a slow answer overtake, be overtaken and
expire. For the reviews, a second command must meet what the first left; the
domain that both files list at first is what a crash leaves, so removals start
from it at once. For the exports, a longer and a shorter one leave rows of the
first behind the second when a clear is missing. For the enrichment, two
companies are what a lock and a cache need, and each path through the three
lookups of GeoNames occurs: known, unknown and ambiguous places. For the
assessment, more pages are known than the limit keeps, and every resolver meets
agreement, one authority above another, and a contradiction.

**Violations.** One run checks a documented statement that the code does not
keep; TLC's trace is the explanation. It is the finding of `PROJECT.json`:
`orchestrator_search` - progress counted before deduplication exceeds the total,
the event is refused and the run fails ("Search continues until ...").

Sixteen more disagreements are stated in the modules without a run of their own.
Each is violated when it is added to the configuration named here:

| Statement | Configuration | What the code does |
|---|---|---|
| `AlternativesRetained` (`company_deduplication.py:687`, "retaining every alternative") | `Deduplication.cfg` | a second merge drops the alternatives the first recorded |
| `FailuresIsolatedPerDomain` (`README.md:19`, "Failures are isolated per domain") | `Orchestrator.cfg` | one company record that cannot be built fails the whole run and drops the verified drafts |
| `OneReportPerSource` (`research_orchestrator.py:1010`, "one skipped-source report") | `Orchestrator.cfg` | a source skipped by its URL and then as a website has two reports |
| `ShownStatusIsFinal` (`research_api.py:440`, "restarted before this research run reached a terminal state") | `Api.cfg` | a run shown as completed is shown as failed later, if its last update was lost |
| `CacheIsBounded` (`research_api.py:522`, "Bound process memory") | `Api.cfg` | polls of old runs grow the cache without pruning |
| `CompletedRunCanBeExported` (`api/routes.py:136`, "has not reached a terminal state") | `Api.cfg` | a completed run that was reloaded is refused as not terminal |
| `RestrictedTermsNeedReview` (`README.md:490`, "requires manual review") | `Preflight.cfg` | an origin approved from a page without terms links covers one whose terms restrict access |
| `PagesOnOneSite` (`models/orchestration.py:75`, "same-domain crawl output") | `Crawler.cfg` | a later page redirected to another approved domain is in the result |
| `InvalidRedirectsAreCrawlErrors` (`async_crawler.py:170`, a redirect chain that is "invalid") | `Crawler.cfg` | a Location that cannot be normalized raises an error `crawl` does not handle, and its pages are lost |
| `HistoryIsAppendOnly` (`config/domain_reviews.yaml:1`, "Append-only audit records") | `DomainReview.cfg` with `Reviewers = {r1, r2}` | of two commands that overlap, the later one writes back the history it read and drops the other's record |
| `HomePageIsTransferred` (`compliance_preflight.py:247`, "Transfer one approved transient homepage body") | `Crawler.cfg` | the page is kept under the website's URL and asked for with a final slash, so it is never taken and fetched again |
| `ExactRulesMatchTheirPair` (`README.md:451`, "Exact rules match the apex/`www` host pair") | `DomainReview.cfg` | rules for both `x` and `www.x` match every domain |
| `AvailablePagesAreRetained` (`research_orchestrator.py:746`, "retain available pages") | `Assessment.cfg` | a page fetched with a query in its URL is ranked without it, not found again and left out, with room to spare |
| `CitedPagesSupportServices` (`README.md:518`, a field "cites its evidence URLs") | `Assessment.cfg` | a page whose services all came after the twentieth is cited for those before |
| `AcceptedRecordsAreBuilt` (`README.md:631`, failures are isolated) | `Assessment.cfg` | a name that is a number or a list is accepted, and building its record raises outside every handler |
| `AppliedRulesAreRecorded` (`domain_review.py:424`, "append its complete evidence metadata") | `DomainReview.cfg` | a command that dies before the third replacement leaves an approval without a record |

`TerminalRowWasShown`, that a terminal row is a status a client could see, is
documented nowhere, but easily taken for granted: `Api.cfg` refutes it with a process
killed between the commit of the final row and the view. `RowsAgreeWithClients`
is what does hold.

Three limits of the exporter can be seen in `Sheets.cfg`. Without the condition
`alone[e]`, `UndisturbedExportsAreComplete` fails: two overlapping exports of one
spreadsheet both succeed and mix their rows, and a clear that comes late empties
the sheet of an export that has succeeded. An invariant that a failed export
leaves the earlier rows alone fails between the clear and the write. And a create
or addSheet whose answer was lost is sent again: a second spreadsheet is created,
the first stays behind empty, or the tab exists already and the export fails.

**Fairness.** In `ResearchOrchestrator`, weak fairness of the run's own steps:
every await has a client timeout, so the run never waits forever; `Cancel` gets
no fairness. In `ResearchApi`, weak fairness per task of starting it and of its
workflow ending (the liveness checked for `RunLifecycle`), of the steps that
follow each commit (`StoreCompleted`, `Finish`, `ShowOrphan`), of delivering a
cancellation, and of a stopping process to stop. Submissions, polls, shutdowns, crashes and restarts get none.
`RunLifecycle` assumes only that the call ends. In `WebsiteCrawler`, weak fairness
of each check's and each crawl's own steps and of time: every request has a client timeout and every sleep ends. The semaphore and
the lock get no fairness beyond that: in `crawler_pacing` a crawl may be
overtaken, but only by crawls that end. Cancellations and errors get none. In
`SheetsExport` and `Enrichment`, weak fairness of each export's and each company's
own steps: every request has a client timeout and every pause is bounded. The lock
of the GeoNames cache gets none; a company waits for it only while others end
their lookups. Late requests, expiry and cancellations get none.

**Deadlock** is not checked where the system may stop for good: a run that has
returned, a deduplication with no drafts left, an API at its last restart,
crawls, exports or enrichments that have all ended, a history at its bound.
`preflight`, `robots` and `assessment` check it.

## 4. What is proved

For every value of the constants (any number of runs, candidates, websites,
providers, formats; any budget and cache limit):

* `ResearchApiProofs`: `TypeOK` and `LiveRunIsCached`, `RunningViewHasTask` (not in a run),
  `RowsAgreeWithClients`, and the action property `TerminalRowIsFinal`.
  The invariant is `IInv`: to these it adds `RunStages` (the row of a scheduled
  run does not exist, that of a working run says running, that of a run about to
  return says no other end than its outcome), `ProcessStages`
  (a task lives only in a process that is up or stopping; a dead process has no
  cache), and `RowsAgree`,
  which says of every run but the one holding the loop what `RowsAgreeWithClients`
  says when the loop is free. Without `RunStages`, `Submit` and `Start` could overwrite a terminal
  row; without `ProcessStages`, a restart could meet tasks of the process before.
  The action property `SubmissionBoundsCache` adds `InsertionOrder` (`older`
  orders the cached states strictly and totally), so that the states pruned are
  the oldest that may go, and as many of them as the limit asks for.
* `ResearchOrchestratorProofs`: `TypeOK`, `RowAgreesWithResult`, `RowsHaveARun`,
  `RetentionRespected`, `CancellationSplitsNoPersistence` from `IInv`, which adds
  `PipelineOK` (a website is in the pipeline exactly in the phases that process
  one) and `StoreOK` (no company is stored before the ranking, the row is the
  INSERT's until the end). `EveryWebsiteAccountedFor` is proved on top of it by
  counting: each step adds exactly one decision for the website it takes out of
  the pipeline. Its key is that a website is never silently dropped by `_skip`,
  because a stored report never has the slashless URL of a website (the
  assumption on `Stored`). `RunImplementsLifecycle` proves that every step of a
  run is a step of `RunLifecycle` or a stutter. `CleanCompletionLosesNothing`
  follows from `CleanOK`, which says at every phase how many of the websites that
  were decided are drafts as long as nothing was warned about, and that the drafts
  resolved are those of the verified websites.
* `ResearchOrchestratorProofs`, for `Deduplication`: `EveryDraftInOneCompany`,
  `ConflictingIdentifiersStayApart`, `MergesAreCorroborated` and the action
  property `CompaniesNeverShrink`, and for the run `PublishedCompaniesAreDistinct`, which
  rests on the same lemma, `DeduplicationOK`: one pass over any profiles yields a
  partition of the drafts into companies that are `Faithful`, that is, whose
  names, domains and identifiers are those of their members. The pass is a
  recursive function of the number of drafts taken; `PassExists` shows that the
  function it names exists, `PassIsPass` that it obeys its recursion, and
  the invariant `PassOK` is carried along it. The induction itself is
  `NatSetInduction`, for a set of natural numbers instead of an operator, from
  the well-foundedness of strict inclusion and the library's facts about finite sets.
  `AbsorbCases` says which of two things a draft does: found a company or join
  exactly one; `Faithful` is what makes a corroboration by a company one by a draft.

* `CompliancePreflightProofs`: `TypeOK`, `ApprovalsAreReviewed`,
  `ApprovalRestsOnReview`. The invariant says of a check among its terms documents
  that, while it has no signal, every document the page links to is clean or still
  pending, and that none was left out: without it `Conclude` could remember a page
  nobody had read to the end.
* `SitePolicyProofs`, for `RobotsCache`: `RobotsTypeOK`, `ApprovalsAreFresh`. The invariant dates every
  policy, in the cache or in flight: it was published at a time no earlier than
  its expiry less the lifetime.
* `WebsiteCrawlerProofs`: `TypeOK`, `RequestsWereApproved`, `PagesAreReviewed`,
  `QueueStaysOnSite`, `CrawlStaysBounded`,
  `PermitsConserved` and the action property `StartsAreSpaced`. The invariant is
  that of the preflight, whose theorems are reused for the instance, and for each
  crawl: its check is about its hop (`HopSound`), its pages are reviewed
  (`PagesSound`), its queue is duplicate-free, within the limit and of the
  domain (`QueueSound`). `PermitsConserved` counts the holders of each domain's
  permits; each action adds one holder, removes one, or leaves the set alone.
  For the spacing, `Paced` says that whoever waits under the lock, and the domain
  itself, have at least what is missing from the delay left to wait.
* `SitePolicyProofs`, for `DomainReview`: `TypeOK`, `RecordsMatchRules`, `ApprovalsTakeEffect` and the
  action property `ApprovalsAreDecided`, for one reviewer (the theorems assume
  `Reviewers = {r}`: the code takes no lock, and commands that overlap lose records),
  with no bound on the history. The invariant relates what a command holds to the files
  (`CommandIsCurrent`): its documents list the same domains but for its own, and
  its own as decided, so a replacement changes no other domain; `ApprovalsAreOpen`
  says that no recursive block lies above a recorded approval.
* `SheetsExportProofs`: `TypeOK`, `UndisturbedExportsAreComplete` and
  `RowsOnlyWhereReported`. The invariant follows a sheet through the stages of the
  export that cleared it: blank after the clear, its own rows after the write, for
  as long as it is `alone`; and a request in `late` belongs to an export that
  has chosen its spreadsheet if it writes at all.
* `EnrichmentProofs`: `TypeOK`, `IdentifiersAreCorroborated`,
  `SilenceMeansCorroborated` and `LookupsAreNotRepeated`. The invariant adds that
  whoever is asking GeoNames holds the lock (`AskersHoldTheLock`), that a company
  past the countries has a country (`PlaceKnown`), and that a company without a
  warning was confirmed by every provider it has passed (`ConfirmedSoFar`).
* `CompanyAssessmentProofs`: `AssessmentTypeOK`, `SelectionKeepsTheBest`, `EvidenceWasSupplied`,
  `SiteIsNotOverruled`, `ScoresExplainThemselves` and `InferenceEarnsLittle`, for any
  websites, requests and answers of the model, any words that match, any limits on
  pages and services and any number of retries. The proofs go in three parts. The choices of the
  code (`max`, `sorted`, `next`) rest on two facts about finite sets, `LeastElement`
  and `OrderNumbers`: every strict order of one has a least element, and a total one
  numbers its elements. `InitialPart` builds on them: a finite set in order has a
  first part of any size up to its own, which is what `ListedIsCut` needs for the
  limit on services. `ScoreFollowsKind` says that kinds of pages lie 200 points
  apart and all bonuses together are worth at most 85, so a page ahead of another
  is of a kind no weaker. `ResolveIsSound` says that the signals of a field resolve to
  a conflict or to one field as `SiteIsNotOverruled` demands. The invariant then
  keeps what follows from it while the model is asked: the facts are `Ascertained`,
  that is, cited from selected pages, and complete for every field the site has a
  signal for. Without the last part an answer could fill a gap that is none.
  For the score, `ForemostOfExplicit` says that a field that decides a component and
  is explicit also decides it without the inferred ones.

Some of these are theorems only, since what a run would show is included in
them: `RowsHaveARun`, `RetentionRespected`, `PagesAreReviewed`, `QueueStaysOnSite`,
`CrawlStaysBounded` and the type invariants (in `ResearchApi` a conjunct of
`ApiInvariant`), but for those of `ResearchOrchestrator` and `CompanyAssessment`
(`AssessmentTypeOK`), which runs check.

Assumptions: `ReviewAssumption`, `PreflightAssumption`, `RobotsAssumption`, `SheetsAssumption`,
`DeduplicationAssumption`, `PageSelectionAssumption` and `AssessmentAssumption` (what
parsers and schemas guarantee: the pages are finitely many, the selector ranks a page
as itself or as a URL without its query, a signal has a value, the signals of a URL
field are URLs but for a requested one that is a number, a response has one field of a name and cites a page for
each, `models/extraction.py:58` and `:114`), `EnrichmentAssumption` (GeoNames is the last of the chain, as `dependencies.py` builds
it), `CrawlerAssumption` (finitely
many crawls, limits that are natural numbers), `EntityResolutionAssumption`, `OrchestratorAssumption` and
`ApiAssumption`, which say what kind of value each constant is, that `str(HttpUrl)`
adds a final slash to a bare website and leaves other URLs alone, and that `None`
is not a status, website or run.

Only model-checked: liveness (`SubmittedRunEnds`, `CrawlsEnd`,
`ExportsEnd`, `EnrichmentsEnd`, and the part of `KeepsLifecycle` that says that a run
ends), which needs ENABLED. Every other property of the passing runs is a theorem.

## 5. Scope

The plan put first the components that own a run from submission to its final row
(`ResearchApi`, `ResearchOrchestrator`, `EntityResolution`), then the path from a
website to its pages (`CompliancePreflight`, `RobotsCache`, `WebsiteCrawler`) and
the reviews that permit it (`DomainReview`), then the assessment of what was
fetched (`CompanyAssessment`), its confirmation by others (`Enrichment`) and the
export (`SheetsExport`). What a team would add next:

1. The longest-match rule of robots.txt and the query planner, against reference
   definitions over small alphabets.
2. Candidate rules and the normalization of domains in `source_policy.py`.

Not modelled, and why: HTML parsing (`html_content_extractor.py`), the terms
scanner and the discovery of links are text matching, and what they find is an
input of the modules that use it; DNS and address checks are predicates, and their
failure is one of the free failures of the preflight and the crawler; the search
providers are one stateless retry loop each, the same as in `Enrichment`; request
and response shaping, the user interface, settings, migrations and demonstration
code keep no state another part depends on.
