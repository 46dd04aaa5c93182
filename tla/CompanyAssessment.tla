-------------------------- MODULE CompanyAssessment --------------------------
(***************************************************************************)
(* From the fetched pages of a website to a scored company: the part of    *)
(* ResearchOrchestrator._process_candidate after the crawl, with the       *)
(* CompositeCompanyExtractor, its two extractors and the HTTP client of    *)
(* the language model, and the score.                                      *)
(*                                                                         *)
(* Pages yield signals; a signal is a value for a field, found in a source *)
(* of known authority.  The deterministic extractor resolves them; if the  *)
(* site contradicts itself the website is rejected, otherwise the model is *)
(* asked and may fill what is missing, each of its fields being checked    *)
(* against the text it was given.  What the model answers is arbitrary.    *)
(*                                                                         *)
(* A value is a set of words, compared as the code normalizes it; the word *)
(* of a URL is the number of its page, or 0 for a URL of no page.          *)
(* Enrichment, in between, is the module Enrichment.                       *)
(***************************************************************************)
EXTENDS PageSelection, RelevanceScoring

CONSTANTS
    Websites,    \* the websites to assess: see Website below
    Requests,    \* sequences of requested field names
    Answers,     \* the responses of the model that match its schema
    Personal,    \* field names that are about a person
    Host,        \* Host[u]: the host of URL u, without www
    Depth,       \* Depth[u]: the length of its path
    Unusual,     \* words of values no record takes as its name: numbers, lists
    MaxServices, \* how many services are listed
    MaxResponseRetries,
    MaxHttpRetries,
    None

VARIABLES
    website,    \* [known, crawled, signals]: its pages and what they say
    requested,  \* the names of the requested fields
    model,      \* whether a language model is configured
    phase,
    selected,   \* the clean pages, best first
    facts,      \* what the deterministic extractor returned
    supplied,   \* the pages whose text the model was given
    attempt,    \* responses of the model that did not match the schema
    sent,       \* HTTP attempts of the current request, 0 when there is none
    result,     \* what the extraction returned
    score

URLFields == {"website_url", "contact_page_url"}

\* What the parsers and schemas guarantee: only pages of the home page's host are
\* known, the fetched ones are, a signal has a value, and a URL is text unless
\* Organization data gives a number under the name of a requested field.  A
\* response cites a page for each of its fields and has one field of a name.
WebsiteOK(w) ==
    /\ KnownOK(w.known) /\ w.crawled \in Seq(Pages) /\ IsFiniteSet(w.signals)
    /\ \A p \in Pages : Found(w.known, p) => Host[p] = Host[Home]
    /\ \A p \in ToSet(w.crawled) : Host[p] = Host[Home] => Found(w.known, RankedAs[p])
    /\ \A s \in w.signals :
         /\ s.value # {} /\ IsFiniteSet(s.value)
         /\ s.name \in URLFields =>
              \/ s.value \subseteq Pages \cup {0}
              \/ s.source = "requested" /\ s.value \subseteq Unusual

AnswerOK(answer) ==
    \A f \in answer :
        /\ f.cites # {} /\ f.basis \in {"explicit", "inference"} /\ f.weak \in BOOLEAN
        /\ \A g \in answer : f.name = g.name => f = g

ASSUME AssessmentAssumption ==
    /\ \A w \in Websites : WebsiteOK(w)
    /\ Requests \subseteq Seq(STRING)
    /\ \A answer \in Answers : AnswerOK(answer)
    /\ Depth \in [Pages \cup {0} \cup Unusual -> Nat]
    /\ MaxServices \in Nat \ {0}
    /\ MaxResponseRetries \in Nat /\ MaxHttpRetries \in Nat

vars == <<website, requested, model, phase, selected, facts, supplied, attempt,
          sent, result, score>>

Core == <<"company_name", "website_url", "summary", "services", "contact_page_url",
          "country">>
ExplicitOnly == {"company_name", "country", "services", "website_url", "contact_page_url"}

\* The names an extraction lists; one that comes twice stands where it comes first.
Expected == Core \o requested

Field(name, value, cites, basis, weak) ==
    [name |-> name, value |-> value, cites |-> cites, basis |-> basis, weak |-> weak]

(***************************************************************************)
(* The deterministic extractor.  The sources of each field, in hundredths. *)
(***************************************************************************)
NameSources ==
    [json_ld |-> 98, og_site_name |-> 90, og_title |-> 84, title |-> 78, heading |-> 70]
ServiceSources == [json_ld |-> 95, section |-> 88]
CountrySources == [json_ld |-> 96, text |-> 76]
WebsiteSources == [canonical |-> 98, json_ld |-> 95, og_url |-> 93]
ContactSources == [link |-> 96]
DescriptionSources == [meta |-> 86]

Sources ==
    [company_name |-> NameSources, services |-> ServiceSources, country |-> CountrySources,
     website_url |-> WebsiteSources, contact_page_url |-> ContactSources,
     description |-> DescriptionSources]

\* A requested field may have any of them, and a value that Organization data has
\* under the field's own name.
IsSource(source, name) ==
    \/ /\ name \in DOMAIN Sources /\ source \in DOMAIN Sources[name]
       /\ name = "description" => name \in ToSet(requested)
    \/ source = "requested" /\ name \in ToSet(requested) \ Personal

\* URLs of other domains are passed over, contact links to other hosts, and a
\* service that is not text.
Admissible(s) ==
    /\ IsSource(s.source, s.name)
    /\ s.name \in URLFields => s.value \ Unusual \subseteq OnSite
    /\ s.name = "services" => s.value \cap Unusual = {}
    /\ s.source = "link" => \A u \in s.value : Host[u] = Host[s.page]

SignalsOf(name) ==
    {s \in website.signals : s.name = name /\ s.page \in ToSet(selected) /\ Admissible(s)}

Confidence(s) == IF s.source = "requested" THEN 90 ELSE Sources[s.name][s.source]

\* Those within two hundredths of the most confident.
Authoritative(S) == {s \in S : \A t \in S : Confidence(s) >= Confidence(t) - 2}

PagesOf(S) == {s.page : s \in S}
Words(S) == UNION {s.value : s \in S}
WithValue(S, value) == {s \in S : s.value = value}
Resolved(name, value, S) ==
    [fields |-> {Field(name, value, PagesOf(S), "explicit", FALSE)}, conflict |-> FALSE]
Conflict == [fields |-> {}, conflict |-> TRUE]

\* The order in which signals are taken.
Sooner(s, t) ==
    \/ Confidence(s) > Confidence(t)
    \/ /\ Confidence(s) = Confidence(t)
       /\ Position(s.page, selected) < Position(t.page, selected)

SaidSooner(w, v, S) ==
    \E s \in S : w \in s.value /\ \A t \in S : v \in t.value => Sooner(s, t)

\* Mutant: the last services are kept.
LastListedServices(S) ==
    CHOOSE W \in SUBSET Words(S) :
        /\ Cardinality(W) = Min({MaxServices, Cardinality(Words(S))})
        /\ \A v \in W, w \in Words(S) \ W : ~SaidSooner(v, w, S)

\* The first services; of the signal that reaches the limit, any.
ListedServices(S) ==
    CHOOSE W \in SUBSET Words(S) :
        /\ Cardinality(W) = Min({MaxServices, Cardinality(Words(S))})
        /\ \A v \in W, w \in Words(S) \ W : ~SaidSooner(w, v, S)

\* Services of all sources add up, to the limit; a source that adds nothing is not
\* cited, one whose services come after the limit still is.
ResolveServices(S) ==
    LET contributing == {s \in S : ~(s.value \subseteq Words({t \in S : Sooner(t, s)}))}
    IN Resolved("services", ListedServices(S), contributing)

\* The shortest of several URLs; by page order if they are equally long.
Length(s) == Depth[CHOOSE u \in s.value : TRUE]
Shortest(S) ==
    CHOOSE s \in S : \A t \in S :
        Length(s) < Length(t) \/ (Length(s) = Length(t) /\ ~Sooner(t, s))

Hosts(S) == {Host[u] : u \in Words(S) \ Unusual}
OneHost(S) == \A a, b \in Hosts(S) : a = b

ResolveWebsite(S) ==
    LET best == Authoritative(S)
    IN IF ~OneHost(best) THEN Conflict
       ELSE Resolved("website_url", Shortest(best).value,
                     WithValue(best, Shortest(best).value))

ResolveContact(S) ==
    IF ~OneHost(S) THEN Conflict
    ELSE Resolved("contact_page_url", Shortest(S).value, WithValue(S, Shortest(S).value))

\* Mutant: the first of several authoritative values is taken.
ResolveByPageOrder(name, S) ==
    LET first == CHOOSE s \in Authoritative(S) :
                    \A t \in Authoritative(S) : ~Sooner(t, s)
    IN Resolved(name, first.value, WithValue(S, first.value))

ResolveValue(name, S) ==
    LET best == Authoritative(S)
    IN IF \E s, t \in best : s.value # t.value THEN Conflict
       ELSE Resolved(name, Words(best), WithValue(S, Words(best)))

Resolve(name) ==
    LET S == SignalsOf(name)
    IN CASE S = {} -> [fields |-> {}, conflict |-> FALSE]
         [] S # {} /\ name = "services" -> ResolveServices(S)
         [] S # {} /\ name = "website_url" -> ResolveWebsite(S)
         [] S # {} /\ name = "contact_page_url" -> ResolveContact(S)
         [] OTHER -> ResolveValue(name, S)

\* A requested summary is put together from the facts, as an inference.
Summary(fields) ==
    LET support == {f \in fields : f.name \in {"company_name", "services", "country"}}
    IN IF /\ "summary" \in ToSet(requested)
          /\ \A f \in fields : f.name # "summary"
          /\ \E f \in fields : f.name = "company_name" /\ f.value \cap Unusual = {}
       THEN {Field("summary", UNION {f.value : f \in support},
                   UNION {f.cites : f \in support}, "inference", FALSE)}
       ELSE {}

Finalize(fields, reasons) ==
    LET kept == {f \in fields : f.name \in ToSet(Expected)}
        required == {"company_name"} \cup ToSet(requested)
    IN [fields |-> kept,
        accepted |-> /\ ~reasons
                     /\ required \subseteq {f.name : f \in kept}
                     /\ ToSet(requested) \cap Personal = {}]

DeterministicFacts ==
    LET found == {Resolve(n) : n \in ToSet(Expected)}
        fields == UNION {r.fields : r \in found}
    IN [fields |-> fields \cup Summary(fields),
        conflict |-> \E r \in found : r.conflict]

(***************************************************************************)
(* The steps of the orchestrator.                                          *)
(***************************************************************************)
Init ==
    /\ website \in Websites
    /\ requested \in Requests
    /\ model \in BOOLEAN
    /\ phase = "crawled"
    /\ selected = <<>>
    /\ facts = None
    /\ supplied = {}
    /\ attempt = 0
    /\ sent = 0
    /\ result = None
    /\ score = None

input == <<website, requested, model>>

\* No successful page: the website is skipped.
SelectPages ==
    /\ phase = "crawled"
    /\ IF website.crawled = <<>>
       THEN phase' = "skipped" /\ UNCHANGED selected
       ELSE /\ selected' = SelectCleanPages(website.known, website.crawled)
            /\ phase' = "selected"
    /\ UNCHANGED <<input, facts, supplied, attempt, sent, result, score>>

Extracted(fields, reasons) ==
    /\ result' = Finalize(fields, reasons)
    /\ phase' = "extracted"
    /\ sent' = 0

\* The conflicts end the extraction.  Otherwise the model gets the texts that
\* are not empty and within the limit on characters.
ExtractDeterministically ==
    /\ phase = "selected"
    /\ facts' = DeterministicFacts
    /\ IF ~model \/ facts'.conflict
       THEN Extracted(facts'.fields, facts'.conflict) /\ UNCHANGED supplied
       ELSE /\ supplied' \in SUBSET ToSet(selected)
            /\ IF supplied' = {} THEN Extracted(facts'.fields, FALSE)
               ELSE phase' = "asking" /\ sent' = 1 /\ UNCHANGED result
    /\ UNCHANGED <<input, selected, attempt, score>>

\* Mutant: one attempt more than configured.
SendOnceMore ==
    /\ phase = "asking" /\ sent <= MaxHttpRetries + 1
    /\ sent' = sent + 1
    /\ UNCHANGED <<input, phase, selected, facts, supplied, attempt, result, score>>

\* The endpoint cannot be reached, or answers 429 or a server error.
SendAgain ==
    /\ phase = "asking" /\ sent <= MaxHttpRetries
    /\ sent' = sent + 1
    /\ UNCHANGED <<input, phase, selected, facts, supplied, attempt, result, score>>

\* It fails for good, or refuses: the extraction raises, the website is skipped.
ModelFails ==
    /\ phase = "asking"
    /\ phase' = "skipped" /\ sent' = 0
    /\ UNCHANGED <<input, selected, facts, supplied, attempt, result, score>>

\* The response is no JSON or does not match the schema.
MalformedResponse ==
    /\ phase = "asking"
    /\ IF attempt < MaxResponseRetries
       THEN attempt' = attempt + 1 /\ sent' = 1 /\ UNCHANGED <<phase, result>>
       ELSE Extracted(facts.fields, FALSE) /\ UNCHANGED attempt
    /\ UNCHANGED <<input, selected, facts, supplied, score>>

\* A summary has to be an inference whose words the cited texts support.
SummaryRejected(f) == ~Inferred(f) \/ f.cites = {} \/ ~f.grounded

\* tainted: it holds personal contact data or claims another method.
\* Mutant: the cited pages are not compared with those supplied.
RejectedWhateverCited(f) ==
    \/ f.tainted
    \/ f.name \in ExplicitOnly /\ ~Explicit(f)
    \/ f.name \in URLFields /\ ~(f.value \subseteq supplied)
    \/ f.name \in ExplicitOnly \ URLFields /\ ~f.grounded
    \/ f.name = "summary" /\ SummaryRejected(f)
    \/ Inferred(f) /\ ~f.grounded

FieldRejected(f) ==
    \/ ~(f.cites \subseteq supplied)
    \/ f.tainted
    \/ f.name \in ExplicitOnly /\ ~Explicit(f)
    \/ f.name \in URLFields /\ ~(f.value \subseteq supplied)
    \/ f.name \in ExplicitOnly \ URLFields /\ ~f.grounded
    \/ f.name = "summary" /\ SummaryRejected(f)
    \/ Inferred(f) /\ ~f.grounded

\* Mutant: a field of the model replaces the one of the site.
MergePreferringModel(site, fields) ==
    fields \cup {f \in site : f.name \notin {g.name : g \in fields}}

\* The model fills gaps only.
Merge(site, fields) ==
    site \cup {f \in fields : f.name \notin {g.name : g \in site}}

Response ==
    /\ phase = "asking"
    /\ \E answer \in Answers :
         LET safe == ToSet(Expected) \ Personal
             passed == {f \in answer : f.name \in safe /\ ~FieldRejected(f)}
             fields == {Field(f.name, f.value, f.cites, f.basis, f.weak) : f \in passed}
         IN Extracted(Merge(facts.fields, fields), FALSE)
    /\ UNCHANGED <<input, selected, facts, supplied, attempt, score>>

\* Name and website must be explicit.  A record is then built from them, which
\* raises, outside every handler, if either is not text.
Verify ==
    /\ phase = "extracted"
    /\ LET core == {f \in result.fields : f.name \in {"company_name", "website_url"}}
       IN phase' =
            IF ~result.accepted \/ Cardinality(core) # 2 \/ \E f \in core : ~Explicit(f)
            THEN "skipped"
            ELSE IF \E f \in core : f.value \cap Unusual # {} THEN "failed"
            ELSE "recorded"
    /\ UNCHANGED <<input, selected, facts, supplied, attempt, sent, result, score>>

Weak(fields) == {f.name : f \in {g \in fields : g.weak}}

\* The names of the fields that companies merged into this one contradict; beyond
\* the first only their number would differ, which has no effect (a bound).
SomeContradicted == {{}} \cup {{f.name} : f \in result.fields}

ScoreCompany ==
    /\ phase = "recorded"
    /\ \E contradicted \in SomeContradicted :
         score' = RelevanceScore(result.fields, Expected, ToSet(requested), contradicted,
                                 Weak(result.fields))
    /\ phase' = "scored"
    /\ UNCHANGED <<input, selected, facts, supplied, attempt, sent, result>>

Done == phase \in {"skipped", "failed", "scored"} /\ UNCHANGED vars

Next ==
    \/ SelectPages
    \/ ExtractDeterministically
    \/ SendAgain
    \/ ModelFails
    \/ MalformedResponse
    \/ Response
    \/ Verify
    \/ ScoreCompany
    \/ Done

Spec == Init /\ [][Next]_vars

(***************************************************************************)
(* What has to hold.                                                       *)
(***************************************************************************)
FieldOK(f) ==
    /\ f.name \in ToSet(Expected)
    /\ f.cites \subseteq Pages
    /\ f.basis \in {"explicit", "inference"} /\ f.weak \in BOOLEAN

AssessmentTypeOK ==
    /\ phase \in {"crawled", "selected", "asking", "extracted", "recorded", "scored",
                  "skipped", "failed"}
    /\ ToSet(selected) \subseteq ToSet(website.crawled)
    /\ supplied \subseteq ToSet(selected)
    /\ attempt \in 0..MaxResponseRetries
    /\ sent \in 0..(MaxHttpRetries + 1) /\ (sent > 0 <=> phase = "asking")
    /\ result # None =>
         /\ \A f \in result.fields : FieldOK(f)
         /\ \A f, g \in result.fields : f.name = g.name => f = g
    /\ score # None => score \in [Components -> [score : Int, explained : BOOLEAN]]

\* Of the pages that are ranked as themselves, none is left out for one of a weaker
\* kind: links and titles order pages of a kind, never kinds, and the home page is
\* first.  Pages with a query are left out anyway: see AvailablePagesAreRetained.
SelectionKeepsTheBest ==
    phase \notin {"crawled", "skipped"} =>
        LET kind(p) == IF Found(website.known, p)
                       THEN Base(Category(p, Known(website.known, p)))
                       ELSE Base("homepage")
        IN /\ Home \in ToSet(website.crawled) => selected[1] = Home
           /\ \A p \in (ToSet(website.crawled) \cap Candidates(website.known))
                        \ ToSet(selected) :
                Cardinality({q \in Candidates(website.known) : q # p /\ kind(q) >= kind(p)})
                    >= Limit

\* research_orchestrator.py:746, "retain available pages".  The code violates this: a
\* fetched page whose URL has a query is left out although there is room for it.
AvailablePagesAreRetained ==
    phase \notin {"crawled", "skipped"} =>
        \A p \in ToSet(website.crawled) \ ToSet(selected) :
            Host[p] = Host[Home] => Cardinality(Candidates(website.known)) > Limit

\* README.md:519: every field of an accepted extraction cites its evidence, and only
\* pages of this website that were fetched and selected.
EvidenceWasSupplied ==
    (result # None /\ result.accepted) =>
        \A f \in result.fields : f.cites # {} /\ f.cites \subseteq ToSet(selected)

\* README.md:518, every field "cites its evidence URLs".  The code violates this: a
\* page all of whose services come after the limit is cited for the others.
CitedPagesSupportServices ==
    (result # None /\ result.accepted) =>
        \A f \in result.fields :
            LET S == SignalsOf("services")
            IN f.name = "services" /\ S # {} =>
                 \A p \in f.cites : \E s \in S : s.page = p /\ s.value \cap f.value # {}

OnlyCut(services, S) ==
    /\ services \subseteq Words(S)
    /\ \A w \in Words(S) \ services :
         Cardinality({v \in services : ~SaidSooner(w, v, S)}) >= MaxServices

\* README.md:518 and 529: what the site states prevails.  An accepted extraction has
\* the value of the most authoritative sources, which agree on it: the model replaces
\* no fact, and the order of the pages settles no contradiction, only which of several
\* URLs of one host and equal length is named.  A service is left out for no other
\* reason than that as many as are listed were not said later.
SiteIsNotOverruled ==
    (result # None /\ result.accepted) =>
        \A f \in result.fields :
            LET S == SignalsOf(f.name)
            IN S # {} =>
                 CASE f.name = "services" -> OnlyCut(f.value, S)
                   [] f.name = "website_url" ->
                        /\ f.value \in {s.value : s \in Authoritative(S)}
                        /\ OneHost(Authoritative(S))
                   [] f.name = "contact_page_url" ->
                        /\ f.value \in {s.value : s \in S}
                        /\ OneHost(S)
                   [] OTHER -> \A s \in Authoritative(S) : s.value = f.value

\* README.md:574: every point withheld has its penalty, and every component is
\* within its bounds, as RelevanceScoreResult demands (models/relevance.py:51).  Its
\* limits on the length of reasons and explanations are left out.
ScoresExplainThemselves ==
    score # None =>
        \A c \in Components :
            /\ score[c].score \in 0..Maximum[c]
            /\ score[c].score < Maximum[c] => score[c].explained

\* README.md:577: inference earns little.  Whatever the model infers, the components
\* for topic, country, services, website and contact page do not get more than the
\* explicit facts alone would give them, beyond the few points inference is worth.
\* The quality of evidence and completeness count inferred fields like others.
InferenceEarnsLittle ==
    phase = "recorded" =>
        LET requests == ToSet(requested)
            fields == result.fields
            strict == {f \in fields : Explicit(f)}
            worth == [topic_match |-> 10, country_match |-> 5, relevant_services |-> 5,
                      official_website_confidence |-> 0, contact_page |-> 0]
        IN \A contradicted \in SomeContradicted :
             LET all == RelevanceScore(fields, Expected, requests, contradicted, Weak(fields))
                 sure == RelevanceScore(strict, Expected, requests, contradicted, Weak(strict))
             IN \A c \in DOMAIN worth :
                  all[c].score <= Max({sure[c].score, worth[c]})

\* README.md:631 says that failures are isolated.  The code violates this: a name
\* that is a number or a list is accepted, and no record can be built from it.
AcceptedRecordsAreBuilt == phase # "failed"

=============================================================================
