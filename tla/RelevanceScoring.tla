--------------------------- MODULE RelevanceScoring ---------------------------
(***************************************************************************)
(* RelevanceScoringService: the points of a company in seven components,   *)
(* from the fields of its extraction, and the penalties that explain the   *)
(* points withheld.                                                        *)
(*                                                                         *)
(* fields are the fields that have a value, names the order in which the   *)
(* extraction lists them; a value is a set of words.  A component is its   *)
(* score and whether a reason was given for what is missing from the       *)
(* maximum.                                                                *)
(***************************************************************************)
EXTENDS Integers, Sequences, FiniteSets, SequencesExt

CONSTANTS
    OnTopic,       \* words of the topic, without those of the location
    Target,        \* words that name the requested location
    TargetCities,  \* cities of the Netherlands, if that is the location, else {}
    OnSite         \* URLs of the company's registrable domain

ServiceFields == {"service", "services", "offerings"}
LocationFields ==
    {"address", "country", "headquarters", "headquarters_location", "location",
     "registered_address"}
IgnoredFields == {"proposed_relevance_score", "relevance_score", "score"}

Components ==
    {"topic_match", "country_match", "relevant_services",
     "official_website_confidence", "contact_page", "evidence_quality",
     "requested_field_completeness"}

Maximum ==
    [c \in Components |->
        CASE c = "topic_match" -> 30
          [] c = "country_match" -> 20
          [] c = "relevant_services" -> 15
          [] c \in {"official_website_confidence", "contact_page",
                    "evidence_quality"} -> 10
          [] c = "requested_field_completeness" -> 5]

\* Where x stands in a sequence, or stands first.
Position(x, sequence) == Min({i \in DOMAIN sequence : sequence[i] = x})

\* The field that the extraction lists before the others.
Foremost(fields, names) ==
    CHOOSE f \in fields :
        \A g \in fields : Position(f.name, names) <= Position(g.name, names)

Supported(fields) == {f \in fields : f.cites # {} /\ f.name \notin IgnoredFields}

Explicit(f) == f.basis = "explicit"
Inferred(f) == f.basis = "inference"
Matches(f) == f.value \cap OnTopic # {}
Part(score, explained) == [score |-> score, explained |-> explained]

\* Mutant: an inferred service counts as a stated one.
TopicScoreOfAnyBasis(fields) ==
    LET Service(f) == f.name \in ServiceFields /\ Matches(f)
        Stated(f) == Explicit(f) /\ Matches(f)
    IN IF \E f \in fields : Service(f) THEN Part(30, FALSE)
       ELSE IF \E f \in fields : Stated(f) THEN Part(8, TRUE)
       ELSE Part(0, TRUE)

TopicScore(fields) ==
    LET matching == {f \in fields : Matches(f)}
        services == {f \in matching : f.name \in ServiceFields}
    IN IF \E f \in services : Explicit(f) THEN Part(30, FALSE)
       ELSE IF \E f \in services : Inferred(f) THEN Part(10, TRUE)
       ELSE IF \E f \in matching : Explicit(f) THEN Part(8, TRUE)
       ELSE Part(0, TRUE)

\* The first field that says anything decides.
AtTarget(f) == f.value \cap Target # {}
Locates(f) ==
    /\ f.name \in LocationFields
    /\ AtTarget(f) \/ (Explicit(f) /\ f.value \cap TargetCities # {})

LocationScore(fields, names, contradicted) ==
    LET deciding == {f \in fields : Locates(f)}
        f == Foremost(deciding, names)
    IN IF deciding = {} THEN Part(0, TRUE)
       ELSE IF AtTarget(f) /\ Inferred(f) THEN Part(5, TRUE)
       ELSE IF AtTarget(f) /\ f.name \notin contradicted THEN Part(20, FALSE)
       ELSE Part(10, TRUE)

ServicesScore(fields, names) ==
    LET deciding == {f \in fields : f.name \in ServiceFields /\ Matches(f)}
    IN IF deciding = {} THEN Part(0, TRUE)
       ELSE IF Explicit(Foremost(deciding, names)) THEN Part(15, FALSE)
       ELSE Part(5, TRUE)

\* An explicit URL of the company's own domain, cited from that domain.
UrlScore(fields, name) ==
    IF \E f \in fields : /\ f.name = name /\ Explicit(f)
                                /\ f.value \subseteq OnSite
                                /\ f.cites \cap OnSite # {}
    THEN Part(10, FALSE) ELSE Part(0, TRUE)

WebsiteScore(fields) == UrlScore(fields, "website_url")
ContactScore(fields) == UrlScore(fields, "contact_page_url")

EvidencePoints(fields, contradicted, weak) ==
    LET Deduct(points, condition) == IF condition THEN points ELSE 0
        cited == UNION {f.cites : f \in fields}
    IN 8 + Deduct(2, Cardinality(cited) >= 2)
         - Deduct(2, \E f \in fields : Inferred(f))
         - Deduct(4, contradicted # {})
         - Min({4, 2 * Cardinality(weak)})

\* Mutant: the deductions are not stopped at zero.
EvidenceScoreUnbounded(fields, contradicted, weak) ==
    IF fields = {} THEN Part(0, TRUE)
    ELSE Part(EvidencePoints(fields, contradicted, weak), TRUE)

EvidenceScore(fields, contradicted, weak) ==
    IF fields = {} THEN Part(0, TRUE)
    ELSE Part(Max({0, EvidencePoints(fields, contradicted, weak)}), TRUE)

RoundRatio(points, completed, total) ==
    (2 * points * completed + total) \div (2 * total)

CompletenessScore(fields, requested) ==
    LET missing == requested \ {f.name : f \in {g \in fields : g.cites # {}}}
    IN IF requested = {} THEN Part(5, FALSE)
       ELSE Part(RoundRatio(5, Cardinality(requested \ missing), Cardinality(requested)),
                 missing # {})

\* contradicted: the fields of the company record with several values, which only
\* a merge of two records brings about; weak: those of low confidence.
RelevanceScore(all, names, requested, contradicted, weak) ==
    LET fields == Supported(all)
    IN [c \in Components |->
          CASE c = "topic_match" -> TopicScore(fields)
            [] c = "country_match" -> LocationScore(fields, names, contradicted)
            [] c = "relevant_services" -> ServicesScore(fields, names)
            [] c = "official_website_confidence" -> WebsiteScore(fields)
            [] c = "contact_page" -> ContactScore(fields)
            [] c = "evidence_quality" -> EvidenceScore(fields, contradicted, weak)
            [] c = "requested_field_completeness" -> CompletenessScore(all, requested)]

=============================================================================
