------------------------------ MODULE Enrichment ------------------------------
(***************************************************************************)
(* The enrichment of accepted companies: the loop over the configured      *)
(* providers in ResearchOrchestrator, and the providers themselves:        *)
(* OpenCorporatesProvider, WikidataProvider and GeoNamesProvider.          *)
(*                                                                         *)
(* Each company is handed to one provider after the other, and each sees   *)
(* what the earlier ones added.  A provider sends requests, retrying       *)
(* transient failures; its answer adds fields the company does not have,   *)
(* official identifiers and warnings, or its failure is a warning.         *)
(* GeoNames keeps its answers for the runs of the process, and holds one   *)
(* lock from the look into that cache until the answer is in it.           *)
(*                                                                         *)
(* A field is named for the first of its aliases, and only fields that     *)
(* decide something are kept: registry stands for the six OpenCorporates   *)
(* fields, organization for those Wikidata always adds.  Every company     *)
(* comes from an accepted extraction: each of its fields has evidence and  *)
(* its website is known.  What the services answer is arbitrary.           *)
(***************************************************************************)
EXTENDS Naturals, Sequences, FiniteSets

CONSTANTS
    Companies,   \* the companies being enriched, of any run of the process
    Chain,       \* the configured providers, in order
    Extracted,   \* the fields of each company before its enrichment
    Countries,
    Cities,
    MaxRetries,
    Several,     \* a value that is a list
    Some,        \* a value nothing depends on
    None

Providers == {"opencorporates", "wikidata", "geonames"}
Fields == {"country", "headquarters_location", "registry", "organization",
           "normalized_country", "normalized_city"}
Value == Countries \cup Cities \cup (Cities \X Countries) \cup {Several, Some, None}
Company == [Fields -> Value]

ASSUME EnrichmentAssumption ==
    /\ Chain \in Seq(Providers)
    /\ \A i \in DOMAIN Chain : Chain[i] = "geonames" => i = Len(Chain)
    /\ Extracted \in [Companies -> Company]
    /\ MaxRetries \in Nat
    /\ None \notin Companies \cup Countries \cup Cities \cup {Several, Some}
    /\ None \notin Cities \X Countries

VARIABLES
    at,           \* at[c]: the place in Chain that c has reached, 0 when cancelled
    lookup,       \* lookup[c]: what GeoNames is to be asked next for c
    sent,         \* sent[c]: how often the request in flight for c was sent
    company,      \* company[c]: its fields
    identifiers,  \* identifiers[c]: the sources of its official identifiers
    warned,       \* warned[c]: the providers with a warning about c
    lock,         \* the company whose lookup holds the cache lock of GeoNames
    cache         \* the answers of GeoNames that have not expired

vars == <<at, lookup, sent, company, identifiers, warned, lock, cache>>

Lookups == {"countries", "city", "elsewhere"}
Places == Cities \cup {None}
Keys == Places \X (Countries \cup {None})

TypeOK ==
    /\ at \in [Companies -> 0..(Len(Chain) + 1)]
    /\ lookup \in [Companies -> Lookups]
    /\ sent \in [Companies -> 0..(MaxRetries + 1)]
    /\ company \in [Companies -> Company]
    /\ identifiers \in [Companies -> SUBSET Providers]
    /\ warned \in [Companies -> SUBSET Providers]
    /\ lock \in Companies \cup {None}
    /\ cache \in [Keys -> {None} \cup SUBSET Countries]

Init ==
    /\ at = [c \in Companies |-> 1]
    /\ lookup = [c \in Companies |-> "countries"]
    /\ sent = [c \in Companies |-> 0]
    /\ company = Extracted
    /\ identifiers = [c \in Companies |-> {}]
    /\ warned = [c \in Companies |-> {}]
    /\ lock = None
    /\ cache = [k \in Keys |-> None]

At(c, p) == at[c] \in DOMAIN Chain /\ Chain[at[c]] = p
Running(c) == at[c] \in DOMAIN Chain
City(c) == company[c]["headquarters_location"]
Country(c) == company[c]["country"]

\* A field that is there is kept, whatever a provider says.
Keeping(fields, additions) ==
    [f \in Fields |-> IF fields[f] = None THEN additions[f] ELSE fields[f]]

Nothing == [f \in Fields |-> None]

\* The fields that have another value already.
Contradicted(c, additions) ==
    \E f \in Fields : {company[c][f], additions[f]} \cap {None} = {}
                      /\ company[c][f] # additions[f]

Free(c) == IF lock = c THEN None ELSE lock

\* The provider returns: its additions, identifier and warnings are taken over.
Return(c, p, additions, identified, warns) ==
    /\ at' = [at EXCEPT ![c] = @ + 1]
    /\ lookup' = [lookup EXCEPT ![c] = "countries"]
    /\ sent' = [sent EXCEPT ![c] = 0]
    /\ company' = [company EXCEPT ![c] = Keeping(@, additions)]
    /\ identifiers' = [identifiers EXCEPT ![c] = IF identified THEN @ \cup {p} ELSE @]
    /\ warned' = [warned EXCEPT ![c] = IF warns THEN @ \cup {p} ELSE @]
    /\ lock' = Free(c)

(***************************************************************************)
(* The requests.  A failure is of one of these kinds, and the services     *)
(* differ in those that are worth another attempt.  GeoNames reports       *)
(* quotas and refused users in the body of a 200, with the same effect.    *)
(***************************************************************************)
Failures == {"unreachable", "quota", "server", "forbidden", "unauthorized", "invalid"}

Retried(p) ==
    {"unreachable", "quota", "server"}
    \cup (IF p = "opencorporates" THEN {"forbidden"} ELSE {})

AttemptsLeft(c) == sent[c] <= MaxRetries

\* Another attempt, after the delay; GeoNames keeps the lock.
Retry(c, p) ==
    /\ At(c, p) /\ sent[c] > 0 /\ AttemptsLeft(c)
    /\ \E s \in Failures : s \in Retried(p)
    /\ sent' = [sent EXCEPT ![c] = @ + 1]
    /\ UNCHANGED <<at, lookup, company, identifiers, warned, lock, cache>>

\* The provider raises: the orchestrator warns and goes on with the company as
\* it was.
GiveUp(c, p) ==
    /\ At(c, p) /\ sent[c] > 0
    /\ \E s \in Failures : s \notin Retried(p) \/ ~AttemptsLeft(c)
    /\ Return(c, p, Nothing, FALSE, TRUE)
    /\ UNCHANGED cache

\* OpenCorporates and Wikidata are asked without a look at the earlier answers.
AskDirectly(c) ==
    /\ At(c, "opencorporates") \/ At(c, "wikidata")
    /\ sent[c] = 0
    /\ sent' = [sent EXCEPT ![c] = 1]
    /\ UNCHANGED <<at, lookup, company, identifiers, warned, lock, cache>>

(***************************************************************************)
(* OpenCorporates: the answers with the company's name and a link to       *)
(* OpenCorporates may be none, one registered company or several.          *)
(***************************************************************************)
RegistryAnswer(c) ==
    /\ At(c, "opencorporates") /\ sent[c] > 0
    /\ \E n \in 0..2 :
         LET additions == [Nothing EXCEPT !["registry"] = IF n = 1 THEN Some ELSE None]
         IN Return(c, "opencorporates", additions, n = 1,
                   n # 1 \/ company[c]["registry"] # None)
    /\ UNCHANGED cache

(***************************************************************************)
(* Wikidata: the organizations with the company's name and its website may *)
(* be none, one or several.  One has any number of countries, headquarters *)
(* and other websites.                                                     *)
(***************************************************************************)
One(S, several) ==
    IF S = {} THEN None
    ELSE IF Cardinality(S) = 1 THEN CHOOSE x \in S : TRUE ELSE several

\* Mutant: a result that is set aside still contributes its identifier.
IdentifierOfAnyMatch(c, n, additions, warns) ==
    Return(c, "wikidata", additions, n > 0, warns)

\* Several organizations with the same website are left to a person.
WikidataResult(c, n, additions, warns) ==
    Return(c, "wikidata", additions, n = 1, warns)

WikidataAnswer(c) ==
    /\ At(c, "wikidata") /\ sent[c] > 0
    /\ \/ \E n \in {0, 2} : WikidataResult(c, n, Nothing, TRUE)
       \/ \E countries \in SUBSET Countries, cities \in SUBSET Cities, other \in BOOLEAN :
            LET additions == [Nothing EXCEPT
                    !["organization"] = Some,
                    !["country"] = One(countries, None),
                    !["headquarters_location"] = One(cities, Several)]
            IN WikidataResult(c, 1, additions,
                   other \/ Cardinality(countries) > 1 \/ Contradicted(c, additions))
    /\ UNCHANGED cache

(***************************************************************************)
(* GeoNames: the countries, then the city of the company in its country,   *)
(* then, if it is not there, in any country.                               *)
(***************************************************************************)
NamedCity(c) == City(c) \in Cities

Key(c) ==
    CASE lookup[c] = "countries" -> <<None, None>>
      [] lookup[c] = "city" -> <<City(c), Country(c)>>
      [] lookup[c] = "elsewhere" -> <<City(c), None>>

\* What is asked for, and the countries an answer may name.
Answers(c) ==
    CASE lookup[c] = "countries" -> SUBSET Countries
      [] lookup[c] = "city" -> SUBSET {Country(c)}
      [] lookup[c] = "elsewhere" -> SUBSET Countries

NoCountry(c) ==
    /\ At(c, "geonames") /\ lookup[c] = "countries" /\ sent[c] = 0
    /\ Country(c) = None
    /\ Return(c, "geonames", Nothing, FALSE, TRUE)
    /\ UNCHANGED cache

Finish(c, found, warns) ==
    LET additions == [Nothing EXCEPT
            !["normalized_country"] = Country(c),
            !["normalized_city"] = IF found THEN <<City(c), Country(c)>> ELSE None]
    IN Return(c, "geonames", additions, FALSE, warns \/ Contradicted(c, additions))

\* The lookup after this one.
Proceed(c, l) ==
    /\ lookup' = [lookup EXCEPT ![c] = l]
    /\ sent' = [sent EXCEPT ![c] = 0]
    /\ lock' = Free(c)
    /\ UNCHANGED <<at, company, identifiers, warned>>

\* Mutant: a city found elsewhere only is passed over in silence.
UseQuietly(c, answer) ==
    \/ /\ lookup[c] = "countries"
       /\ IF Country(c) \notin answer THEN Return(c, "geonames", Nothing, FALSE, TRUE)
          ELSE IF NamedCity(c) THEN Proceed(c, "city")
          ELSE Finish(c, FALSE, FALSE)
    \/ /\ lookup[c] = "city"
       /\ IF answer = {} THEN Proceed(c, "elsewhere") ELSE Finish(c, TRUE, FALSE)
    \/ /\ lookup[c] = "elsewhere"
       /\ Finish(c, FALSE, answer \subseteq {Country(c)})

Use(c, answer) ==
    \/ /\ lookup[c] = "countries"
       /\ IF Country(c) \notin answer THEN Return(c, "geonames", Nothing, FALSE, TRUE)
          ELSE IF NamedCity(c) THEN Proceed(c, "city")
          ELSE Finish(c, FALSE, FALSE)
    \/ /\ lookup[c] = "city"
       /\ IF answer = {} THEN Proceed(c, "elsewhere") ELSE Finish(c, TRUE, FALSE)
    \/ /\ lookup[c] = "elsewhere"
       /\ Finish(c, FALSE, TRUE)

\* A lookup waits for the lock, then uses the answer that is there.
LookupReady(c) ==
    /\ At(c, "geonames") /\ sent[c] = 0 /\ lock = None
    /\ lookup[c] = "countries" => Country(c) # None

CachedAnswer(c) ==
    /\ LookupReady(c) /\ cache[Key(c)] # None
    /\ Use(c, cache[Key(c)])
    /\ UNCHANGED cache

\* Mutant: the lock is not held while GeoNames answers.
AskUnlocked(c) ==
    /\ LookupReady(c) /\ cache[Key(c)] = None
    /\ sent' = [sent EXCEPT ![c] = 1]
    /\ UNCHANGED <<at, lookup, company, identifiers, warned, lock, cache>>

AskGeoNames(c) ==
    /\ LookupReady(c) /\ cache[Key(c)] = None
    /\ lock' = c
    /\ sent' = [sent EXCEPT ![c] = 1]
    /\ UNCHANGED <<at, lookup, company, identifiers, warned, cache>>

GeoNamesAnswer(c) ==
    /\ At(c, "geonames") /\ sent[c] > 0
    /\ \E answer \in Answers(c) :
         /\ cache' = [cache EXCEPT ![Key(c)] = answer]
         /\ Use(c, answer)

Expire(k) ==
    /\ cache[k] # None
    /\ cache' = [cache EXCEPT ![k] = None]
    /\ UNCHANGED <<at, lookup, sent, company, identifiers, warned, lock>>

\* The run's task is cancelled while it waits: for the lock, an answer or a delay.
\* Mutant: the lock stays with the cancelled lookup.
CancelKeepingLock(c) ==
    /\ Running(c)
    /\ at' = [at EXCEPT ![c] = 0]
    /\ sent' = [sent EXCEPT ![c] = 0]
    /\ UNCHANGED <<lookup, company, identifiers, warned, lock, cache>>

Cancel(c) ==
    /\ Running(c)
    /\ at' = [at EXCEPT ![c] = 0]
    /\ sent' = [sent EXCEPT ![c] = 0]
    /\ lock' = Free(c)
    /\ UNCHANGED <<lookup, company, identifiers, warned, cache>>

Step(c) ==
    \/ AskDirectly(c)
    \/ RegistryAnswer(c)
    \/ WikidataAnswer(c)
    \/ NoCountry(c)
    \/ CachedAnswer(c)
    \/ AskGeoNames(c)
    \/ GeoNamesAnswer(c)
    \/ \E p \in Providers : Retry(c, p) \/ GiveUp(c, p)

Next ==
    \/ \E c \in Companies : Step(c) \/ Cancel(c)
    \/ \E k \in Keys : Expire(k)

\* Every request is answered or times out, and the event loop runs every task
\* that can go on.
Spec == Init /\ [][Next]_vars /\ \A c \in Companies : WF_vars(Step(c))

(***************************************************************************)
(* What has to hold.                                                       *)
(***************************************************************************)
Asking(c) == At(c, "geonames") /\ sent[c] > 0

\* An official identifier, on which later merges rest, comes with the fields of
\* the one organization it names: a result that was ambiguous, failed or was cut
\* short leaves neither.
IdentifiersAreCorroborated ==
    \A c \in Companies :
        /\ "opencorporates" \in identifiers[c] => company[c]["registry"] # None
        /\ "wikidata" \in identifiers[c] => company[c]["organization"] # None
        /\ Extracted[c]["organization"] = None /\ company[c]["organization"] # None
             => "wikidata" \in identifiers[c]
        /\ Extracted[c]["registry"] = None /\ company[c]["registry"] # None
             => "opencorporates" \in identifiers[c]

\* A company that comes through the chain without a warning has been confirmed by
\* every provider: it is registered once, it is one organization, its country is
\* known to GeoNames and its city, if it has a single one, lies in that country.
SilenceMeansCorroborated ==
    \A c \in Companies :
        (at[c] = Len(Chain) + 1 /\ warned[c] = {}) =>
            \A i \in DOMAIN Chain :
                IF Chain[i] # "geonames" THEN Chain[i] \in identifiers[c]
                ELSE /\ Country(c) \in Countries
                     /\ company[c]["normalized_country"] = Country(c)
                     /\ NamedCity(c) =>
                          company[c]["normalized_city"] = <<City(c), Country(c)>>

\* GeoNames is asked for one thing at a time, whatever the number of runs, and for
\* nothing it has answered and that has not expired.
LookupsAreNotRepeated ==
    \A c \in Companies : Asking(c) =>
        /\ cache[Key(c)] = None
        /\ \A d \in Companies : Asking(d) => d = c

\* Every enrichment ends, also when another run is cancelled or fails while it
\* holds the lock.
EnrichmentsEnd == \A c \in Companies : <>(~Running(c))

=============================================================================
