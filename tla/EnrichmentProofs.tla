--------------------------- MODULE EnrichmentProofs ---------------------------
(***************************************************************************)
(* Type correctness of Enrichment, and its three safety invariants, for    *)
(* any number of companies, any chain of providers that ends with GeoNames *)
(* if it has it, and any answers.                                          *)
(***************************************************************************)
EXTENDS Enrichment, TLAPS

\* A city is looked up once it and its country are known.
PlaceKnown ==
    \A c \in Companies :
        lookup[c] # "countries" => City(c) \in Cities /\ Country(c) \in Countries

\* Whoever asks GeoNames holds the lock, and asks for what is not in the cache.
AskersHoldTheLock ==
    \A c \in Companies : Asking(c) => lock = c /\ cache[Key(c)] = None

\* The provider at place i has confirmed the company.
Confirmed(c, i) ==
    IF Chain[i] # "geonames" THEN Chain[i] \in identifiers[c]
    ELSE /\ Country(c) \in Countries
         /\ company[c]["normalized_country"] = Country(c)
         /\ NamedCity(c) => company[c]["normalized_city"] = <<City(c), Country(c)>>

\* Of the providers passed so far, each has confirmed the company or warned.
ConfirmedSoFar ==
    \A c \in Companies : \A i \in DOMAIN Chain :
        i < at[c] /\ warned[c] = {} => Confirmed(c, i)

\* The inductive invariant.
IInv ==
    TypeOK /\ PlaceKnown /\ AskersHoldTheLock /\ IdentifiersAreCorroborated
    /\ ConfirmedSoFar

-----------------------------------------------------------------------------
LEMMA NothingIsACompany == Nothing \in Company
  BY DEF Nothing, Company, Value

LEMMA ChainIsFinite == Len(Chain) \in Nat /\ DOMAIN Chain = 1..Len(Chain)
                       /\ \A i \in DOMAIN Chain : Chain[i] \in Providers
  BY EnrichmentAssumption

\* What is there is kept, the rest is added.
LEMMA KeepingKeeps ==
  ASSUME NEW fields \in Company, NEW additions \in Company
  PROVE  /\ Keeping(fields, additions) \in Company
         /\ \A f \in Fields :
              Keeping(fields, additions)[f] = IF fields[f] = None THEN additions[f]
                                              ELSE fields[f]
  BY DEF Keeping, Company

\* One of a set, or a value that stands for several or none.
LEMMA OneIsOfTheSet ==
  ASSUME NEW S, NEW several
  PROVE  One(S, several) \in S \cup {None, several}
  BY DEF One

LEMMA InitIInv == Init => IInv
<1> SUFFICES ASSUME Init PROVE IInv
  OBVIOUS
<1>1. TypeOK
  BY EnrichmentAssumption, ChainIsFinite DEF Init, TypeOK, Lookups
<1>2. PlaceKnown /\ AskersHoldTheLock
  BY DEF Init, PlaceKnown, AskersHoldTheLock, Asking
<1>3. IdentifiersAreCorroborated
  BY DEF Init, IdentifiersAreCorroborated
<1>4. ConfirmedSoFar
  BY ChainIsFinite DEF Init, ConfirmedSoFar
<1> QED
  BY <1>1, <1>2, <1>3, <1>4 DEF IInv

-----------------------------------------------------------------------------
\* What a return has to bring for the invariant: additions that are fields, and a
\* confirmation unless there is a warning.
Sound(c, p, additions, identified, warns) ==
    /\ additions \in Company
    /\ p = "opencorporates" =>
         /\ (additions["registry"] # None) <=> identified
         /\ additions["organization"] = None
         /\ ~warns => identified
    /\ p = "wikidata" =>
         /\ (additions["organization"] # None) <=> identified
         /\ additions["registry"] = None
         /\ ~warns => identified
    /\ p = "geonames" =>
         /\ ~identified
         /\ \A f \in {"country", "headquarters_location", "registry", "organization"} :
              additions[f] = None
         /\ ~warns =>
              /\ Country(c) \in Countries
              /\ company[c]["normalized_country"] \in {None, Country(c)}
              /\ additions["normalized_country"] = Country(c)
              /\ NamedCity(c) =>
                   /\ company[c]["normalized_city"] \in {None, <<City(c), Country(c)>>}
                   /\ additions["normalized_city"] = <<City(c), Country(c)>>

\* A failure, or an answer that names nobody.
LEMMA NothingIsSound ==
  ASSUME NEW c \in Companies, NEW p \in Providers
  PROVE  Sound(c, p, Nothing, FALSE, TRUE)
  BY NothingIsACompany DEF Sound, Nothing, Fields, Providers

LEMMA ReturnTypes ==
  ASSUME IInv, NEW c \in Companies, NEW p \in Providers, At(c, p),
         NEW additions, NEW identified, NEW warns,
         Sound(c, p, additions, identified, warns),
         Return(c, p, additions, identified, warns)
  PROVE  /\ at' \in [Companies -> 0..(Len(Chain) + 1)]
         /\ lookup' \in [Companies -> Lookups]
         /\ sent' \in [Companies -> 0..(MaxRetries + 1)]
         /\ company' \in [Companies -> Company]
         /\ identifiers' \in [Companies -> SUBSET Providers]
         /\ warned' \in [Companies -> SUBSET Providers]
         /\ lock' \in Companies \cup {None}
<1> USE EnrichmentAssumption
<1>1. TypeOK /\ additions \in Company
  BY DEF IInv, Sound
<1>2. company' \in [Companies -> Company]
  BY <1>1, KeepingKeeps DEF Return, TypeOK
<1>3. at' \in [Companies -> 0..(Len(Chain) + 1)]
  BY <1>1, ChainIsFinite DEF Return, TypeOK, At
<1>4. lookup' \in [Companies -> Lookups] /\ sent' \in [Companies -> 0..(MaxRetries + 1)]
  BY <1>1 DEF Return, TypeOK, Lookups
<1>5. /\ identifiers' \in [Companies -> SUBSET Providers]
      /\ warned' \in [Companies -> SUBSET Providers]
  BY <1>1 DEF Return, TypeOK
<1>6. lock' \in Companies \cup {None}
  BY <1>1 DEF Return, TypeOK, Free
<1> QED BY <1>2, <1>3, <1>4, <1>5, <1>6

\* No company but the one that returns is affected, and it asks no more.
LEMMA ReturnKeepsInvariant ==
  ASSUME IInv, NEW c \in Companies, NEW p \in Providers, At(c, p),
         NEW additions, NEW identified \in BOOLEAN, NEW warns \in BOOLEAN,
         Sound(c, p, additions, identified, warns),
         Return(c, p, additions, identified, warns),
         cache' \in [Keys -> {None} \cup SUBSET Countries],
         cache' = cache \/ Asking(c)
  PROVE  IInv'
<1> USE EnrichmentAssumption
<1>1. /\ TypeOK /\ additions \in Company /\ company[c] \in Company
      /\ Fields = {"country", "headquarters_location", "registry", "organization",
                   "normalized_country", "normalized_city"}
  BY DEF IInv, Sound, TypeOK, Fields
<1>2. TypeOK'
  BY ReturnTypes DEF TypeOK
\* What changes for c, and that nothing does for the others.
<1>3. /\ at'[c] = at[c] + 1 /\ lookup'[c] = "countries" /\ sent'[c] = 0
      /\ warned'[c] = IF warns THEN warned[c] \cup {p} ELSE warned[c]
      /\ identifiers'[c] = IF identified THEN identifiers[c] \cup {p} ELSE identifiers[c]
      /\ \A f \in Fields :
           company'[c][f] = IF company[c][f] = None THEN additions[f] ELSE company[c][f]
  BY <1>1, KeepingKeeps DEF Return, TypeOK
<1>4. \A d \in Companies \ {c} :
         /\ at'[d] = at[d] /\ lookup'[d] = lookup[d] /\ sent'[d] = sent[d]
         /\ warned'[d] = warned[d] /\ identifiers'[d] = identifiers[d]
         /\ company'[d] = company[d]
  BY <1>1 DEF Return, TypeOK
<1>5. PlaceKnown'
  BY <1>3, <1>4 DEF IInv, PlaceKnown, City, Country
<1>6. AskersHoldTheLock'
  <2> SUFFICES ASSUME NEW d \in Companies, Asking(d)'
               PROVE  lock' = d /\ cache'[Key(d)'] = None
    BY DEF AskersHoldTheLock
  <2>1. d # c
    BY <1>3 DEF Asking
  <2>2. Asking(d) /\ Key(d)' = Key(d)
    BY <1>4, <2>1 DEF Asking, At, Key, City, Country
  <2>3. lock = d /\ cache[Key(d)] = None /\ ~Asking(c)
    BY <2>1, <2>2 DEF IInv, AskersHoldTheLock
  <2> QED BY <2>1, <2>2, <2>3 DEF Return, Free
<1>7. IdentifiersAreCorroborated'
  <2> SUFFICES ASSUME NEW d \in Companies
               PROVE  /\ "opencorporates" \in identifiers'[d]
                           => company'[d]["registry"] # None
                      /\ "wikidata" \in identifiers'[d]
                           => company'[d]["organization"] # None
                      /\ Extracted[d]["organization"] = None
                         /\ company'[d]["organization"] # None
                           => "wikidata" \in identifiers'[d]
                      /\ Extracted[d]["registry"] = None
                         /\ company'[d]["registry"] # None
                           => "opencorporates" \in identifiers'[d]
    BY DEF IdentifiersAreCorroborated
  <2>1. CASE d # c
    BY <1>4, <2>1 DEF IInv, IdentifiersAreCorroborated
  <2>2. CASE d = c
    <3>1. /\ "opencorporates" \in identifiers[c] => company[c]["registry"] # None
          /\ "wikidata" \in identifiers[c] => company[c]["organization"] # None
          /\ Extracted[c]["organization"] = None /\ company[c]["organization"] # None
               => "wikidata" \in identifiers[c]
          /\ Extracted[c]["registry"] = None /\ company[c]["registry"] # None
               => "opencorporates" \in identifiers[c]
      BY DEF IInv, IdentifiersAreCorroborated
    <3>2. /\ company'[c]["registry"] = IF company[c]["registry"] = None
                                       THEN additions["registry"] ELSE company[c]["registry"]
          /\ company'[c]["organization"] = IF company[c]["organization"] = None
                                           THEN additions["organization"]
                                           ELSE company[c]["organization"]
      BY <1>1, <1>3
    <3>3. CASE p = "opencorporates"
      BY <1>3, <2>2, <3>1, <3>2, <3>3 DEF Sound
    <3>4. CASE p = "wikidata"
      BY <1>3, <2>2, <3>1, <3>2, <3>4 DEF Sound
    <3>5. CASE p = "geonames"
      BY <1>3, <2>2, <3>1, <3>2, <3>5 DEF Sound
    <3> QED BY <3>3, <3>4, <3>5 DEF Providers
  <2> QED BY <2>1, <2>2
<1>8. ConfirmedSoFar'
  <2> SUFFICES ASSUME NEW d \in Companies, NEW i \in DOMAIN Chain,
                      i < at'[d], warned'[d] = {}
               PROVE  Confirmed(d, i)'
    BY DEF ConfirmedSoFar
  <2>1. CASE d # c
    <3>1. Confirmed(d, i)
      BY <1>4, <2>1 DEF IInv, ConfirmedSoFar
    <3> QED BY <1>4, <2>1, <3>1 DEF Confirmed, Country, City, NamedCity
  <2>2. CASE d = c /\ i < at[c]
    <3>1. warned[c] = {}
      BY <1>3, <2>2
    <3>2. Confirmed(c, i)
      BY <2>2, <3>1 DEF IInv, ConfirmedSoFar
    <3>3. Chain[i] # "geonames"
      BY <1>1, <2>2, ChainIsFinite DEF At
    <3> QED BY <1>3, <2>2, <3>2, <3>3 DEF Confirmed
  <2>3. CASE d = c /\ i = at[c]
    <3>1. Chain[i] = p /\ ~warns
      BY <1>3, <2>3 DEF At
    <3>2. CASE p # "geonames"
      BY <1>3, <2>3, <3>1, <3>2 DEF Confirmed, Sound, Providers
    <3>3. CASE p = "geonames"
      <4>1. /\ City(c)' = City(c) /\ Country(c)' = Country(c)
        BY <1>1, <1>3, <3>3 DEF City, Country, Sound
      <4>2. company'[c]["normalized_country"] = Country(c) /\ Country(c) \in Countries
        BY <1>1, <1>3, <3>1, <3>3 DEF Sound
      <4>3. NamedCity(c) => company'[c]["normalized_city"] = <<City(c), Country(c)>>
        BY <1>1, <1>3, <3>1, <3>3 DEF Sound
      <4> QED BY <2>3, <3>1, <3>3, <4>1, <4>2, <4>3 DEF Confirmed, NamedCity
    <3> QED BY <3>2, <3>3
  <2>4. d # c \/ i < at[c] \/ i = at[c]
    BY <1>1, <1>3, ChainIsFinite DEF TypeOK
  <2> QED BY <2>1, <2>2, <2>3, <2>4
<1> QED BY <1>2, <1>5, <1>6, <1>7, <1>8 DEF IInv

-----------------------------------------------------------------------------
\* The keys are those of the cache, and an answer names countries.
LEMMA KeysAndAnswers ==
  ASSUME IInv, NEW c \in Companies
  PROVE  /\ lookup[c] = "countries" => Key(c) = <<None, None>>
         /\ lookup[c] \in {"city", "elsewhere"} => Key(c) \in Cities \X (Countries \cup {None})
         /\ Key(c) \in Keys
         /\ \A answer \in Answers(c) : answer \subseteq Countries
<1>1. lookup[c] \in {"countries", "city", "elsewhere"}
  BY DEF IInv, TypeOK, Lookups
<1>2. lookup[c] # "countries" => City(c) \in Cities /\ Country(c) \in Countries
  BY DEF IInv, PlaceKnown
<1> QED BY <1>1, <1>2 DEF Key, Keys, Places, Answers

\* A lookup that is over: Finish, with or without a city.
LEMMA FinishKeepsInvariant ==
  ASSUME IInv, NEW c \in Companies, At(c, "geonames"),
         NEW found \in BOOLEAN, NEW warns \in BOOLEAN,
         Finish(c, found, warns), Country(c) \in Countries,
         found => City(c) \in Cities,
         ~found /\ ~warns => ~NamedCity(c),
         cache' \in [Keys -> {None} \cup SUBSET Countries],
         cache' = cache \/ Asking(c)
  PROVE  IInv'
<1> DEFINE additions == [Nothing EXCEPT
              !["normalized_country"] = Country(c),
              !["normalized_city"] = IF found THEN <<City(c), Country(c)>> ELSE None]
<1>1. /\ additions["normalized_country"] = Country(c)
      /\ additions["normalized_city"] = IF found THEN <<City(c), Country(c)>> ELSE None
      /\ \A f \in {"country", "headquarters_location", "registry", "organization"} :
           additions[f] = None
  BY DEF Nothing, Fields
<1>2. additions \in Company
  BY NothingIsACompany DEF Company, Value, Fields
<1>3. Return(c, "geonames", additions, FALSE, warns \/ Contradicted(c, additions))
  BY DEF Finish
<1> HIDE DEF additions
<1>4. ~(warns \/ Contradicted(c, additions)) =>
        /\ company[c]["normalized_country"] \in {None, Country(c)}
        /\ NamedCity(c) =>
             /\ company[c]["normalized_city"] \in {None, <<City(c), Country(c)>>}
             /\ additions["normalized_city"] = <<City(c), Country(c)>>
  <2> SUFFICES ASSUME ~warns, ~Contradicted(c, additions)
               PROVE  /\ company[c]["normalized_country"] \in {None, Country(c)}
                      /\ NamedCity(c) =>
                           /\ company[c]["normalized_city"]
                                \in {None, <<City(c), Country(c)>>}
                           /\ additions["normalized_city"] = <<City(c), Country(c)>>
    OBVIOUS
  <2>1. \A f \in Fields : company[c][f] # None /\ additions[f] # None
                            => company[c][f] = additions[f]
    BY DEF Contradicted
  <2>2. Country(c) # None
    BY EnrichmentAssumption
  <2>3. company[c]["normalized_country"] \in {None, Country(c)}
    BY <1>1, <2>1, <2>2 DEF Fields
  <2>4. ASSUME NamedCity(c)
        PROVE  /\ company[c]["normalized_city"] \in {None, <<City(c), Country(c)>>}
               /\ additions["normalized_city"] = <<City(c), Country(c)>>
    <3>1. additions["normalized_city"] = <<City(c), Country(c)>>
      BY <1>1, <2>4
    <3>2. <<City(c), Country(c)>> # None
      BY EnrichmentAssumption, <2>4 DEF NamedCity
    <3> QED BY <2>1, <3>1, <3>2 DEF Fields
  <2> QED BY <2>3, <2>4
<1>5. Sound(c, "geonames", additions, FALSE, warns \/ Contradicted(c, additions))
  BY <1>1, <1>2, <1>4 DEF Sound
<1>6. (warns \/ Contradicted(c, additions)) \in BOOLEAN
  BY DEF Contradicted
<1> QED BY <1>3, <1>5, <1>6, ReturnKeepsInvariant DEF Providers

\* What an answer leads to, whether from the cache or from GeoNames.
LEMMA UseKeepsInvariant ==
  ASSUME IInv, NEW c \in Companies, At(c, "geonames"),
         NEW answer \in SUBSET Countries, Use(c, answer),
         cache' \in [Keys -> {None} \cup SUBSET Countries],
         cache' = cache \/ Asking(c)
  PROVE  IInv'
<1>1. lookup[c] # "countries" => City(c) \in Cities /\ Country(c) \in Countries
  BY DEF IInv, PlaceKnown
<1>2. CASE Return(c, "geonames", Nothing, FALSE, TRUE)
  BY <1>2, NothingIsSound, ReturnKeepsInvariant DEF Providers
<1>3. ASSUME NEW found \in BOOLEAN, NEW warns \in BOOLEAN, Finish(c, found, warns),
             Country(c) \in Countries, found => City(c) \in Cities,
             ~found /\ ~warns => ~NamedCity(c)
      PROVE  IInv'
  BY <1>3, FinishKeepsInvariant
<1>4. ASSUME NEW l \in {"city", "elsewhere"}, Proceed(c, l),
             City(c) \in Cities, Country(c) \in Countries
      PROVE  IInv'
  <2> USE EnrichmentAssumption
  <2>1. TypeOK'
    BY <1>4 DEF IInv, TypeOK, Proceed, Free, Lookups
  <2>2. /\ lookup'[c] = l /\ sent'[c] = 0
        /\ \A d \in Companies \ {c} : lookup'[d] = lookup[d] /\ sent'[d] = sent[d]
        /\ at' = at /\ company' = company
    BY <1>4 DEF IInv, TypeOK, Proceed
  <2>3. PlaceKnown'
    BY <1>4, <2>2 DEF IInv, PlaceKnown, City, Country
  <2>4. AskersHoldTheLock'
    <3> SUFFICES ASSUME NEW d \in Companies, Asking(d)'
                 PROVE  lock' = d /\ cache'[Key(d)'] = None
      BY DEF AskersHoldTheLock
    <3>1. d # c
      BY <2>2 DEF Asking
    <3>2. Asking(d) /\ Key(d)' = Key(d)
      BY <2>2, <3>1 DEF Asking, At, Key, City, Country
    <3>3. lock = d /\ cache[Key(d)] = None /\ ~Asking(c)
      BY <3>1, <3>2 DEF IInv, AskersHoldTheLock
    <3> QED BY <1>4, <3>1, <3>2, <3>3 DEF Proceed, Free
  <2>5. IdentifiersAreCorroborated' /\ ConfirmedSoFar'
    BY <1>4 DEF IInv, IdentifiersAreCorroborated, ConfirmedSoFar, Confirmed, Proceed,
                City, Country, NamedCity
  <2> QED BY <2>1, <2>3, <2>4, <2>5 DEF IInv
<1>5. CASE lookup[c] = "countries" /\ Country(c) \in answer /\ NamedCity(c)
           /\ Proceed(c, "city")
  BY <1>4, <1>5 DEF NamedCity
<1>6. CASE lookup[c] = "countries" /\ Country(c) \in answer /\ ~NamedCity(c)
           /\ Finish(c, FALSE, FALSE)
  BY <1>3, <1>6
<1>7. CASE lookup[c] = "city" /\ Proceed(c, "elsewhere")
  BY <1>1, <1>4, <1>7
<1>8. CASE lookup[c] = "city" /\ Finish(c, TRUE, FALSE)
  BY <1>1, <1>3, <1>8
<1>9. CASE lookup[c] = "elsewhere" /\ Finish(c, FALSE, TRUE)
  BY <1>1, <1>3, <1>9
<1> QED BY <1>2, <1>5, <1>6, <1>7, <1>8, <1>9 DEF Use

\* An attempt: the first, of whoever was not asking, or one more.
LEMMA SendingKeepsInvariant ==
  ASSUME IInv, NEW c \in Companies, sent'[c] \in 1..(MaxRetries + 1),
         sent' = [sent EXCEPT ![c] = sent'[c]],
         \/ lock' = lock /\ (Asking(c) \/ ~At(c, "geonames"))
         \/ lock' = c /\ lock = None /\ cache[Key(c)] = None,
         UNCHANGED <<at, lookup, company, identifiers, warned, cache>>
  PROVE  IInv'
<1> USE EnrichmentAssumption
<1>1. TypeOK'
  BY DEF IInv, TypeOK
<1>2. PlaceKnown' /\ IdentifiersAreCorroborated' /\ ConfirmedSoFar'
  BY DEF IInv, PlaceKnown, IdentifiersAreCorroborated, ConfirmedSoFar, Confirmed,
         City, Country, NamedCity
<1>3. AskersHoldTheLock'
  <2> SUFFICES ASSUME NEW d \in Companies, Asking(d)'
               PROVE  lock' = d /\ cache'[Key(d)'] = None
    BY DEF AskersHoldTheLock
  <2>1. Key(d)' = Key(d) /\ At(d, "geonames")
    BY DEF Asking, At, Key, City, Country
  <2>2. CASE Asking(d)
    BY <2>1, <2>2 DEF IInv, AskersHoldTheLock
  <2>3. CASE ~Asking(d)
    <3>1. d = c
      BY <2>1, <2>3 DEF Asking, IInv, TypeOK
    <3> QED BY <2>1, <2>3, <3>1
  <2> QED BY <2>2, <2>3
<1> QED BY <1>1, <1>2, <1>3 DEF IInv

LEMMA StepKeepsInvariant ==
  ASSUME IInv, NEW c \in Companies, Step(c)
  PROVE  IInv'
<1> USE EnrichmentAssumption
<1>1. CASE AskDirectly(c)
  <2>1. ~At(c, "geonames")
    BY <1>1 DEF AskDirectly, At
  <2>2. sent'[c] \in 1..(MaxRetries + 1) /\ sent' = [sent EXCEPT ![c] = sent'[c]]
    BY <1>1 DEF AskDirectly, IInv, TypeOK
  <2> QED BY <1>1, <2>1, <2>2, SendingKeepsInvariant DEF AskDirectly
<1>2. CASE RegistryAnswer(c)
  <2>1. PICK n \in 0..2 :
          Return(c, "opencorporates",
                 [Nothing EXCEPT !["registry"] = IF n = 1 THEN Some ELSE None],
                 n = 1, n # 1 \/ company[c]["registry"] # None)
    BY <1>2 DEF RegistryAnswer
  <2> DEFINE additions == [Nothing EXCEPT !["registry"] = IF n = 1 THEN Some ELSE None]
  <2>2. /\ additions \in Company
        /\ additions["registry"] = IF n = 1 THEN Some ELSE None
        /\ additions["organization"] = None
    BY NothingIsACompany DEF Company, Value, Fields, Nothing
  <2> HIDE DEF additions
  <2>3. Sound(c, "opencorporates", additions, n = 1, n # 1 \/ company[c]["registry"] # None)
    BY <2>2 DEF Sound
  <2>4. /\ cache' = cache /\ cache' \in [Keys -> {None} \cup SUBSET Countries]
        /\ At(c, "opencorporates")
    BY <1>2 DEF RegistryAnswer, IInv, TypeOK
  <2>5. Return(c, "opencorporates", additions, n = 1,
               n # 1 \/ company[c]["registry"] # None)
    BY <2>1 DEF additions
  <2>6. (n = 1) \in BOOLEAN /\ (n # 1 \/ company[c]["registry"] # None) \in BOOLEAN
    OBVIOUS
  <2> QED BY <2>3, <2>4, <2>5, <2>6, ReturnKeepsInvariant DEF Providers
<1>3. CASE WikidataAnswer(c)
  <2>1. /\ cache' = cache /\ cache' \in [Keys -> {None} \cup SUBSET Countries]
        /\ At(c, "wikidata")
    BY <1>3 DEF WikidataAnswer, IInv, TypeOK
  <2>2. ASSUME NEW a, NEW i \in BOOLEAN, NEW w \in BOOLEAN,
               Sound(c, "wikidata", a, i, w), Return(c, "wikidata", a, i, w)
        PROVE  IInv'
    BY <2>1, <2>2, ReturnKeepsInvariant DEF Providers
  <2>3. ASSUME NEW n \in {0, 2}, WikidataResult(c, n, Nothing, TRUE)
        PROVE  IInv'
    <3>1. Return(c, "wikidata", Nothing, n = 1, TRUE)
      BY <2>3 DEF WikidataResult
    <3>2. (n = 1) \in BOOLEAN
      OBVIOUS
    <3>3. Sound(c, "wikidata", Nothing, n = 1, TRUE)
      BY NothingIsACompany DEF Sound, Nothing, Fields
    <3> QED BY <2>2, <3>1, <3>2, <3>3
  <2>4. ASSUME NEW countries \in SUBSET Countries, NEW cities \in SUBSET Cities,
               NEW warns \in BOOLEAN, NEW n \in {1},
               WikidataResult(c, n, [Nothing EXCEPT
                    !["organization"] = Some,
                    !["country"] = One(countries, None),
                    !["headquarters_location"] = One(cities, Several)], warns)
        PROVE  IInv'
    <3> DEFINE additions == [Nothing EXCEPT
                    !["organization"] = Some,
                    !["country"] = One(countries, None),
                    !["headquarters_location"] = One(cities, Several)]
    <3>1. One(countries, None) \in Value /\ One(cities, Several) \in Value
      BY OneIsOfTheSet DEF Value
    <3>2. /\ additions \in Company
          /\ additions["organization"] = Some /\ additions["registry"] = None
      BY <3>1, NothingIsACompany DEF Company, Value, Fields, Nothing
    <3> HIDE DEF additions
    <3>3. Return(c, "wikidata", additions, n = 1, warns)
      BY <2>4 DEF WikidataResult, additions
    <3>4. Sound(c, "wikidata", additions, n = 1, warns)
      BY <3>2, EnrichmentAssumption DEF Sound
    <3>5. (n = 1) \in BOOLEAN
      OBVIOUS
    <3> QED BY <2>2, <3>3, <3>4, <3>5
  <2>5. ASSUME NEW countries \in SUBSET Countries, NEW cities \in SUBSET Cities,
               NEW other \in BOOLEAN, NEW additions
        PROVE  (other \/ Cardinality(countries) > 1 \/ Contradicted(c, additions))
                 \in BOOLEAN
    OBVIOUS
  <2> QED BY <1>3, <2>3, <2>4, <2>5 DEF WikidataAnswer
<1>4. CASE NoCountry(c)
  <2>1. /\ cache' = cache /\ cache' \in [Keys -> {None} \cup SUBSET Countries]
        /\ At(c, "geonames") /\ Return(c, "geonames", Nothing, FALSE, TRUE)
    BY <1>4 DEF NoCountry, IInv, TypeOK
  <2> QED BY <2>1, NothingIsSound, ReturnKeepsInvariant DEF Providers
<1>5. CASE CachedAnswer(c)
  <2>1. /\ cache' = cache /\ cache' \in [Keys -> {None} \cup SUBSET Countries]
        /\ At(c, "geonames") /\ cache[Key(c)] # None /\ Use(c, cache[Key(c)])
    BY <1>5 DEF CachedAnswer, LookupReady, IInv, TypeOK
  <2>2. cache[Key(c)] \in SUBSET Countries
    BY <2>1, KeysAndAnswers DEF IInv, TypeOK
  <2> QED BY <2>1, <2>2, UseKeepsInvariant
<1>6. CASE AskGeoNames(c)
  <2>1. sent'[c] \in 1..(MaxRetries + 1) /\ sent' = [sent EXCEPT ![c] = sent'[c]]
    BY <1>6 DEF AskGeoNames, IInv, TypeOK
  <2> QED BY <1>6, <2>1, SendingKeepsInvariant DEF AskGeoNames, LookupReady
<1>7. CASE GeoNamesAnswer(c)
  <2>1. PICK answer \in Answers(c) :
          /\ cache' = [cache EXCEPT ![Key(c)] = answer] /\ Use(c, answer)
    BY <1>7 DEF GeoNamesAnswer
  <2>2. answer \in SUBSET Countries
    BY KeysAndAnswers
  <2>3. cache' \in [Keys -> {None} \cup SUBSET Countries]
    BY <2>1, <2>2 DEF IInv, TypeOK
  <2>4. Asking(c)
    BY <1>7 DEF GeoNamesAnswer, Asking
  <2> QED BY <2>1, <2>2, <2>3, <2>4, UseKeepsInvariant DEF Asking
<1>8. CASE \E p \in Providers : Retry(c, p)
  <2>1. PICK p \in Providers : Retry(c, p)
    BY <1>8
  <2>2. sent'[c] \in 1..(MaxRetries + 1)
    BY <2>1 DEF Retry, AttemptsLeft, IInv, TypeOK
  <2>3. Asking(c) \/ ~At(c, "geonames")
    BY <2>1 DEF Retry, Asking
  <2>4. sent' = [sent EXCEPT ![c] = sent'[c]]
    BY <2>1 DEF Retry, IInv, TypeOK
  <2> QED BY <2>1, <2>2, <2>3, <2>4, SendingKeepsInvariant DEF Retry
<1>9. CASE \E p \in Providers : GiveUp(c, p)
  <2>1. PICK p \in Providers : GiveUp(c, p)
    BY <1>9
  <2>2. /\ cache' = cache /\ cache' \in [Keys -> {None} \cup SUBSET Countries]
        /\ At(c, p) /\ Return(c, p, Nothing, FALSE, TRUE)
    BY <2>1 DEF GiveUp, IInv, TypeOK
  <2> QED BY <2>2, NothingIsSound, ReturnKeepsInvariant
<1> QED BY <1>1, <1>2, <1>3, <1>4, <1>5, <1>6, <1>7, <1>8, <1>9 DEF Step

\* A cancelled company is nowhere; an answer that expires is asked for by nobody.
LEMMA CancelKeepsInvariant ==
  ASSUME IInv, NEW c \in Companies, Cancel(c)
  PROVE  IInv'
<1> USE EnrichmentAssumption
<1>1. TypeOK'
  BY ChainIsFinite DEF Cancel, IInv, TypeOK, Free
<1>2. /\ at'[c] = 0 /\ sent'[c] = 0
      /\ \A d \in Companies \ {c} : at'[d] = at[d] /\ sent'[d] = sent[d]
      /\ UNCHANGED <<lookup, company, identifiers, warned, cache>>
  BY DEF Cancel, IInv, TypeOK
<1>3. PlaceKnown' /\ IdentifiersAreCorroborated'
  BY <1>2 DEF IInv, PlaceKnown, IdentifiersAreCorroborated, City, Country
<1>4. ConfirmedSoFar'
  <2> SUFFICES ASSUME NEW d \in Companies, NEW i \in DOMAIN Chain,
                      i < at'[d], warned'[d] = {}
               PROVE  Confirmed(d, i)'
    BY DEF ConfirmedSoFar
  <2>1. d # c
    BY <1>2, ChainIsFinite
  <2>2. Confirmed(d, i)
    BY <1>2, <2>1 DEF IInv, ConfirmedSoFar
  <2> QED BY <1>2, <2>2 DEF Confirmed, City, Country, NamedCity
<1>5. AskersHoldTheLock'
  <2> SUFFICES ASSUME NEW d \in Companies, Asking(d)'
               PROVE  lock' = d /\ cache'[Key(d)'] = None
    BY DEF AskersHoldTheLock
  <2>1. d # c
    BY <1>2 DEF Asking
  <2>2. Asking(d) /\ Key(d)' = Key(d)
    BY <1>2, <2>1 DEF Asking, At, Key, City, Country
  <2>3. lock = d /\ cache[Key(d)] = None
    BY <2>2 DEF IInv, AskersHoldTheLock
  <2> QED BY <1>2, <2>1, <2>2, <2>3 DEF Cancel, Free
<1> QED BY <1>1, <1>3, <1>4, <1>5 DEF IInv

LEMMA ExpireKeepsInvariant ==
  ASSUME IInv, NEW k \in Keys, Expire(k)
  PROVE  IInv'
<1>1. TypeOK'
  BY DEF Expire, IInv, TypeOK
<1>2. AskersHoldTheLock'
  BY KeysAndAnswers
  DEF Expire, IInv, TypeOK, AskersHoldTheLock, Asking, At, Key, City, Country
<1>3. PlaceKnown' /\ IdentifiersAreCorroborated' /\ ConfirmedSoFar'
  BY DEF Expire, IInv, PlaceKnown, IdentifiersAreCorroborated, ConfirmedSoFar, Confirmed,
         City, Country, NamedCity
<1> QED BY <1>1, <1>2, <1>3 DEF IInv

LEMMA NextIInv == IInv /\ [Next]_vars => IInv'
<1> SUFFICES ASSUME IInv, [Next]_vars PROVE IInv'
  OBVIOUS
<1>1. CASE UNCHANGED vars
  BY <1>1 DEF vars, IInv, TypeOK, PlaceKnown, AskersHoldTheLock, Asking, At, Key, City,
              Country, IdentifiersAreCorroborated, ConfirmedSoFar, Confirmed, NamedCity
<1>2. CASE Next
  BY <1>2, StepKeepsInvariant, CancelKeepsInvariant, ExpireKeepsInvariant DEF Next
<1> QED BY <1>1, <1>2

LEMMA InvariantHolds == Spec => []IInv
  BY InitIInv, NextIInv, PTL DEF Spec

-----------------------------------------------------------------------------
\* The type invariant: no lookup is retried beyond the configured number, every
\* cached answer is for a key that is asked for.
THEOREM TypeCorrect == Spec => []TypeOK
<1>1. IInv => TypeOK
  BY DEF IInv
<1> QED BY InvariantHolds, <1>1, PTL

\* An official identifier comes with the fields of the organization it names,
\* whatever the services answer and wherever the chain is cut short.
THEOREM IdentifiersCorroborated == Spec => []IdentifiersAreCorroborated
<1>1. IInv => IdentifiersAreCorroborated
  BY DEF IInv
<1> QED BY InvariantHolds, <1>1, PTL

\* A company without a warning was confirmed by every provider of the chain.
THEOREM SilenceCorroborates == Spec => []SilenceMeansCorroborated
<1>1. IInv => SilenceMeansCorroborated
  BY ChainIsFinite DEF IInv, TypeOK, ConfirmedSoFar, Confirmed, SilenceMeansCorroborated
<1> QED BY InvariantHolds, <1>1, PTL

\* The lock that is held over a request keeps GeoNames from being asked twice.
THEOREM LookupsNotRepeated == Spec => []LookupsAreNotRepeated
<1>1. IInv => LookupsAreNotRepeated
  BY DEF IInv, AskersHoldTheLock, LookupsAreNotRepeated
<1> QED BY InvariantHolds, <1>1, PTL

=============================================================================
