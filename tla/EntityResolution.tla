-------------------------- MODULE EntityResolution --------------------------
(***************************************************************************)
(* Pairwise entity resolution (app/services/company_deduplication.py) and  *)
(* the greedy pass of the orchestrator over the drafts of a run            *)
(* (ResearchOrchestrator._deduplicate).  Pure operators: no state.         *)
(*                                                                         *)
(* An entity is the part of a CompanyEntity that resolution looks at: its  *)
(* name, the registrable domains of its website and of the canonical URL   *)
(* the crawl ended on, its normalized official identifiers, the confidence *)
(* of its two core fields, and the audit data of the last merge.           *)
(* "members" is a history field: the ids of the drafts an entity absorbed. *)
(***************************************************************************)
EXTENDS Integers, FiniteSets, Sequences, SequencesExt

CONSTANTS
    Sources,    \* OfficialIdentifierSource: opencorporates, wikidata
    Malformed,  \* an identifier value normalize_official_identifier refuses
    LegalOnly,  \* a name made of legal suffixes only, e.g. "B.V."
    Resembling  \* pairs {name, name} at or above the fuzzy threshold

ASSUME EntityResolutionAssumption ==
    /\ IsFiniteSet(Sources)
    /\ \A pair \in Resembling : IsFiniteSet(pair) /\ Cardinality(pair) = 2

CoreFields == {"name", "website"}

\* What extraction and enrichment may say of a company, given what they may say
\* of one at a time: the identifiers are gathered, so they are any of those.
ProfilesOver(facts) ==
    [name       : {fact.name : fact \in facts},
     website    : {fact.website : fact \in facts},
     canonical  : {fact.canonical : fact \in facts},
     ids        : {ids \in SUBSET UNION {fact.ids : fact \in facts} : IsFiniteSet(ids)},
     confidence : [CoreFields -> Int]]

ValuesOf(ids, source) == {id[2] : id \in {i \in ids : i[1] = source}}

\* _record_confidence: the best confidence of any field of the record.
RecordConfidence(entity) ==
    Max({entity.confidence[field] : field \in CoreFields})

(***************************************************************************)
(* _identifiers and _ambiguous_identifier_source: a malformed identifier,  *)
(* or two identifiers of one source within one record.                     *)
(***************************************************************************)
HasUnclearIdentifiers(entity) ==
    \/ \E id \in entity.ids : id[2] = Malformed
    \/ \E source \in Sources : Cardinality(ValuesOf(entity.ids, source)) > 1

\* _conflicting_identifier_source
HaveConflictingIdentifiers(left, right) ==
    \E source \in Sources :
        LET l == ValuesOf(left.ids, source)
            r == ValuesOf(right.ids, source)
        IN  l # {} /\ r # {} /\ l \cap r = {}

ShareDomain(left, right) ==
    left.website = right.website \/ left.canonical = right.canonical

\* normalize_company_name raises ValueError for such a name.
HaveUnusableName(left, right) == LegalOnly \in {left.name, right.name}

HaveSimilarNames(left, right) ==
    left.name = right.name \/ {left.name, right.name} \in Resembling

\* Mutant: the domains are compared before the identifiers.
ResolveDomainFirst(left, right) ==
    CASE ShareDomain(left, right) -> "merge"
      [] OTHER ->
    CASE HaveConflictingIdentifiers(left, right) -> "separate"
      [] OTHER -> IF HaveSimilarNames(left, right) THEN "manual" ELSE "separate"

\* Mutant: an exact name match is enough to merge.
ResolveByName(left, right) ==
    CASE HaveConflictingIdentifiers(left, right) -> "separate"
      [] OTHER ->
    IF ShareDomain(left, right) \/ left.name = right.name THEN "merge" ELSE "separate"

(***************************************************************************)
(* CompanyDeduplicationService.resolve: the signals in their fixed order.  *)
(***************************************************************************)
Resolve(left, right) ==
    CASE HasUnclearIdentifiers(left) \/ HasUnclearIdentifiers(right) -> "manual"
      [] OTHER ->
    CASE HaveConflictingIdentifiers(left, right) -> "separate"
      [] OTHER ->
    CASE ShareDomain(left, right) -> "merge"
      [] OTHER ->
    CASE HaveUnusableName(left, right) -> "raise"
      [] OTHER ->
    CASE left.ids \cap right.ids # {} -> "merge"
      [] OTHER ->
    CASE HaveSimilarNames(left, right) -> "manual"
      [] OTHER -> "separate"

(***************************************************************************)
(* _merge_records and the merge branch of _deduplicate.  Each core value   *)
(* is the more confident one, the left one on a tie.  The merged record is *)
(* built without metadata, so only this merge's audit data is attached.    *)
(***************************************************************************)
PreferredSide(left, right, field) ==
    IF left.confidence[field] >= right.confidence[field] THEN left ELSE right

LosingSide(left, right, field) ==
    IF left.confidence[field] >= right.confidence[field] THEN right ELSE left

Alternatives(left, right) ==
    {<<field, LosingSide(left, right, field)[field]>> : field \in CoreFields}
        \ {<<field, PreferredSide(left, right, field)[field]>> : field \in CoreFields}

Merge(left, right) ==
    LET primary == IF RecordConfidence(left) >= RecordConfidence(right)
                   THEN left ELSE right
    IN  [id           |-> primary.id,
         name         |-> PreferredSide(left, right, "name").name,
         website      |-> PreferredSide(left, right, "website").website,
         canonical    |-> left.canonical,
         ids          |-> left.ids \cup right.ids,
         confidence   |-> [field \in CoreFields |->
                             PreferredSide(left, right, field).confidence[field]],
         alternatives |-> Alternatives(left, right),
         mergedIds    |-> {left.id, right.id},
         members      |-> left.members \cup right.members]

\* A draft as _process_candidate returns it: never merged.
AsDraft(id, facts) ==
    [id |-> id, name |-> facts.name, website |-> facts.website,
     canonical |-> facts.canonical, ids |-> facts.ids,
     confidence |-> facts.confidence, alternatives |-> {}, mergedIds |-> {},
     members |-> {id}]

\* Mutant: the flag "merged" is not set, so a merged draft is also appended.
AbsorbTwice(acc, draft) ==
    LET merging == {i \in DOMAIN acc.unique : Resolve(acc.unique[i], draft) = "merge"}
    IN  [acc EXCEPT !.unique =
           Append([i \in DOMAIN @ |-> IF i \in merging THEN Merge(@[i], draft) ELSE @[i]],
                  draft)]

\* Mutant: the later draft replaces the entity it matches.
AbsorbReplacing(acc, draft) ==
    LET merging == {i \in DOMAIN acc.unique : Resolve(acc.unique[i], draft) = "merge"}
    IN  [acc EXCEPT !.unique =
           IF merging = {} THEN Append(@, draft) ELSE [@ EXCEPT ![Min(merging)] = draft]]

(***************************************************************************)
(* _deduplicate: each draft is compared with the entities kept so far, in  *)
(* order, up to the first one that decides (a merge, or the ValueError of  *)
(* an unusable name, which ends the pass).                                 *)
(***************************************************************************)
Absorb(acc, draft) ==
    LET outcome  == [i \in DOMAIN acc.unique |-> Resolve(acc.unique[i], draft)]
        deciding == {i \in DOMAIN outcome : outcome[i] \in {"merge", "raise"}}
        first    == Min(deciding \cup {Len(acc.unique) + 1})
        doubtful == {i \in DOMAIN outcome : i < first /\ outcome[i] = "manual"}
        reviewed == [acc EXCEPT !.reviews = @ + Cardinality(doubtful)]
    IN  CASE acc.raised -> acc
          [] ~acc.raised /\ deciding = {} ->
               [reviewed EXCEPT !.unique = Append(@, draft)]
          [] ~acc.raised /\ deciding # {} ->
               IF outcome[first] = "raise"
               THEN [acc EXCEPT !.raised = TRUE]
               ELSE [reviewed EXCEPT !.unique[first] = Merge(@, draft)]

\* The pass after each draft, starting with no company.  (The choice from a
\* single value has TLC compute the previous result once, not for each use.)
DeduplicationPass(drafts) ==
    LET pass[n \in 0..Len(drafts)] ==
          IF n = 0 THEN [unique |-> <<>>, reviews |-> 0, raised |-> FALSE]
          ELSE CHOOSE next \in {Absorb(acc, drafts[n]) : acc \in {pass[n - 1]}} : TRUE
    IN  pass

Deduplicate(drafts) == DeduplicationPass(drafts)[Len(drafts)]
=============================================================================
