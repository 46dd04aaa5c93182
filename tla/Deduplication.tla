--------------------------- MODULE Deduplication ---------------------------
(***************************************************************************)
(* The drafts of one run, in the order the run verifies them, and the      *)
(* companies the orchestrator resolves them into after each one.           *)
(***************************************************************************)
EXTENDS EntityResolution

CONSTANTS
    DraftFacts, \* what the extraction and enrichment of one site can yield
    MaxDrafts   \* bound: drafts in a run

ASSUME DeduplicationAssumption ==
    /\ MaxDrafts \in Nat \ {0}
    /\ DraftFacts \subseteq ProfilesOver(DraftFacts)

VARIABLES
    verified,   \* drafts of run(): those verified so far
    resolved    \* what the latest call of _deduplicate(drafts) returned

draftVars == <<verified, resolved>>

Companies == resolved.unique

DraftsInit == verified = <<>> /\ resolved = Deduplicate(<<>>)

\* run(): drafts.append(draft); a pass that raises ends the run.
AddDraft(facts) ==
    /\ Len(verified) < MaxDrafts
    /\ ~resolved.raised
    /\ verified' = Append(verified, AsDraft(Len(verified) + 1, facts))
    /\ resolved' = Deduplicate(verified')

DraftsNext == \E facts \in DraftFacts : AddDraft(facts)

DraftsSpec == DraftsInit /\ [][DraftsNext]_draftVars

-----------------------------------------------------------------------------
\* Every verified draft ends in exactly one company: merging loses none and
\* counts none twice (_deduplicate replaces unique[index] and breaks).
EveryDraftInOneCompany ==
    ~resolved.raised =>
        \A i \in DOMAIN verified :
            Cardinality({c \in DOMAIN Companies : i \in Companies[c].members}) = 1

\* Whatever chain of merges put them together, no company holds two drafts
\* whose identifiers of one source differ ("Conflicting IDs keep records
\* separate"): the union of identifiers a merge keeps must protect later ones.
ConflictingIdentifiersStayApart ==
    \A c \in DOMAIN Companies :
        \A i, j \in Companies[c].members :
            ~HaveConflictingIdentifiers(verified[i], verified[j])

\* Names never merge: each draft of a merged company shares a domain or an
\* identifier with another draft of that company ("name matches without
\* corroborating evidence ... never merge records automatically").
Corroborated(left, right) ==
    \/ left.ids \cap right.ids # {}
    \/ {left.website, left.canonical} \cap {right.website, right.canonical} # {}

MergesAreCorroborated ==
    \A c \in DOMAIN Companies :
        \A i \in Companies[c].members :
            Companies[c].members # {i} =>
                \E j \in Companies[c].members \ {i} : Corroborated(verified[i], verified[j])

\* A later draft never splits a company nor removes one: the count the search
\* loop compares with result_count only grows, since each pass starts over.
CompaniesOnlyGrow ==
    [][~resolved'.raised =>
        /\ Len(Companies') >= Len(Companies)
        /\ \A c \in DOMAIN Companies : Companies[c].members \subseteq Companies'[c].members]_draftVars

\* The documented promise of _merge_records, "retaining every alternative":
\* every name or website a member was verified with is the company's value or
\* one of its recorded alternatives.
AlternativesRetained ==
    \A c \in DOMAIN Companies :
        \A i \in Companies[c].members, field \in CoreFields :
            \/ verified[i][field] = Companies[c][field]
            \/ <<field, verified[i][field]>> \in Companies[c].alternatives
=============================================================================
