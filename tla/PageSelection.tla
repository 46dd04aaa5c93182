---------------------------- MODULE PageSelection ----------------------------
(***************************************************************************)
(* The choice of the pages a company is extracted from:                    *)
(* PageSelectionService and its use by ResearchOrchestrator.  A page is    *)
(* known from its own document and from the links to it; what is known is  *)
(* merged, classified and scored, and the best pages that were fetched are *)
(* kept.                                                                   *)
(*                                                                         *)
(* A page is identified by the canonical URL it names, and looked up by it *)
(* with its query; of two documents with the same one the later counts.    *)
(* The selector lists URLs without their query, under the port it saw      *)
(* first: what is known of a page counts for the page it is RankedAs, and  *)
(* a page that is ranked as another one is never found again.  The bonus   *)
(* for a place in the navigation is left out: the orchestrator gives none. *)
(*                                                                         *)
(* A text is what matching finds in it: the page types it names, the terms *)
(* of the query it holds, and its length, by which one of two is kept.     *)
(***************************************************************************)
EXTENDS Integers, Sequences, FiniteSets, SequencesExt

CONSTANTS
    Pages,   \* the page identities of the website, numbered as their URLs sort
    Home,    \* the canonical home page
    RankedAs,  \* RankedAs[p]: the page whose URL the selector lists for p
    Limit    \* RESEARCH_CRAWL_PAGE_LIMIT

ASSUME PageSelectionAssumption ==
    /\ Pages \subseteq Nat \ {0} /\ IsFiniteSet(Pages)
    /\ Home \in Pages /\ Limit \in Nat \ {0}
    /\ RankedAs \in [Pages -> Pages] /\ RankedAs[Home] = Home
    /\ \A p \in Pages : RankedAs[RankedAs[p]] = RankedAs[p]

Types == <<"about", "services", "solutions", "expertise", "contact">>

\* What matching may find in a text, and in all that is known of the pages.
TextOK(text) ==
    text.types \subseteq ToSet(Types) /\ IsFiniteSet(text.terms) /\ text.length \in Nat

EvidenceOK(c) ==
    TextOK(c.path) /\ TextOK(c.anchor) /\ TextOK(c.title) /\ TextOK(c.headings)

KnownOK(known) ==
    \A p \in Pages :
        /\ DOMAIN known[p] = 1..Len(known[p]) /\ Len(known[p]) \in Nat
        /\ \A i \in DOMAIN known[p] : EvidenceOK(known[p][i])
        /\ RankedAs[p] # p => known[p] = <<>>

NoText == [types |-> {}, terms |-> {}, length |-> 0]

\* A candidate about which nothing is known but its URL.  The texts are those of
\* its path, anchor, title and headings.
Bare(path) == [path |-> path, anchor |-> NoText, title |-> NoText, headings |-> NoText]

\* The longest text; the first of several that are equally long.
Longest(texts) ==
    texts[CHOOSE i \in DOMAIN texts : \A j \in DOMAIN texts :
            \/ texts[j].length < texts[i].length
            \/ texts[j].length = texts[i].length /\ i <= j]

\* A path, the headings or a text name page types; the first in order counts.
First(types) == Types[Min({i \in DOMAIN Types : Types[i] \in types})]
Named(c) == c.anchor.types \cup c.title.types \cup c.headings.types
Terms(c) == c.path.terms \cup c.anchor.terms \cup c.title.terms \cup c.headings.terms

Category(p, c) ==
    IF p = Home THEN "homepage"
    ELSE IF c.path.types # {} THEN First(c.path.types)
    ELSE IF Named(c) # {} THEN First(Named(c))
    ELSE IF Terms(c) # {} THEN "relevant"
    ELSE "other"

Base(category) ==
    CASE category = "homepage" -> 1400
      [] category = "about" -> 1200
      [] category = "services" -> 1000
      [] category = "solutions" -> 800
      [] category = "expertise" -> 600
      [] category = "contact" -> 400
      [] category = "relevant" -> 200
      [] category = "other" -> 0

\* How much of the evidence agrees with the category.
Bonus(p, c) ==
    LET type == Category(p, c)
        Worth(points, types) == IF type \in types THEN points ELSE 0
    IN CASE type \in {"homepage", "other"} -> 0
         [] type = "relevant" -> Min({40, 10 * Cardinality(Terms(c))})
         [] OTHER -> Worth(40, c.path.types) + Worth(20, c.anchor.types)
                     + Worth(15, c.title.types) + Worth(10, c.headings.types)

PageScore(p, c) == Base(Category(p, c)) + Bonus(p, c)

\* known[p]: what is known of the pages ranked as p, in the order it was found:
\* their documents and the links to them, merged into one candidate.
Known(known, p) ==
    LET seen == known[p]
    IN [path |-> seen[1].path,
        anchor |-> Longest([i \in DOMAIN seen |-> seen[i].anchor]),
        title |-> Longest([i \in DOMAIN seen |-> seen[i].title]),
        headings |-> [types |-> UNION {seen[i].headings.types : i \in DOMAIN seen},
                      terms |-> UNION {seen[i].headings.terms : i \in DOMAIN seen}]]

\* The home page is always a candidate.
Found(known, p) == Len(known[p]) > 0
Candidates(known) == {p \in Pages : Found(known, p)} \cup {Home}
Score(known, p) ==
    IF Found(known, p) THEN PageScore(p, Known(known, p)) ELSE Base("homepage")

\* Mutant: the sort key starts with the URL.
AheadByURL(known, p, q) == p < q

Ahead(known, p, q) ==
    \/ Score(known, p) > Score(known, q)
    \/ Score(known, p) = Score(known, q) /\ p < q

\* The pages that fewer than Limit candidates are ahead of.
Ranked(known) ==
    {p \in Candidates(known) :
        Cardinality({q \in Candidates(known) : Ahead(known, q, p)}) < Limit}

\* A set of candidates as a sequence, best first.
BestFirst(known, S) ==
    [i \in 1..Cardinality(S) |->
        CHOOSE p \in S : Cardinality({q \in S : Ahead(known, q, p)}) = i - 1]

\* The ranked pages that were fetched under the URL they are ranked by, or else the
\* first page fetched: crawled is the sequence of successful pages, not empty.  A
\* ranked URL that was not fetched leaves its place empty.
SelectCleanPages(known, crawled) ==
    LET kept == Ranked(known) \cap ToSet(crawled)
    IN IF kept = {} THEN <<crawled[1]>> ELSE BestFirst(known, kept)

=============================================================================
