--------------------- MODULE ResearchOrchestratorProofs ---------------------
(***************************************************************************)
(* Theorems of Deduplication and ResearchOrchestrator for any facts,       *)
(* candidates, websites, budgets, providers and formats, and any external  *)
(* sources of identifiers.                                                 *)
(*                                                                         *)
(* First the pass of _deduplicate over any number of drafts, by induction  *)
(* over the drafts absorbed: a set of naturals that holds 0 and is closed  *)
(* under successor is Nat (NatSetInduction), which follows from the        *)
(* well-foundedness of strict inclusion over finite sets.  Then the run:   *)
(* the inductive invariant IInv, the accounting of websites, the           *)
(* refinement of RunLifecycle, and what the results of a run are.          *)
(***************************************************************************)
EXTENDS ResearchOrchestrator, Deduplication, FiniteSetTheorems, TLAPS

\* A nonempty set of naturals has a least element: among the intervals 0..n of
\* its members one contains no smaller one.
LEMMA LeastElement ==
    ASSUME NEW S \in SUBSET Nat, S # {}
    PROVE  \E x \in S : \A y \in S : x <= y
<1> DEFINE Below == {0..n : n \in S}
           R == StrictSubsetOrdering(Nat)
<1>1. Below \subseteq FiniteSubsetsOf(Nat)
  <2> SUFFICES ASSUME NEW n \in S PROVE 0..n \in FiniteSubsetsOf(Nat)
    OBVIOUS
  <2>. QED BY FS_Interval DEF FiniteSubsetsOf
<1>2. PICK B \in Below : \A C \in Below : <<C, B>> \notin R
  <2> HIDE DEF R, Below
  <2>1. Below # {}
    BY DEF Below
  <2>2. IsWellFoundedOn(R, FiniteSubsetsOf(Nat))
    BY FS_StrictSubsetOrderingWellFounded DEF R
  <2>. QED  BY <1>1, <2>1, <2>2, WFMin
<1>3. PICK x \in S : B = 0..x
  OBVIOUS
<1>4. ASSUME NEW y \in S, y < x PROVE FALSE
  <2>1. 0..y \subseteq B /\ 0..y # B /\ 0..y \in Below
    BY <1>3, <1>4
  <2>2. <<0..y, B>> \in R
    BY <2>1, <1>3 DEF StrictSubsetOrdering
  <2>. QED BY <1>2, <2>1, <2>2
<1>. QED  BY <1>4

\* Induction in a form without an operator parameter.
LEMMA NatSetInduction ==
    ASSUME NEW S \in SUBSET Nat, 0 \in S, \A n \in S : n + 1 \in S
    PROVE  S = Nat
<1>1. SUFFICES ASSUME Nat \ S # {} PROVE FALSE
  OBVIOUS
<1>2. PICK x \in Nat \ S : \A y \in Nat \ S : x <= y
  BY <1>1, LeastElement
<1>3. x # 0 /\ x - 1 \in Nat
  BY <1>2
<1>4. x - 1 \in S
  BY <1>2, <1>3
<1>. QED BY <1>2, <1>3, <1>4

-----------------------------------------------------------------------------
\* The pass as a function: what it has resolved after n drafts.
IsPass(pass, ds, n) ==
    /\ DOMAIN pass = 0..n
    /\ pass[0] = [unique |-> <<>>, reviews |-> 0, raised |-> FALSE]
    /\ \A i \in 1..n : pass[i] = Absorb(pass[i - 1], ds[i])

\* The pass is defined over any number of drafts.
LEMMA PassExists ==
    ASSUME NEW ds, NEW n \in Nat
    PROVE  \E f : IsPass(f, ds, n)
<1> DEFINE S == {k \in Nat : \E f : IsPass(f, ds, k)}
<1>1. 0 \in S
  <2> DEFINE f == [i \in 0..0 |-> [unique |-> <<>>, reviews |-> 0, raised |-> FALSE]]
  <2>. IsPass(f, ds, 0)
    BY DEF IsPass
  <2>. QED OBVIOUS
<1>2. ASSUME NEW k \in S PROVE k + 1 \in S
  <2>1. PICK f : IsPass(f, ds, k)
    OBVIOUS
  <2> DEFINE g == [i \in 0..(k + 1) |-> IF i = k + 1 THEN Absorb(f[k], ds[k + 1]) ELSE f[i]]
  <2>2. /\ DOMAIN g = 0..(k + 1)
        /\ \A i \in 0..k : g[i] = f[i]
        /\ g[k + 1] = Absorb(f[k], ds[k + 1])
    OBVIOUS
  <2>3. ASSUME NEW i \in 1..(k + 1) PROVE g[i] = Absorb(g[i - 1], ds[i])
    <3>1. CASE i = k + 1
      BY <2>2, <3>1
    <3>2. CASE i # k + 1
      BY <2>1, <2>2, <3>2 DEF IsPass
    <3>. QED BY <3>1, <3>2
  <2>4. IsPass(g, ds, k + 1)
    <3>1. k \in Nat
      OBVIOUS
    <3>2. g[0] = f[0]
      BY <2>2, <3>1
    <3> HIDE DEF g, S
    <3>. QED BY <2>1, <2>2, <2>3, <3>1, <3>2 DEF IsPass
  <2>. QED BY <2>4
<1>3. S = Nat
  <2> HIDE DEF S
  <2>. QED BY <1>1, <1>2, NatSetInduction DEF S
<1>. QED BY <1>3

\* Two passes agree on the drafts both have absorbed.
LEMMA PassIsUnique ==
    ASSUME NEW ds, NEW f, NEW g, NEW n \in Nat, NEW m \in Nat, n <= m,
           IsPass(f, ds, n), IsPass(g, ds, m)
    PROVE  \A i \in 0..n : f[i] = g[i]
<1> DEFINE S == {k \in Nat : k <= n => f[k] = g[k]}
<1>1. 0 \in S
  BY DEF IsPass
<1>2. ASSUME NEW k \in S PROVE k + 1 \in S
  <2> SUFFICES ASSUME k + 1 <= n PROVE f[k + 1] = g[k + 1]
    OBVIOUS
  <2>. QED BY DEF IsPass
<1>3. S = Nat
  <2> HIDE DEF S
  <2>. QED BY <1>1, <1>2, NatSetInduction DEF S
<1>. QED BY <1>3

\* The recursive function of EntityResolution is that pass.
LEMMA PassIsPass ==
    ASSUME NEW E, NEW ds \in Seq(E)
    PROVE  IsPass(DeduplicationPass(ds), ds, Len(ds))
<1> DEFINE P(f) == f = [n \in 0..Len(ds) |->
                          IF n = 0 THEN [unique |-> <<>>, reviews |-> 0, raised |-> FALSE]
                          ELSE CHOOSE next \in {Absorb(acc, ds[n]) : acc \in {f[n - 1]}} : TRUE]
<1>1. Len(ds) \in Nat
  OBVIOUS
<1>2. ASSUME NEW acc, NEW d
      PROVE  (CHOOSE next \in {Absorb(a, d) : a \in {acc}} : TRUE) = Absorb(acc, d)
  OBVIOUS
<1>3. \E f : P(f)
  <2>1. PICK f : IsPass(f, ds, Len(ds))
    BY <1>1, PassExists
  <2> DEFINE h == [n \in 0..Len(ds) |-> f[n]]
  <2>2. P(h)
    BY <1>1, <1>2, <2>1 DEF IsPass
  <2>. QED BY <2>2
<1>4. DeduplicationPass(ds) = CHOOSE f : P(f)
  BY DEF DeduplicationPass
<1>5. P(DeduplicationPass(ds))
  <2> HIDE DEF P
  <2>. QED BY <1>3, <1>4
<1> DEFINE p == DeduplicationPass(ds)
<1>6. /\ DOMAIN p = 0..Len(ds)
      /\ \A n \in 0..Len(ds) :
           p[n] = IF n = 0 THEN [unique |-> <<>>, reviews |-> 0, raised |-> FALSE]
                  ELSE CHOOSE next \in {Absorb(acc, ds[n]) : acc \in {p[n - 1]}} : TRUE
  BY <1>5
<1>7. ASSUME NEW n \in 1..Len(ds) PROVE p[n] = Absorb(p[n - 1], ds[n])
  BY <1>1, <1>2, <1>6
<1> HIDE DEF p
<1>8. IsPass(p, ds, Len(ds))
  BY <1>1, <1>6, <1>7 DEF IsPass
<1>. QED BY <1>8 DEF p

-----------------------------------------------------------------------------
\* The accumulators of a pass over entities of E.
Results(E) == [unique : Seq(E), reviews : Nat, raised : BOOLEAN]

\* What one draft does to the companies: nothing, it raises, it becomes a
\* company of its own, or it joins the first company it resolves to merge with.
LEMMA AbsorbCases ==
    ASSUME NEW E, NEW acc \in Results(E), ~acc.raised, NEW draft \in E,
           \A left, right \in E : Merge(left, right) \in E
    PROVE  /\ Absorb(acc, draft) \in Results(E)
           /\ \/ /\ Absorb(acc, draft).raised
                 /\ Absorb(acc, draft).unique = acc.unique
              \/ /\ ~Absorb(acc, draft).raised
                 /\ Absorb(acc, draft).unique = Append(acc.unique, draft)
              \/ /\ ~Absorb(acc, draft).raised
                 /\ \E i \in 1..Len(acc.unique) :
                      /\ Resolve(acc.unique[i], draft) = "merge"
                      /\ Absorb(acc, draft).unique =
                           [acc.unique EXCEPT ![i] = Merge(acc.unique[i], draft)]
<1> DEFINE outcome == [i \in DOMAIN acc.unique |-> Resolve(acc.unique[i], draft)]
           deciding == {i \in DOMAIN outcome : outcome[i] \in {"merge", "raise"}}
           first == Min(deciding \cup {Len(acc.unique) + 1})
           doubtful == {i \in DOMAIN outcome : i < first /\ outcome[i] = "manual"}
           reviewed == [acc EXCEPT !.reviews = @ + Cardinality(doubtful)]
<1>1. Absorb(acc, draft) =
        IF deciding = {} THEN [reviewed EXCEPT !.unique = Append(@, draft)]
        ELSE IF outcome[first] = "raise" THEN [acc EXCEPT !.raised = TRUE]
        ELSE [reviewed EXCEPT !.unique[first] = Merge(@, draft)]
  BY DEF Absorb
<1>2. /\ DOMAIN acc.unique = 1..Len(acc.unique) /\ Len(acc.unique) \in Nat
      /\ acc.unique \in Seq(E) /\ acc.reviews \in Nat /\ acc.raised = FALSE
      /\ acc = [unique |-> acc.unique, reviews |-> acc.reviews, raised |-> acc.raised]
  BY DEF Results
<1>9. /\ DOMAIN outcome = 1..Len(acc.unique)
      /\ deciding \subseteq 1..Len(acc.unique)
      /\ doubtful \subseteq 1..Len(acc.unique)
  <2>1. DOMAIN outcome = 1..Len(acc.unique)
    BY <1>2
  <2> HIDE DEF outcome, first
  <2>. QED BY <2>1
<1>3. deciding # {} => first \in deciding
  <2> DEFINE T == deciding \cup {Len(acc.unique) + 1}
  <2>1. T \in SUBSET Nat /\ T # {}
    <3> HIDE DEF deciding
    <3>. QED BY <1>2, <1>9
  <2>2. PICK x \in T : \A y \in T : x <= y
    <3> HIDE DEF T
    <3>. QED BY <2>1, LeastElement
  <2>3. first \in T /\ \A y \in T : first <= y
    <3> HIDE DEF T, deciding
    <3>. QED BY <2>2 DEF Min, T
  <2> HIDE DEF deciding, first
  <2>. QED BY <1>2, <1>9, <2>3
<1>4. Cardinality(doubtful) \in Nat
  <2> HIDE DEF doubtful
  <2>1. IsFiniteSet(1..Len(acc.unique))
    <3>1. Len(acc.unique) \in Int /\ 1 \in Int
      BY <1>2
    <3>. QED BY ONLY <3>1, FS_Interval
  <2>2. IsFiniteSet(doubtful)
    BY <1>9, <2>1, FS_Subset
  <2>. QED BY <2>2, FS_CardinalityType
<1>5. /\ reviewed = [unique |-> acc.unique, reviews |-> acc.reviews + Cardinality(doubtful),
                     raised |-> FALSE]
      /\ acc.reviews + Cardinality(doubtful) \in Nat
  <2> DEFINE c == Cardinality(doubtful)
  <2>1. reviewed = [acc EXCEPT !.reviews = @ + c] /\ c \in Nat
    BY <1>4
  <2> HIDE DEF c, reviewed
  <2>2. acc.reviews + c \in Nat
    BY <1>2, <2>1
  <2>3. reviewed = [unique |-> acc.unique, reviews |-> acc.reviews + c, raised |-> acc.raised]
    BY <2>1 DEF Results
  <2>. QED BY <1>2, <2>2, <2>3 DEF c
<1>6. CASE deciding = {}
  <2> HIDE DEF reviewed, deciding
  <2>1. Absorb(acc, draft) =
          [unique |-> Append(acc.unique, draft),
           reviews |-> acc.reviews + Cardinality(doubtful), raised |-> FALSE]
    BY <1>1, <1>5, <1>6
  <2> HIDE DEF doubtful
  <2>. QED BY <1>2, <1>5, <2>1 DEF Results
<1>7. CASE deciding # {} /\ outcome[first] = "raise"
  <2> HIDE DEF reviewed, deciding, outcome, first
  <2>1. Absorb(acc, draft) =
          [unique |-> acc.unique, reviews |-> acc.reviews, raised |-> TRUE]
    BY <1>1, <1>2, <1>7
  <2>. QED BY <1>2, <2>1 DEF Results
<1>8. CASE deciding # {} /\ outcome[first] # "raise"
  <2>1. first \in 1..Len(acc.unique) /\ Resolve(acc.unique[first], draft) = "merge"
    <3> HIDE DEF first
    <3>. QED BY <1>2, <1>3, <1>8
  <2> HIDE DEF reviewed, deciding, outcome, first, doubtful
  <2>2. Absorb(acc, draft) =
          [unique |-> [acc.unique EXCEPT ![first] = Merge(acc.unique[first], draft)],
           reviews |-> acc.reviews + Cardinality(doubtful), raised |-> FALSE]
    BY <1>1, <1>2, <1>5, <1>8, <2>1
  <2>3. Merge(acc.unique[first], draft) \in E
    BY <1>2, <2>1
  <2>4. [acc.unique EXCEPT ![first] = Merge(acc.unique[first], draft)] \in Seq(E)
    BY <1>2, <2>1, <2>3
  <2>. QED BY <1>5, <2>1, <2>2, <2>4 DEF Results
<1>. QED BY <1>6, <1>7, <1>8

\* A pass that has raised stays so.
LEMMA AbsorbRaised ==
    ASSUME NEW acc, acc.raised, NEW draft
    PROVE  Absorb(acc, draft) = acc
  BY DEF Absorb

-----------------------------------------------------------------------------
\* What is true of a company and the drafts it was merged from.
Faithful(ds, c) ==
    /\ c.id \in c.members
    /\ c.ids = UNION {ds[i].ids : i \in c.members} /\ IsFiniteSet(c.ids)
    /\ \E i \in c.members : c.website = ds[i].website
    /\ \E i \in c.members : c.canonical = ds[i].canonical
    /\ \A i, j \in c.members : ~HaveConflictingIdentifiers(ds[i], ds[j])
    /\ \A i \in c.members : c.members # {i} =>
         \E j \in c.members \ {i} : Corroborated(ds[i], ds[j])

\* Two entities merge only with a domain or an identifier in common, and only if
\* neither is unclear and they do not contradict each other.
LEMMA MergeNeedsEvidence ==
    ASSUME NEW left, NEW right, Resolve(left, right) = "merge"
    PROVE  /\ ~HasUnclearIdentifiers(left) /\ ~HasUnclearIdentifiers(right)
           /\ ~HaveConflictingIdentifiers(left, right)
           /\ ShareDomain(left, right) \/ left.ids \cap right.ids # {}
  BY DEF Resolve

\* An entity that is not unclear has one identifier of each source.
LEMMA OneValuePerSource ==
    ASSUME NEW entity, IsFiniteSet(entity.ids), ~HasUnclearIdentifiers(entity),
           NEW source \in Sources,
           NEW v \in ValuesOf(entity.ids, source), NEW w \in ValuesOf(entity.ids, source)
    PROVE  v = w
<1> DEFINE ofSource == {id \in entity.ids : id[1] = source}
           values == ValuesOf(entity.ids, source)
           value == [id \in ofSource |-> id[2]]
<1>1. value \in Surjection(ofSource, values)
  BY DEF Surjection, ValuesOf
<1>2. IsFiniteSet(ofSource)
  BY FS_Subset
<1>3. IsFiniteSet(values)
  <2> HIDE DEF values, ofSource, value
  <2>. QED BY <1>1, <1>2, FS_Surjection
<1>4. ~(Cardinality(values) > 1)
  BY DEF HasUnclearIdentifiers
<1>5. Cardinality(values) \in Nat /\ Cardinality(values) # 0
  <2> HIDE DEF values
  <2>. QED BY <1>3, FS_CardinalityType, FS_EmptySet DEF values
<1>6. Cardinality(values) = 1
  <2> HIDE DEF values
  <2>. QED BY <1>4, <1>5
<1>. QED BY <1>3, <1>6, FS_Singleton

\* No member of one contradicts a member of the other.
LEMMA MergedMembersAgree ==
    ASSUME NEW ds, NEW left, NEW right, Faithful(ds, left), Faithful(ds, right),
           Resolve(left, right) = "merge", NEW i \in left.members, NEW j \in right.members
    PROVE  /\ ~HaveConflictingIdentifiers(ds[i], ds[j])
           /\ ~HaveConflictingIdentifiers(ds[j], ds[i])
<1> SUFFICES ASSUME NEW source \in Sources,
                    NEW v \in ValuesOf(ds[i].ids, source), NEW w \in ValuesOf(ds[j].ids, source)
             PROVE  v = w
  BY DEF HaveConflictingIdentifiers
<1>1. v \in ValuesOf(left.ids, source) /\ w \in ValuesOf(right.ids, source)
  BY DEF Faithful, ValuesOf
<1>2. PICK x : x \in ValuesOf(left.ids, source) /\ x \in ValuesOf(right.ids, source)
  BY <1>1, MergeNeedsEvidence DEF HaveConflictingIdentifiers
<1>3. v = x /\ w = x
  BY <1>1, <1>2, MergeNeedsEvidence, OneValuePerSource DEF Faithful
<1>. QED BY <1>3

\* Merging two faithful companies is faithful to the members of both.
LEMMA MergeIsFaithful ==
    ASSUME NEW ds, NEW left, NEW right, Faithful(ds, left), Faithful(ds, right),
           Resolve(left, right) = "merge", left.members \cap right.members = {}
    PROVE  Faithful(ds, Merge(left, right))
<1> DEFINE merged == Merge(left, right)
<1>1. /\ merged.members = left.members \cup right.members
      /\ merged.ids = left.ids \cup right.ids
      /\ merged.id \in {left.id, right.id}
      /\ merged.website \in {left.website, right.website}
      /\ merged.canonical = left.canonical
  BY DEF Merge, PreferredSide
<1> HIDE DEF merged
<1>2. merged.id \in merged.members
  BY <1>1 DEF Faithful
<1>3. merged.ids = UNION {ds[i].ids : i \in merged.members}
  BY <1>1 DEF Faithful
<1>4. IsFiniteSet(merged.ids)
  <2>1. IsFiniteSet(left.ids) /\ IsFiniteSet(right.ids)
    BY DEF Faithful
  <2>2. IsFiniteSet(left.ids \cup right.ids)
    BY <2>1, FS_Union
  <2>. QED BY <1>1, <2>2
<1>5. /\ \E i \in merged.members : merged.website = ds[i].website
      /\ \E i \in merged.members : merged.canonical = ds[i].canonical
  BY <1>1 DEF Faithful
<1>6. ASSUME NEW i \in merged.members, NEW j \in merged.members
      PROVE  ~HaveConflictingIdentifiers(ds[i], ds[j])
  BY <1>1, MergedMembersAgree DEF Faithful
<1>7. \E i \in left.members, j \in right.members :
         Corroborated(ds[i], ds[j]) /\ Corroborated(ds[j], ds[i])
  <2>1. CASE left.website = right.website
    BY <2>1 DEF Faithful, Corroborated
  <2>2. CASE left.canonical = right.canonical
    BY <2>2 DEF Faithful, Corroborated
  <2>3. CASE left.ids \cap right.ids # {}
    BY <2>3 DEF Faithful, Corroborated
  <2>. QED BY <2>1, <2>2, <2>3, MergeNeedsEvidence DEF ShareDomain
<1>8. ASSUME NEW k \in merged.members, merged.members # {k}
      PROVE  \E m \in merged.members \ {k} : Corroborated(ds[k], ds[m])
  <2>1. CASE k \in left.members /\ left.members # {k}
    BY <1>1, <2>1 DEF Faithful
  <2>2. CASE k \in right.members /\ right.members # {k}
    BY <1>1, <2>2 DEF Faithful
  <2>3. CASE left.members = {k} \/ right.members = {k}
    BY <1>1, <1>7, <2>3
  <2>. QED BY <1>1, <2>1, <2>2, <2>3
<1>9. Faithful(ds, merged)
  BY <1>2, <1>3, <1>4, <1>5, <1>6, <1>8 DEF Faithful
<1>. QED BY <1>9 DEF merged

-----------------------------------------------------------------------------
\* The drafts a run hands to _deduplicate, each with its place in the list.
AreDrafts(E, ds) ==
    /\ ds \in Seq(E)
    /\ \A i \in 1..Len(ds) : ds[i].id = i /\ ds[i].members = {i} /\ IsFiniteSet(ds[i].ids)

\* No draft is a member of two companies.
Disjoint(companies) ==
    \A c, d \in DOMAIN companies : c # d => companies[c].members \cap companies[d].members = {}

\* What a pass has established once n drafts are absorbed: it is inductive over n.
PassOK(ds, n, acc) ==
    /\ \A c \in DOMAIN acc.unique :
         Faithful(ds, acc.unique[c]) /\ acc.unique[c].members \subseteq 1..n
    /\ Disjoint(acc.unique)
    /\ ~acc.raised =>
         \A i \in 1..n : \E c \in DOMAIN acc.unique : i \in acc.unique[c].members

\* A draft is a faithful company by itself.
LEMMA DraftIsFaithful ==
    ASSUME NEW E, NEW ds, AreDrafts(E, ds), NEW i \in 1..Len(ds)
    PROVE  Faithful(ds, ds[i])
  BY DEF AreDrafts, Faithful, HaveConflictingIdentifiers

\* The induction step: absorbing one more draft.
LEMMA AbsorbOK ==
    ASSUME NEW E, \A left, right \in E : Merge(left, right) \in E,
           NEW ds, AreDrafts(E, ds), NEW n \in Nat, n + 1 <= Len(ds),
           NEW acc \in Results(E), PassOK(ds, n, acc)
    PROVE  /\ Absorb(acc, ds[n + 1]) \in Results(E)
           /\ PassOK(ds, n + 1, Absorb(acc, ds[n + 1]))
<1> DEFINE draft == ds[n + 1]
           next == Absorb(acc, draft)
<1>1. /\ draft \in E /\ Faithful(ds, draft) /\ draft.members = {n + 1}
      /\ Len(ds) \in Nat /\ n + 1 \in 1..Len(ds)
  BY DraftIsFaithful DEF AreDrafts
<1>2. CASE acc.raised
  <2>1. next = acc
    BY <1>2, AbsorbRaised
  <2> HIDE DEF next
  <2>2. PassOK(ds, n + 1, next)
    BY <1>2, <2>1 DEF PassOK
  <2>. QED BY <2>1, <2>2 DEF next
<1>3. CASE ~acc.raised
  <2>1. /\ next \in Results(E)
        /\ \/ next.raised /\ next.unique = acc.unique
           \/ ~next.raised /\ next.unique = Append(acc.unique, draft)
           \/ /\ ~next.raised
              /\ \E i \in 1..Len(acc.unique) :
                   /\ Resolve(acc.unique[i], draft) = "merge"
                   /\ next.unique = [acc.unique EXCEPT ![i] = Merge(acc.unique[i], draft)]
    <3> HIDE DEF draft
    <3>. QED BY <1>1, <1>3, AbsorbCases
  <2>2. acc.unique \in Seq(E) /\ DOMAIN acc.unique = 1..Len(acc.unique) /\ Len(acc.unique) \in Nat
    BY DEF Results
  <2>3. \A c \in DOMAIN acc.unique :
          /\ Faithful(ds, acc.unique[c]) /\ acc.unique[c].members \subseteq 1..n
          /\ acc.unique[c].members \cap draft.members = {}
    BY <1>1 DEF PassOK
  <2> HIDE DEF draft, next
  <2>4. CASE next.raised /\ next.unique = acc.unique
    <3>1. PassOK(ds, n + 1, next)
      BY <2>3, <2>4 DEF PassOK
    <3>. QED BY <2>1, <3>1 DEF next, draft
  <2>5. CASE ~next.raised /\ next.unique = Append(acc.unique, draft)
    <3>1. /\ DOMAIN next.unique = 1..(Len(acc.unique) + 1)
          /\ next.unique[Len(acc.unique) + 1] = draft
          /\ \A c \in 1..Len(acc.unique) : next.unique[c] = acc.unique[c]
      BY <1>1, <2>2, <2>5
    <3>2. ASSUME NEW c \in DOMAIN next.unique
          PROVE  Faithful(ds, next.unique[c]) /\ next.unique[c].members \subseteq 1..(n + 1)
      BY <1>1, <2>2, <2>3, <3>1
    <3>3. Disjoint(next.unique)
      <4> SUFFICES ASSUME NEW c \in 1..(Len(acc.unique) + 1),
                          NEW d \in 1..(Len(acc.unique) + 1), c # d
                   PROVE  next.unique[c].members \cap next.unique[d].members = {}
        BY <3>1 DEF Disjoint
      <4>1. CASE c \in 1..Len(acc.unique) /\ d \in 1..Len(acc.unique)
        BY <2>2, <3>1, <4>1 DEF PassOK, Disjoint
      <4>2. CASE c = Len(acc.unique) + 1
        <5>1. d \in DOMAIN acc.unique /\ next.unique[d] = acc.unique[d]
          BY <2>2, <3>1, <4>2
        <5>. QED BY <2>3, <3>1, <4>2, <5>1
      <4>3. CASE d = Len(acc.unique) + 1
        <5>1. c \in DOMAIN acc.unique /\ next.unique[c] = acc.unique[c]
          BY <2>2, <3>1, <4>3
        <5>. QED BY <2>3, <3>1, <4>3, <5>1
      <4>. QED BY <2>2, <4>1, <4>2, <4>3
    <3>4. ASSUME NEW i \in 1..(n + 1)
          PROVE  \E c \in DOMAIN next.unique : i \in next.unique[c].members
      <4>1. CASE i = n + 1
        BY <1>1, <2>2, <3>1, <4>1
      <4>2. CASE i \in 1..n
        <5>1. PICK c \in DOMAIN acc.unique : i \in acc.unique[c].members
          BY <1>3, <4>2 DEF PassOK
        <5>. QED BY <2>2, <3>1, <5>1
      <4>. QED BY <4>1, <4>2
    <3>5. PassOK(ds, n + 1, next)
      BY <3>2, <3>3, <3>4 DEF PassOK
    <3>. QED BY <2>1, <3>5 DEF next, draft
  <2>6. ASSUME ~next.raised, NEW k \in 1..Len(acc.unique),
               Resolve(acc.unique[k], draft) = "merge",
               next.unique = [acc.unique EXCEPT ![k] = Merge(acc.unique[k], draft)]
        PROVE  PassOK(ds, n + 1, next)
    <3> DEFINE merged == Merge(acc.unique[k], draft)
    <3>1. Faithful(ds, merged)
      BY <1>1, <2>2, <2>3, <2>6, MergeIsFaithful
    <3>2. merged.members = acc.unique[k].members \cup {n + 1}
      BY <1>1 DEF Merge
    <3>3. /\ DOMAIN next.unique = DOMAIN acc.unique
          /\ next.unique[k] = merged
          /\ \A c \in DOMAIN acc.unique : c # k => next.unique[c] = acc.unique[c]
      BY <2>2, <2>6
    <3> HIDE DEF merged
    <3>4. ASSUME NEW c \in DOMAIN next.unique
          PROVE  Faithful(ds, next.unique[c]) /\ next.unique[c].members \subseteq 1..(n + 1)
      BY <2>2, <2>3, <3>1, <3>2, <3>3
    <3>5. Disjoint(next.unique)
      BY <1>1, <2>2, <2>3, <3>2, <3>3 DEF PassOK, Disjoint
    <3>6. ASSUME NEW i \in 1..(n + 1)
          PROVE  \E c \in DOMAIN next.unique : i \in next.unique[c].members
      <4>1. CASE i = n + 1
        BY <2>2, <3>2, <3>3, <4>1
      <4>2. CASE i \in 1..n
        <5>1. PICK c \in DOMAIN acc.unique : i \in acc.unique[c].members
          BY <1>3, <4>2 DEF PassOK
        <5>. QED BY <3>2, <3>3, <5>1
      <4>. QED BY <4>1, <4>2
    <3>. QED BY <3>4, <3>5, <3>6 DEF PassOK
  <2>7. PassOK(ds, n + 1, next)
    BY <2>1, <2>4, <2>5, <2>6 DEF next, draft
  <2>. QED BY <2>1, <2>7 DEF next, draft
<1>. QED BY <1>2, <1>3

\* The conclusion of the induction.
LEMMA DeduplicationOK ==
    ASSUME NEW E, \A left, right \in E : Merge(left, right) \in E,
           NEW ds, AreDrafts(E, ds)
    PROVE  /\ Deduplicate(ds) \in Results(E)
           /\ PassOK(ds, Len(ds), Deduplicate(ds))
<1> DEFINE pass == DeduplicationPass(ds)
           Good(n) == pass[n] \in Results(E) /\ PassOK(ds, n, pass[n])
           S == {n \in Nat : n <= Len(ds) => Good(n)}
<1>1. ds \in Seq(E) /\ Len(ds) \in Nat /\ IsPass(pass, ds, Len(ds))
  BY PassIsPass DEF AreDrafts
<1> HIDE DEF pass
<1>2. 0 \in S
  <2>1. pass[0] = [unique |-> <<>>, reviews |-> 0, raised |-> FALSE]
    BY <1>1 DEF IsPass
  <2>2. Good(0)
    BY <2>1 DEF Results, PassOK, Disjoint
  <2>. QED BY <2>2
<1>3. ASSUME NEW n \in S PROVE n + 1 \in S
  <2> SUFFICES ASSUME n + 1 <= Len(ds) PROVE Good(n + 1)
    OBVIOUS
  <2>1. n \in Nat /\ Good(n)
    BY <1>1
  <2>2. pass[n + 1] = Absorb(pass[n], ds[n + 1])
    BY <1>1, <2>1 DEF IsPass
  <2> HIDE DEF S
  <2>. QED BY <2>1, <2>2, AbsorbOK
<1>4. S = Nat
  <2> HIDE DEF S
  <2>. QED BY <1>2, <1>3, NatSetInduction DEF S
<1>5. Good(Len(ds))
  BY <1>1, <1>4
<1>. QED BY <1>5 DEF Deduplicate, pass

\* Deduplicating one more draft is absorbing it into the companies there are.
LEMMA DeduplicateAppend ==
    ASSUME NEW E, NEW ds \in Seq(E), NEW draft \in E
    PROVE  Deduplicate(Append(ds, draft)) = Absorb(Deduplicate(ds), draft)
<1> DEFINE longer == Append(ds, draft)
           p == DeduplicationPass(longer)
           n == Len(ds)
<1>1. /\ longer \in Seq(E) /\ n \in Nat /\ Len(longer) = n + 1 /\ longer[n + 1] = draft
      /\ \A i \in 1..n : longer[i] = ds[i]
  OBVIOUS
<1>2. IsPass(p, longer, n + 1)
  <2> HIDE DEF longer
  <2>. QED BY <1>1, PassIsPass
<1>3. IsPass(DeduplicationPass(ds), ds, n)
  BY PassIsPass
<1> HIDE DEF longer, p
<1>4. \E g : IsPass(g, ds, n) /\ g[n] = p[n]
  <2> DEFINE g == [i \in 0..n |-> p[i]]
  <2>1. IsPass(g, ds, n)
    BY <1>1, <1>2 DEF IsPass
  <2>. QED BY <1>1, <2>1
<1>5. p[n] = DeduplicationPass(ds)[n]
  BY <1>1, <1>3, <1>4, PassIsUnique
<1>6. p[n + 1] = Absorb(p[n], draft)
  BY <1>1, <1>2 DEF IsPass
<1>. QED BY <1>1, <1>5, <1>6 DEF Deduplicate, p, longer

\* No drafts, no companies.
LEMMA DeduplicateNothing ==
    Deduplicate(<<>>) = [unique |-> <<>>, reviews |-> 0, raised |-> FALSE]
<1>1. <<>> \in Seq({}) /\ Len(<<>>) = 0
  OBVIOUS
<1>. QED BY <1>1, PassIsPass DEF Deduplicate, IsPass

-----------------------------------------------------------------------------
\* The entities facts can lead to: every merge stays inside this set.
EntitiesOver(facts) ==
    [id           : Nat,
     name         : {fact.name : fact \in facts},
     website      : {fact.website : fact \in facts},
     canonical    : {fact.canonical : fact \in facts},
     ids          : {ids \in SUBSET UNION {fact.ids : fact \in facts} : IsFiniteSet(ids)},
     confidence   : [CoreFields -> Int],
     alternatives : SUBSET (CoreFields \X ({fact.name : fact \in facts}
                                             \cup {fact.website : fact \in facts})),
     mergedIds    : SUBSET Nat,
     members      : SUBSET Nat]

\* A verified company is such an entity.
LEMMA DraftsAreEntities ==
    ASSUME NEW facts, NEW profile \in ProfilesOver(facts), NEW i \in Nat
    PROVE  AsDraft(i, profile) \in EntitiesOver(facts)
  BY DEF AsDraft, ProfilesOver, EntitiesOver

\* A merged entity has values of its two sides.
LEMMA MergesAreEntities ==
    ASSUME NEW facts
    PROVE  \A left, right \in EntitiesOver(facts) : Merge(left, right) \in EntitiesOver(facts)
<1> SUFFICES ASSUME NEW left \in EntitiesOver(facts), NEW right \in EntitiesOver(facts)
             PROVE  Merge(left, right) \in EntitiesOver(facts)
  OBVIOUS
<1> DEFINE merged == Merge(left, right)
<1>1. /\ PreferredSide(left, right, "name").name \in {fact.name : fact \in facts}
      /\ PreferredSide(left, right, "website").website \in {fact.website : fact \in facts}
  BY DEF PreferredSide, EntitiesOver
<1>2. left.ids \cup right.ids
        \in {ids \in SUBSET UNION {fact.ids : fact \in facts} : IsFiniteSet(ids)}
  <2>1. IsFiniteSet(left.ids) /\ IsFiniteSet(right.ids)
    BY DEF EntitiesOver
  <2>2. IsFiniteSet(left.ids \cup right.ids)
    BY <2>1, FS_Union
  <2>. QED BY <2>2 DEF EntitiesOver
<1>3. [field \in CoreFields |-> PreferredSide(left, right, field).confidence[field]]
        \in [CoreFields -> Int]
  <2>1. left.confidence \in [CoreFields -> Int] /\ right.confidence \in [CoreFields -> Int]
    BY DEF EntitiesOver
  <2>. QED BY <2>1 DEF PreferredSide
<1>4. Alternatives(left, right) \in
        SUBSET (CoreFields \X ({fact.name : fact \in facts} \cup {fact.website : fact \in facts}))
  <2>1. \A field \in CoreFields :
          LosingSide(left, right, field)[field]
            \in {fact.name : fact \in facts} \cup {fact.website : fact \in facts}
    BY DEF LosingSide, CoreFields, EntitiesOver
  <2>. QED BY <2>1 DEF Alternatives
<1>5. /\ (IF RecordConfidence(left) >= RecordConfidence(right) THEN left ELSE right).id \in Nat
      /\ left.canonical \in {fact.canonical : fact \in facts}
      /\ {left.id, right.id} \in SUBSET Nat /\ left.members \cup right.members \in SUBSET Nat
  BY DEF EntitiesOver
<1>. QED BY <1>1, <1>2, <1>3, <1>4, <1>5 DEF Merge, EntitiesOver

\* The inductive invariant of DraftsSpec.
DraftsInv ==
    /\ AreDrafts(EntitiesOver(DraftFacts), verified)
    /\ resolved = Deduplicate(verified)

\* Before any draft there is no company.
LEMMA DraftsInitInv == DraftsInit => DraftsInv
  BY DEF DraftsInit, DraftsInv, AreDrafts

\* An arriving draft is absorbed into the companies resolved so far.
LEMMA DraftArrives ==
    ASSUME DraftsInv, NEW facts \in DraftFacts, AddDraft(facts)
    PROVE  /\ DraftsInv'
           /\ resolved' = Absorb(resolved, AsDraft(Len(verified) + 1, facts))
           /\ AsDraft(Len(verified) + 1, facts) \in EntitiesOver(DraftFacts)
<1> DEFINE E == EntitiesOver(DraftFacts)
           draft == AsDraft(Len(verified) + 1, facts)
<1>1. verified \in Seq(E) /\ Len(verified) \in Nat
  BY DEF DraftsInv, AreDrafts
<1>2. facts \in ProfilesOver(DraftFacts)
  BY DeduplicationAssumption
<1>3. draft \in E
  BY <1>1, <1>2, DraftsAreEntities
<1>4. verified' = Append(verified, draft) /\ resolved' = Deduplicate(verified')
  BY DEF AddDraft
<1>5. draft.id = Len(verified) + 1 /\ draft.members = {Len(verified) + 1} /\ IsFiniteSet(draft.ids)
  BY <1>2 DEF AsDraft, ProfilesOver
<1> HIDE DEF draft, E
<1>6. AreDrafts(E, verified')
  <2>1. /\ verified' \in Seq(E) /\ Len(verified') = Len(verified) + 1
        /\ verified'[Len(verified) + 1] = draft
        /\ \A i \in 1..Len(verified) : verified'[i] = verified[i]
    BY <1>1, <1>3, <1>4
  <2>. QED BY <1>1, <1>5, <2>1 DEF AreDrafts, DraftsInv, E
<1>7. resolved' = Absorb(resolved, draft)
  BY <1>1, <1>3, <1>4, DeduplicateAppend DEF DraftsInv
<1>. QED BY <1>3, <1>4, <1>6, <1>7 DEF DraftsInv, draft, E

\* Every arriving draft is absorbed.
LEMMA DraftsNextInv == DraftsInv /\ [DraftsNext]_draftVars => DraftsInv'
<1>1. DraftsInv /\ DraftsNext => DraftsInv'
  BY DraftArrives DEF DraftsNext
<1>2. DraftsInv /\ UNCHANGED draftVars => DraftsInv'
  BY DEF DraftsInv, draftVars
<1>. QED BY <1>1, <1>2

\* The companies of every reachable state are those of a pass.
LEMMA ResolvedOK ==
    ASSUME DraftsInv
    PROVE  resolved \in Results(EntitiesOver(DraftFacts)) /\ PassOK(verified, Len(verified), resolved)
  BY MergesAreEntities, DeduplicationOK DEF DraftsInv

\* At any time the companies are those of a pass over the verified drafts.
THEOREM DraftsInvariant == DraftsSpec => []DraftsInv
  BY DraftsInitInv, DraftsNextInv, PTL DEF DraftsSpec

\* However many drafts of whatever facts arrive, and unless normalization raised,
\* every one is in exactly one company (EveryDraftInOneCompany).
THEOREM DraftsAreCountedOnce == DraftsSpec => []EveryDraftInOneCompany
<1>1. ASSUME DraftsInv, ~resolved.raised, NEW i \in DOMAIN verified
      PROVE  Cardinality({c \in DOMAIN Companies : i \in Companies[c].members}) = 1
  <2>1. i \in 1..Len(verified) /\ PassOK(verified, Len(verified), resolved)
    BY <1>1, ResolvedOK DEF DraftsInv, AreDrafts
  <2>2. PICK c \in DOMAIN Companies : i \in Companies[c].members
    BY <1>1, <2>1 DEF PassOK, Companies
  <2>3. {d \in DOMAIN Companies : i \in Companies[d].members} = {c}
    BY <2>1, <2>2 DEF PassOK, Disjoint, Companies
  <2>. QED BY <2>3, FS_Singleton
<1>2. DraftsInv => EveryDraftInOneCompany
  BY <1>1 DEF EveryDraftInOneCompany
<1>. QED BY <1>2, DraftsInvariant, PTL

\* Two drafts that contradict each other on an external identifier are never in
\* one company, however long the chain of merges that might join them
\* (ConflictingIdentifiersStayApart).
THEOREM ConflictsStayApart == DraftsSpec => []ConflictingIdentifiersStayApart
<1>1. DraftsInv => ConflictingIdentifiersStayApart
  BY ResolvedOK DEF PassOK, Faithful, Companies, ConflictingIdentifiersStayApart
<1>. QED BY <1>1, DraftsInvariant, PTL

\* Every draft of a merged company shares a domain or an identifier with another
\* draft of it: a name never merges alone (MergesAreCorroborated).
THEOREM MergesCorroborated == DraftsSpec => []MergesAreCorroborated
<1>1. DraftsInv => MergesAreCorroborated
  BY ResolvedOK DEF PassOK, Faithful, Companies, MergesAreCorroborated
<1>. QED BY <1>1, DraftsInvariant, PTL

\* An arriving draft never takes a draft out of a company or a company out of
\* the list, so what the search loop counted stays found (CompaniesOnlyGrow).
THEOREM CompaniesNeverShrink == DraftsSpec => CompaniesOnlyGrow
<1> DEFINE Grows == ~resolved'.raised =>
                      /\ Len(Companies') >= Len(Companies)
                      /\ \A c \in DOMAIN Companies : Companies[c].members \subseteq Companies'[c].members
<1>1. ASSUME DraftsInv, NEW facts \in DraftFacts, AddDraft(facts), ~resolved'.raised
      PROVE  /\ Len(Companies') >= Len(Companies)
             /\ \A c \in DOMAIN Companies : Companies[c].members \subseteq Companies'[c].members
  <2> DEFINE draft == AsDraft(Len(verified) + 1, facts)
             E == EntitiesOver(DraftFacts)
  <2>1. /\ resolved \in Results(E) /\ draft \in E /\ resolved' = Absorb(resolved, draft)
        /\ ~resolved.raised
    BY <1>1, ResolvedOK, DraftArrives DEF AddDraft
  <2> HIDE DEF draft, E
  <2>2. \/ resolved'.unique = Append(resolved.unique, draft)
        \/ \E i \in 1..Len(resolved.unique) :
             resolved'.unique = [resolved.unique EXCEPT ![i] = Merge(resolved.unique[i], draft)]
    BY <1>1, <2>1, MergesAreEntities, AbsorbCases DEF E
  <2>3. /\ resolved.unique \in Seq(E) /\ Len(resolved.unique) \in Nat
        /\ DOMAIN resolved.unique = 1..Len(resolved.unique)
    BY <2>1 DEF Results
  <2>4. CASE resolved'.unique = Append(resolved.unique, draft)
    BY <2>1, <2>3, <2>4 DEF Companies
  <2>5. ASSUME NEW i \in 1..Len(resolved.unique),
               resolved'.unique = [resolved.unique EXCEPT ![i] = Merge(resolved.unique[i], draft)]
        PROVE  /\ Len(Companies') >= Len(Companies)
               /\ \A c \in DOMAIN Companies : Companies[c].members \subseteq Companies'[c].members
    <3>1. resolved.unique[i].members \subseteq Merge(resolved.unique[i], draft).members
      BY DEF Merge
    <3>2. Merge(resolved.unique[i], draft) \in E
      BY <2>1, <2>3, MergesAreEntities DEF E
    <3>3. Len(resolved'.unique) = Len(resolved.unique)
      BY <2>3, <2>5, <3>2
    <3>. QED BY <2>3, <2>5, <3>1, <3>3 DEF Companies
  <2>. QED BY <2>2, <2>4, <2>5
<1>2. DraftsInv /\ [DraftsNext]_draftVars => [Grows]_draftVars
  BY <1>1 DEF DraftsNext
<1>. QED BY <1>2, DraftsInvariant, PTL DEF DraftsSpec, CompaniesOnlyGrow

-----------------------------------------------------------------------------
\* The pipeline holds a website exactly while it processes one.
PipelineOK ==
    /\ phase \in SitePhases => site \in Websites
    /\ phase \notin SitePhases \cup Ends => site = None
    /\ phase = "enriching" => company \in Profiles
    /\ exports.made <= exports.tried

\* What the phase says of the database: companies are stored last, and all of
\* them before the first export; until the end the row is that of the INSERT.
StoreOK ==
    /\ phase = "planning" => row = None /\ skippedRows = {}
    /\ phase \notin {"planning", "returned"} => row = "running"
    /\ phase \notin {"persisting", "exporting"} \cup Ends => companyRows = {} /\ saved = 0
    /\ phase = "exporting" => saved = Len(ranked)
    /\ phase = "returned" /\ stage = "failed" => companyRows = {}
    /\ companyRows # {} => row # None

IInv ==
    /\ TypeOK
    /\ PipelineOK
    /\ StoreOK
    /\ RowAgreesWithResult
    /\ RowsHaveARun
    /\ RetentionRespected
    /\ CancellationSplitsNoPersistence

USE OrchestratorAssumption DEF Ends, SitePhases, Phases, FinalStages, Failures

\* A search answers with a sequence of candidates.
LEMMA AnswersAreSequences ==
    ASSUME NEW answer \in BoundedSeq(Candidates, PageSize)
    PROVE  answer \in Seq(Candidates)
  BY DEF BoundedSeq, SeqOf

\* A website is always reported: no earlier report can have its very URL.
LEMMA WebsitesAreReported ==
    ASSUME NEW website \in Websites, skipped \in Seq(Candidates \cup Websites), Skip(website)
    PROVE  skipped' = Append(skipped, website)
  BY DEF Skip

\* Skipping adds at most the report and its row, never more.
LEMMA SkipKeepsTypes ==
    ASSUME NEW url \in Candidates \cup Websites, Skip(url), TypeOK
    PROVE  /\ skipped' \in Seq(Candidates \cup Websites)
           /\ warned' \in BOOLEAN
           /\ skippedRows' \subseteq DOMAIN skipped'
           /\ ~RetainSkipped => skippedRows' = skippedRows
<1>1. CASE \E i \in DOMAIN skipped : Stored[skipped[i]] = url
  BY <1>1 DEF Skip, TypeOK
<1>2. CASE ~ \E i \in DOMAIN skipped : Stored[skipped[i]] = url
  <2>1. /\ skipped' = Append(skipped, url)
        /\ warned' = TRUE
        /\ skippedRows' \in {skippedRows, skippedRows \cup {Len(skipped) + 1}}
        /\ ~RetainSkipped => skippedRows' = skippedRows
    BY <1>2 DEF Skip
  <2>2. skipped \in Seq(Candidates \cup Websites) /\ skippedRows \subseteq DOMAIN skipped
    BY DEF TypeOK
  <2>3. /\ skipped' \in Seq(Candidates \cup Websites)
        /\ DOMAIN skipped' = DOMAIN skipped \cup {Len(skipped) + 1}
    BY <2>1, <2>2
  <2> QED
    BY <2>1, <2>2, <2>3
<1> QED
  BY <1>1, <1>2

\* Gathering identifiers leaves a company a profile.
LEMMA EnrichedIsProfile ==
    ASSUME NEW profile \in Profiles, NEW facts \in Facts
    PROVE  [profile EXCEPT !.ids = @ \cup facts.ids] \in Profiles
<1> DEFINE All == UNION {f.ids : f \in Facts}
<1>1. profile \in ProfilesOver(Facts) /\ facts \in ProfilesOver(Facts)
  BY DEF Profiles
<1>2. /\ profile.ids \in SUBSET All /\ IsFiniteSet(profile.ids)
      /\ facts.ids \in SUBSET All /\ IsFiniteSet(facts.ids)
  BY <1>1 DEF ProfilesOver
<1>3. IsFiniteSet(profile.ids \cup facts.ids)
  BY <1>2, FS_Union
<1>4. profile.ids \cup facts.ids \in {ids \in SUBSET All : IsFiniteSet(ids)}
  BY <1>2, <1>3
<1> QED
  BY <1>1, <1>4 DEF Profiles, ProfilesOver

\* A verified company joins the drafts with its website.
LEMMA DraftsGrow ==
    ASSUME TypeOK, company \in Profiles, site \in Websites
    PROVE  Append(drafts, [facts |-> company, site |-> site])
             \in Seq([facts : Profiles, site : Websites])
  BY DEF TypeOK

\* The initial state satisfies the inductive invariant.
LEMMA InitIInv == Init => IInv
  BY DEF Init, IInv, TypeOK, PipelineOK, StoreOK, RowAgreesWithResult, RowsHaveARun,
         RetentionRespected, CancellationSplitsNoPersistence

\* The except clause of run() preserves it, from any phase before the results
\* are stored.
LEMMA FailRunIInv ==
    ASSUME IInv, UNCHANGED requests, UNCHANGED batch,
           NEW kind \in Failures, NEW storedRow \in {None, "running"}, FailRun(kind, storedRow),
           phase \notin {"persisting", "exporting"} \cup Ends,
           phase = "planning" \/ storedRow = row
    PROVE  IInv'
<1> USE DEF IInv, FailRun, sites, results
<1>1. TypeOK'
  BY DEF TypeOK
<1>2. PipelineOK'
  BY DEF PipelineOK
<1>3. StoreOK'
  BY DEF StoreOK, TypeOK
<1>4. RowAgreesWithResult' /\ RowsHaveARun' /\ RetentionRespected'
        /\ CancellationSplitsNoPersistence'
  BY DEF RowAgreesWithResult, RowsHaveARun, RetentionRespected,
         CancellationSplitsNoPersistence, StoreOK
<1> QED
  BY <1>1, <1>2, <1>3, <1>4

\* Every step preserves the inductive invariant.
LEMMA NextIInv == IInv /\ [Next]_vars => IInv'
<1> SUFFICES ASSUME IInv, [Next]_vars PROVE IInv'
  OBVIOUS
<1> USE DEF IInv, TypeOK, PipelineOK, StoreOK, RowAgreesWithResult, RowsHaveARun,
            RetentionRespected, CancellationSplitsNoPersistence,
            Emit, control, search, sites, results, store
<1>1. CASE Begin
  BY <1>1 DEF Begin
<1>2. CASE BeginRaises
  BY <1>2, FailRunIInv DEF BeginRaises
<1>3. CASE SearchRaises
  BY <1>3 DEF SearchRaises, CanSearch
<1>4. ASSUME NEW answer \in BoundedSeq(Candidates, PageSize), SearchAnswers(answer)
      PROVE  IInv'
  BY <1>4, AnswersAreSequences DEF SearchAnswers, CanSearch
<1>5. CASE ProgressEventRaises
  BY <1>5 DEF ProgressEventRaises, CanSearch, FailRun
<1>6. CASE SearchExhausted
  BY <1>6 DEF SearchExhausted, CanSearch
<1>7. CASE BatchDone
  BY <1>7 DEF BatchDone
<1>8. CASE DeduplicationRaises
  BY <1>8, FailRunIInv DEF DeduplicationRaises
<1>9. CASE RejectCandidate
  <2>1. /\ phase = "validating" /\ batch # <<>> /\ batch' = Tail(batch)
        /\ Skip(Head(batch))
        /\ UNCHANGED <<phase, stage, failure, requests, sites, results, row, companyRows>>
    BY <1>9 DEF RejectCandidate
  <2>2. Head(batch) \in Candidates /\ batch' \in Seq(Candidates)
    BY <2>1
  <2>3. /\ skipped' \in Seq(Candidates \cup Websites)
        /\ warned' \in BOOLEAN
        /\ skippedRows' \subseteq DOMAIN skipped'
        /\ ~RetainSkipped => skippedRows' = skippedRows
    BY <2>1, <2>2, SkipKeepsTypes
  <2>4. TypeOK' /\ PipelineOK' /\ StoreOK'
    BY <2>1, <2>2, <2>3
  <2> QED
    BY <2>1, <2>3, <2>4
<1>10. CASE PolicyRaises
  BY <1>10, FailRunIInv DEF PolicyRaises
<1>11. CASE IgnoreSeenWebsite
  BY <1>11 DEF IgnoreSeenWebsite
<1>12. CASE AdmitWebsite
  BY <1>12 DEF AdmitWebsite
<1>13. CASE DeclineWebsite
  BY <1>13, SkipKeepsTypes DEF DeclineWebsite
<1>14. CASE ApproveWebsite
  BY <1>14 DEF ApproveWebsite
<1>15. CASE CrawlWebsite
  BY <1>15 DEF CrawlWebsite
<1>16. ASSUME NEW facts \in Facts, VerifyCompany(facts) PROVE IInv'
  BY <1>16 DEF VerifyCompany
<1>17. ASSUME NEW facts \in Facts, AdoptEnrichment(facts) PROVE IInv'
  <2>1. company' \in Profiles
    BY <1>17, EnrichedIsProfile DEF AdoptEnrichment
  <2>2. /\ phase = "enriching" /\ asked' = asked + 1 /\ asked < Providers
        /\ warned' \in BOOLEAN
        /\ UNCHANGED <<phase, stage, failure, search, site, seen, drafts, skipped,
                       results, store>>
    BY <1>17 DEF AdoptEnrichment
  <2> QED
    BY <2>1, <2>2
<1>18. CASE CompanyRaises
  BY <1>18, FailRunIInv DEF CompanyRaises
<1>19. CASE IgnoreEnrichment
  BY <1>19 DEF IgnoreEnrichment
<1>20. CASE AppendDraft
  BY <1>20, DraftsGrow DEF AppendDraft
<1>21. CASE ResolveDrafts
  BY <1>21 DEF ResolveDrafts
<1>22. ASSUME NEW order, RankCompanies(order) PROVE IInv'
  BY <1>22 DEF RankCompanies
<1>23. CASE PersistCompany
  <2>1. /\ phase = "persisting" /\ saved' = saved + 1
        /\ warned' \in BOOLEAN
        /\ UNCHANGED <<phase, stage, failure, search, sites, skipped, unique, ranked,
                       exports, row, skippedRows>>
    BY <1>23 DEF PersistCompany
  <2>2. TypeOK'
    BY <2>1
  <2>3. PipelineOK' /\ StoreOK' /\ RowAgreesWithResult'
    BY <2>1
  <2>4. RowsHaveARun' /\ RetentionRespected' /\ CancellationSplitsNoPersistence'
    BY <2>1
  <2> QED
    BY <2>2, <2>3, <2>4
<1>24. CASE BeginExports
  BY <1>24 DEF BeginExports
<1>25. CASE ExportRecords
  BY <1>25 DEF ExportRecords
<1>26. CASE Complete
  BY <1>26 DEF Complete
<1>27. CASE Cancel
  BY <1>27 DEF Cancel, Awaiting
<1>28. CASE UNCHANGED vars
  BY <1>28 DEF vars
<1> QED
  BY <1>1, <1>2, <1>3, <1>4, <1>5, <1>6, <1>7, <1>8, <1>9, <1>10, <1>11, <1>12, <1>13,
     <1>14, <1>15, <1>16, <1>17, <1>18, <1>19, <1>20, <1>21, <1>22, <1>23, <1>24, <1>25,
     <1>26, <1>27, <1>28
     DEF Next, SearchStep, CandidateStep, ResultStep

-----------------------------------------------------------------------------
\* No candidate URL is also a website: storing a website adds its final slash.
LEMMA CandidatesAreNotWebsites == Candidates \cap Websites = {}
  OBVIOUS

\* The decisions of a website are counted by numbers.
LEMMA DecisionsAreCounted ==
    ASSUME TypeOK, NEW website
    PROVE  /\ IsFiniteSet(Drafted(website)) /\ Cardinality(Drafted(website)) \in Nat
           /\ IsFiniteSet(Reported(website)) /\ Cardinality(Reported(website)) \in Nat
<1>1. DOMAIN drafts = 1..Len(drafts) /\ Len(drafts) \in Nat
  BY DEF TypeOK
<1>2. DOMAIN skipped = 1..Len(skipped) /\ Len(skipped) \in Nat
  BY DEF TypeOK
<1>3. IsFiniteSet(DOMAIN drafts) /\ IsFiniteSet(DOMAIN skipped)
  BY <1>1, <1>2, FS_Interval
<1>4. IsFiniteSet(Drafted(website)) /\ IsFiniteSet(Reported(website))
  BY <1>3, FS_Subset DEF Drafted, Reported
<1> QED
  BY <1>4, FS_CardinalityType

\* A report is one decision about the website it names, none about others.
LEMMA ReportsCount ==
    ASSUME TypeOK, NEW url \in Candidates \cup Websites, skipped' = Append(skipped, url),
           NEW website
    PROVE  Cardinality(Reported(website)') =
             Cardinality(Reported(website)) + (IF url = website THEN 1 ELSE 0)
<1>1. /\ Len(skipped) \in Nat /\ DOMAIN skipped = 1..Len(skipped)
      /\ DOMAIN skipped' = 1..(Len(skipped) + 1)
      /\ skipped'[Len(skipped) + 1] = url
      /\ \A i \in DOMAIN skipped : skipped'[i] = skipped[i]
  BY DEF TypeOK
<1>2. Reported(website)' =
        IF url = website THEN Reported(website) \cup {Len(skipped) + 1} ELSE Reported(website)
  BY <1>1 DEF Reported
<1>3. Len(skipped) + 1 \notin Reported(website)
  BY <1>1 DEF Reported
<1>4. Cardinality(Reported(website) \cup {Len(skipped) + 1}) = Cardinality(Reported(website)) + 1
  BY <1>3, DecisionsAreCounted, FS_AddElement
<1> QED
  BY <1>2, <1>4, DecisionsAreCounted

\* A draft is one decision about its website, none about others.
LEMMA DraftsCount ==
    ASSUME TypeOK, site \in Websites, company \in Profiles,
           drafts' = Append(drafts, [facts |-> company, site |-> site]),
           NEW website
    PROVE  Cardinality(Drafted(website)') =
             Cardinality(Drafted(website)) + (IF site = website THEN 1 ELSE 0)
<1>1. /\ Len(drafts) \in Nat /\ DOMAIN drafts = 1..Len(drafts)
      /\ DOMAIN drafts' = 1..(Len(drafts) + 1)
      /\ drafts'[Len(drafts) + 1].site = site
      /\ \A i \in DOMAIN drafts : drafts'[i] = drafts[i]
  BY DEF TypeOK
<1>2. Drafted(website)' =
        IF site = website THEN Drafted(website) \cup {Len(drafts) + 1} ELSE Drafted(website)
  BY <1>1 DEF Drafted
<1>3. Len(drafts) + 1 \notin Drafted(website)
  BY <1>1 DEF Drafted
<1>4. Cardinality(Drafted(website) \cup {Len(drafts) + 1}) = Cardinality(Drafted(website)) + 1
  BY <1>3, DecisionsAreCounted, FS_AddElement
<1> QED
  BY <1>2, <1>4, DecisionsAreCounted

\* At the start no website was admitted and none decided.
LEMMA InitAccounting == Init => EveryWebsiteAccountedFor
<1> SUFFICES ASSUME Init, NEW website \in Websites
             PROVE  Decisions(website) = IF website \in seen THEN 1 ELSE 0
  BY DEF EveryWebsiteAccountedFor
<1>1. Drafted(website) = {} /\ Reported(website) = {} /\ site # website /\ seen = {}
  BY DEF Init, Drafted, Reported
<1> QED
  BY <1>1, FS_EmptySet DEF Decisions

\* A step that touches none of the four keeps the accounts.
LEMMA AccountsUntouched ==
    ASSUME EveryWebsiteAccountedFor, UNCHANGED <<site, seen, drafts, skipped>>
    PROVE  EveryWebsiteAccountedFor'
  BY DEF EveryWebsiteAccountedFor, Decisions, Drafted, Reported

\* Every step keeps the accounts.
LEMMA NextAccounting ==
    IInv /\ EveryWebsiteAccountedFor /\ [Next]_vars => EveryWebsiteAccountedFor'
<1> SUFFICES ASSUME IInv, EveryWebsiteAccountedFor, [Next]_vars PROVE EveryWebsiteAccountedFor'
  OBVIOUS
<1>0. TypeOK /\ PipelineOK
  BY DEF IInv
<1>1. CASE RejectCandidate
  <2>1. /\ phase = "validating" /\ batch # <<>> /\ Skip(Head(batch))
        /\ UNCHANGED <<site, seen, drafts>>
    BY <1>1 DEF RejectCandidate, sites
  <2>2. Head(batch) \in Candidates /\ Head(batch) \notin Websites
    BY <1>0, <2>1, CandidatesAreNotWebsites DEF TypeOK
  <2>3. CASE skipped' = skipped
    BY <2>1, <2>3, AccountsUntouched
  <2>4. CASE skipped' = Append(skipped, Head(batch))
    <3> SUFFICES ASSUME NEW website \in Websites
                 PROVE  Decisions(website)' = Decisions(website)
      BY <2>1 DEF EveryWebsiteAccountedFor
    <3>1. Cardinality(Reported(website)') = Cardinality(Reported(website))
      BY <1>0, <2>2, <2>4, ReportsCount, DecisionsAreCounted
    <3> QED
      BY <2>1, <3>1 DEF Decisions, Drafted
  <2> QED
    BY <2>1, <2>3, <2>4 DEF Skip
<1>2. CASE AdmitWebsite
  <2>1. /\ site = None /\ site' \notin seen /\ seen' = seen \cup {site'}
        /\ UNCHANGED <<drafts, skipped>>
    BY <1>0, <1>2 DEF AdmitWebsite, PipelineOK, SitePhases, Ends
  <2> SUFFICES ASSUME NEW website \in Websites
               PROVE  Decisions(website)' = IF website \in seen' THEN 1 ELSE 0
    BY DEF EveryWebsiteAccountedFor
  <2>2. Decisions(website) = IF website \in seen THEN 1 ELSE 0
    BY DEF EveryWebsiteAccountedFor
  <2>3. Decisions(website)' = Decisions(website) + (IF site' = website THEN 1 ELSE 0)
    <3>1. Drafted(website)' = Drafted(website) /\ Reported(website)' = Reported(website)
      BY <2>1 DEF Drafted, Reported
    <3>2. Cardinality(Drafted(website)) \in Nat /\ Cardinality(Reported(website)) \in Nat
      BY <1>0, DecisionsAreCounted
    <3> QED
      BY <2>1, <3>1, <3>2 DEF Decisions
  <2> QED
    BY <2>1, <2>2, <2>3
<1>3. CASE DeclineWebsite
  <2>1. /\ site \in Websites /\ Skip(site) /\ site' = None
        /\ UNCHANGED <<seen, drafts>>
    BY <1>0, <1>3 DEF DeclineWebsite, PipelineOK
  <2>2. skipped' = Append(skipped, site)
    BY <1>0, <2>1, WebsitesAreReported DEF TypeOK
  <2> SUFFICES ASSUME NEW website \in Websites
               PROVE  Decisions(website)' = Decisions(website)
    BY <2>1 DEF EveryWebsiteAccountedFor
  <2>3. Cardinality(Reported(website)') =
          Cardinality(Reported(website)) + (IF site = website THEN 1 ELSE 0)
    BY <1>0, <2>1, <2>2, ReportsCount
  <2> QED
    BY <1>0, <2>1, <2>3, DecisionsAreCounted DEF Decisions, Drafted
<1>4. CASE AppendDraft
  <2>1. /\ site \in Websites /\ company \in Profiles /\ site' = None
        /\ drafts' = Append(drafts, [facts |-> company, site |-> site])
        /\ UNCHANGED <<seen, skipped>>
    BY <1>0, <1>4 DEF AppendDraft, PipelineOK
  <2> SUFFICES ASSUME NEW website \in Websites
               PROVE  Decisions(website)' = Decisions(website)
    BY <2>1 DEF EveryWebsiteAccountedFor
  <2>2. Cardinality(Drafted(website)') =
          Cardinality(Drafted(website)) + (IF site = website THEN 1 ELSE 0)
    BY <1>0, <2>1, DraftsCount
  <2>3. Reported(website)' = Reported(website)
    BY <2>1 DEF Reported
  <2>4. Cardinality(Drafted(website)) \in Nat /\ Cardinality(Reported(website)) \in Nat
    BY <1>0, DecisionsAreCounted
  <2>5. site' # website
    BY <2>1
  <2> QED
    BY <2>2, <2>3, <2>4, <2>5 DEF Decisions
<1>5. CASE UNCHANGED <<site, seen, drafts, skipped>>
  BY <1>5, AccountsUntouched
<1>6. SearchStep \/ ResultStep \/ Cancel \/ UNCHANGED vars
        => UNCHANGED <<site, seen, drafts, skipped>>
  BY DEF SearchStep, ResultStep, Cancel, Begin, BeginRaises, SearchRaises, SearchAnswers,
         ProgressEventRaises, SearchExhausted, BatchDone, DeduplicationRaises, ResolveDrafts,
         RankCompanies, PersistCompany, BeginExports, ExportRecords, Complete, FailRun,
         sites, vars
<1>7. ASSUME NEW facts \in Facts, VerifyCompany(facts) \/ AdoptEnrichment(facts)
      PROVE  UNCHANGED <<site, seen, drafts, skipped>>
  BY <1>7 DEF VerifyCompany, AdoptEnrichment
<1>8. PolicyRaises \/ IgnoreSeenWebsite \/ ApproveWebsite \/ CrawlWebsite \/ CompanyRaises
        \/ IgnoreEnrichment => UNCHANGED <<site, seen, drafts, skipped>>
  BY DEF PolicyRaises, IgnoreSeenWebsite, ApproveWebsite, CrawlWebsite, CompanyRaises,
         IgnoreEnrichment, FailRun, sites
<1> QED
  BY <1>1, <1>2, <1>3, <1>4, <1>5, <1>6, <1>7, <1>8 DEF Next, CandidateStep

-----------------------------------------------------------------------------
\* The inductive invariant holds of every run.
THEOREM OrchestratorInvariant == Spec => []IInv
  BY InitIInv, NextIInv, PTL DEF Spec

\* Every variable keeps its type, the counters their bounds (TypeOK).
THEOREM OrchestratorTypes == Spec => []TypeOK
<1>1. IInv => TypeOK
  BY DEF IInv
<1> QED
  BY <1>1, OrchestratorInvariant, PTL

\* The stored status of a run never says more than the result run() returns,
\* whichever of its calls raise (RowAgreesWithResult).
THEOREM RowNeverOverstates == Spec => []RowAgreesWithResult
<1>1. IInv => RowAgreesWithResult
  BY DEF IInv
<1> QED
  BY <1>1, OrchestratorInvariant, PTL

\* No company and no skipped-source row exists without the run row its foreign
\* key names (RowsHaveARun).
THEOREM RowsNeedTheirRun == Spec => []RowsHaveARun
<1>1. IInv => RowsHaveARun
  BY DEF IInv
<1> QED
  BY <1>1, OrchestratorInvariant, PTL

\* Without the retention setting no URL a search returned is stored
\* (RetentionRespected).
THEOREM NothingRetainedUnlessAllowed == Spec => []RetentionRespected
<1>1. IInv => RetentionRespected
  BY DEF IInv
<1> QED
  BY <1>1, OrchestratorInvariant, PTL

\* A cancelled run stored all its ranked companies or none
\* (CancellationSplitsNoPersistence).
THEOREM CancellationIsAtomic == Spec => []CancellationSplitsNoPersistence
<1>1. IInv => CancellationSplitsNoPersistence
  BY DEF IInv
<1> QED
  BY <1>1, OrchestratorInvariant, PTL

\* Every website the run admits is in the pipeline, a draft or a report, and
\* only one of them (EveryWebsiteAccountedFor).
THEOREM WebsitesAreAccountedFor == Spec => []EveryWebsiteAccountedFor
  BY InitAccounting, NextAccounting, OrchestratorInvariant, PTL DEF Spec

-----------------------------------------------------------------------------
\* The refinement: every step of a run is a step of RunLifecycle or a stutter.

\* While the run works its outcome is open and its row is the INSERT's.
LEMMA WorkingOutcome ==
    ASSUME IInv, phase \notin {"planning"} \cup Ends
    PROVE  Outcome = "working" /\ row = "running"
  BY DEF IInv, StoreOK, TypeOK, Outcome

\* A run that fails before it stores companies is a failure of the lifecycle.
LEMMA FailRunRefines ==
    ASSUME IInv, NEW kind \in Failures, FailRun(kind, row),
           phase \notin {"planning", "persisting", "exporting"} \cup Ends
    PROVE  Lifecycle!Next
<1>1. Outcome = "working" /\ companyRows = {}
  BY WorkingOutcome DEF IInv, StoreOK
<1>2. Outcome' = "failed" /\ row' \in {"running", "failed"} /\ companyRows' = companyRows
  BY WorkingOutcome DEF FailRun, Outcome
<1> QED
  BY <1>1, <1>2 DEF Lifecycle!Next, Lifecycle!Fail

\* A run starts where the lifecycle does.
LEMMA InitRefines == Init => Lifecycle!Init
  BY DEF Init, Lifecycle!Init, Outcome

\* A step of a run is a step of the lifecycle, or leaves it alone.
LEMMA NextRefines == IInv /\ [Next]_vars => [Lifecycle!Next]_(Lifecycle!vars)
<1> SUFFICES ASSUME IInv, [Next]_vars PROVE [Lifecycle!Next]_(Lifecycle!vars)
  OBVIOUS
<1> USE DEF control, search, sites, results, store
<1>1. CASE Begin
  <2>1. Outcome = "pending" /\ Outcome' = "working" /\ row' = "running"
          /\ companyRows' = companyRows
    BY <1>1 DEF Begin, Outcome
  <2> QED
    BY <2>1 DEF Lifecycle!Next, Lifecycle!Start
<1>2. CASE BeginRaises
  <2>1. /\ Outcome = "pending" /\ Outcome' = "failed"
        /\ row' \in {None, "running", "failed"} /\ companyRows' = companyRows
    BY <1>2 DEF BeginRaises, FailRun, Outcome
  <2> QED
    BY <2>1 DEF Lifecycle!Next, Lifecycle!StartFails
<1>3. CASE ProgressEventRaises \/ DeduplicationRaises \/ PolicyRaises \/ CompanyRaises
  BY <1>3, FailRunRefines
     DEF ProgressEventRaises, DeduplicationRaises, PolicyRaises, CompanyRaises
<1>4. CASE PersistCompany
  <2>1. Outcome = "working" /\ Outcome' = Outcome /\ row' = row
    BY <1>4 DEF PersistCompany, Outcome
  <2>2. companyRows' = companyRows \/ companyRows' # {}
    BY <1>4 DEF PersistCompany
  <2> QED
    BY <2>1, <2>2 DEF Lifecycle!Next, Lifecycle!Publish, Lifecycle!vars
<1>5. CASE Complete
  <2>1. Outcome = "working" /\ row = "running"
    BY <1>5, WorkingOutcome DEF Complete
  <2>2. Outcome' = "completed" /\ row' \in {"running", "completed"}
          /\ companyRows' = companyRows
    BY <1>5, <2>1 DEF Complete, Emit, Outcome
  <2> QED
    BY <2>1, <2>2 DEF Lifecycle!Next, Lifecycle!Complete
<1>6. CASE Cancel
  <2>1. Outcome = "working" /\ Outcome' = "cancelled" /\ UNCHANGED <<row, companyRows>>
    BY <1>6 DEF Cancel, Awaiting, Outcome
  <2> QED
    BY <2>1 DEF Lifecycle!Next, Lifecycle!Cancel
<1>7. ASSUME phase \notin {"planning"} \cup Ends, phase' \notin {"planning"} \cup Ends,
             UNCHANGED <<row, companyRows>>
      PROVE  UNCHANGED Lifecycle!vars
  BY <1>7 DEF Lifecycle!vars, Outcome
<1>8. CASE \/ SearchRaises \/ SearchExhausted \/ BatchDone
           \/ \E answer \in BoundedSeq(Candidates, PageSize) : SearchAnswers(answer)
  BY <1>7, <1>8 DEF SearchRaises, SearchExhausted, BatchDone, SearchAnswers
<1>9. CASE \/ RejectCandidate \/ IgnoreSeenWebsite \/ AdmitWebsite \/ DeclineWebsite
           \/ ApproveWebsite \/ CrawlWebsite \/ IgnoreEnrichment \/ AppendDraft
           \/ \E facts \in Facts : VerifyCompany(facts) \/ AdoptEnrichment(facts)
  BY <1>7, <1>9 DEF RejectCandidate, IgnoreSeenWebsite, AdmitWebsite, DeclineWebsite,
     ApproveWebsite, CrawlWebsite, IgnoreEnrichment, AppendDraft, VerifyCompany, AdoptEnrichment
<1>10. CASE \/ ResolveDrafts \/ BeginExports \/ ExportRecords
            \/ \E chosen \in SUBSET DOMAIN unique :
                 \E order \in SetToSeqs(chosen) : RankCompanies(order)
  BY <1>7, <1>10 DEF ResolveDrafts, RankCompanies, BeginExports, ExportRecords
<1>11. CASE UNCHANGED vars
  BY <1>11 DEF vars, Lifecycle!vars, Outcome
<1> QED
  BY <1>1, <1>2, <1>3, <1>4, <1>5, <1>6, <1>8, <1>9, <1>10, <1>11
     DEF Next, SearchStep, CandidateStep, ResultStep

\* A run implements the safety part of RunLifecycle: what the API service may
\* rely on, among it that a failed run has published no company.
THEOREM RunImplementsLifecycle == Spec => Lifecycle!Safety
  BY InitRefines, NextRefines, OrchestratorInvariant, PTL DEF Spec, Lifecycle!Safety

-----------------------------------------------------------------------------
\* The companies of a pass are separate, and each is named after a member.
AreSeparate(companies) ==
    /\ companies \in Seq(EntitiesOver(Facts))
    /\ Disjoint(companies)
    /\ \A c \in DOMAIN companies : companies[c].id \in companies[c].members

\* The inductive invariant of the results of a run, relative to IInv.
PublishedOK ==
    /\ AreSeparate(unique) /\ AreSeparate(ranked)
    /\ Len(ranked) <= ResultCount /\ saved <= Len(ranked)
    /\ companyRows \subseteq {ranked[i].id : i \in 1..saved}

\* The companies the final deduplication yields are separate.
LEMMA ResolvedAreSeparate ==
    ASSUME TypeOK
    PROVE  AreSeparate(Deduplicate(Entities).unique)
<1> DEFINE E == EntitiesOver(Facts)
<1>1. drafts \in Seq([facts : Profiles, site : Websites])
  BY DEF TypeOK
<1>2. ASSUME NEW i \in DOMAIN drafts
      PROVE  /\ AsDraft(i, drafts[i].facts) \in E
             /\ AsDraft(i, drafts[i].facts).id = i
             /\ AsDraft(i, drafts[i].facts).members = {i}
             /\ IsFiniteSet(AsDraft(i, drafts[i].facts).ids)
  <2>3. i \in Nat /\ drafts[i] \in [facts : Profiles, site : Websites]
    <3> DEFINE D == [facts : Profiles, site : Websites]
    <3>1. drafts \in Seq(D)
      BY <1>1
    <3> HIDE DEF D
    <3>2. i \in Nat /\ drafts[i] \in D
      BY <1>2, <3>1
    <3>. QED BY <3>2 DEF D
  <2>1. i \in Nat /\ drafts[i].facts \in ProfilesOver(Facts)
    BY <2>3 DEF Profiles
  <2>2. IsFiniteSet(drafts[i].facts.ids)
    BY <2>1 DEF ProfilesOver
  <2>. QED BY <2>1, <2>2, DraftsAreEntities DEF AsDraft
<1>3. /\ Entities \in Seq(E) /\ Len(Entities) = Len(drafts) /\ DOMAIN drafts = 1..Len(drafts)
      /\ \A i \in DOMAIN drafts : Entities[i] = AsDraft(i, drafts[i].facts)
  <2> HIDE DEF E
  <2>. QED BY <1>1, <1>2 DEF Entities
<1>4. AreDrafts(E, Entities)
  BY <1>2, <1>3 DEF AreDrafts
<1>5. /\ Deduplicate(Entities) \in Results(E)
      /\ PassOK(Entities, Len(Entities), Deduplicate(Entities))
  BY <1>4, MergesAreEntities, DeduplicationOK
<1>. QED BY <1>5 DEF Results, PassOK, Faithful, AreSeparate

\* Min of the community modules, over a pair.
LEMMA SmallerOfTwo ==
    ASSUME NEW a \in Nat, NEW b \in Nat
    PROVE  Min({a, b}) = IF a <= b THEN a ELSE b
<1> DEFINE m == IF a <= b THEN a ELSE b
<1>1. m \in {a, b} /\ \A y \in {a, b} : m <= y
  OBVIOUS
<1>2. ASSUME NEW x \in {a, b}, \A y \in {a, b} : x <= y PROVE x = m
  BY <1>2
<1>. QED BY <1>1, <1>2 DEF Min

\* Ranking picks companies without repetition and cuts the list.
LEMMA RankingKeepsSeparate ==
    ASSUME AreSeparate(unique), NEW chosen \in SUBSET DOMAIN unique,
           NEW order \in SetToSeqs(chosen), RankCompanies(order)
    PROVE  /\ AreSeparate(ranked')
           /\ Len(ranked') = IF Len(order) <= ResultCount THEN Len(order) ELSE ResultCount
           /\ Len(order) \in Nat
<1> DEFINE scored == [i \in DOMAIN order |-> unique[order[i]]]
           E == EntitiesOver(Facts)
           k == Cardinality(chosen)
           n == IF k <= ResultCount THEN k ELSE ResultCount
<1>1. unique \in Seq(E) /\ DOMAIN unique = 1..Len(unique) /\ Len(unique) \in Nat
  BY DEF AreSeparate
<1>2. k \in Nat
  <2>1. IsFiniteSet(DOMAIN unique)
    BY <1>1, FS_Interval
  <2>. QED BY <2>1, FS_Subset, FS_CardinalityType
<1> HIDE DEF E, k
<1>3. /\ order \in [1..k -> chosen]
      /\ \A i, j \in 1..k : i # j => order[i] # order[j]
  BY DEF SetToSeqs, k
<1>4. Len(order) = k /\ DOMAIN order = 1..k
  BY <1>2, <1>3
<1>5. scored \in Seq(E) /\ Len(scored) = k /\ \A i \in 1..k : scored[i] = unique[order[i]]
  BY <1>1, <1>2, <1>3, <1>4
<1>6. ranked' = SubSeq(scored, 1, n) /\ n \in 0..k
  BY <1>2, <1>5, SmallerOfTwo DEF RankCompanies
<1> HIDE DEF scored, n
<1>7. /\ ranked' \in Seq(E) /\ Len(ranked') = n
      /\ \A i \in 1..n : ranked'[i] = unique[order[i]]
  BY <1>2, <1>5, <1>6
<1>8. AreSeparate(ranked')
  <2>1. DOMAIN ranked' = 1..n
    BY <1>6, <1>7
  <2>2. \A i \in 1..n : i \in 1..k /\ order[i] \in DOMAIN unique
    BY <1>2, <1>3, <1>6
  <2>3. Disjoint(ranked')
    BY <1>3, <1>7, <2>1, <2>2 DEF Disjoint, AreSeparate
  <2>4. \A i \in DOMAIN ranked' : ranked'[i].id \in ranked'[i].members
    BY <1>7, <2>1, <2>2 DEF AreSeparate
  <2>. QED BY <1>7, <2>3, <2>4 DEF AreSeparate, E
<1>. QED BY <1>2, <1>4, <1>7, <1>8 DEF n

\* Every step keeps the results separate.
LEMMA NextPublishedOK == IInv /\ PublishedOK /\ [Next]_vars => PublishedOK'
<1> SUFFICES ASSUME IInv, PublishedOK, [Next]_vars PROVE PublishedOK'
  OBVIOUS
<1>1. CASE ResolveDrafts
  <2>1. /\ unique' = Deduplicate(Entities).unique
        /\ UNCHANGED <<ranked, saved, companyRows>>
    BY <1>1 DEF ResolveDrafts, store
  <2>2. AreSeparate(unique')
    BY <2>1, ResolvedAreSeparate DEF IInv
  <2>. QED BY <2>1, <2>2 DEF PublishedOK, AreSeparate
<1>2. ASSUME NEW chosen \in SUBSET DOMAIN unique, NEW order \in SetToSeqs(chosen),
             RankCompanies(order)
      PROVE  PublishedOK'
  <2>1. saved = 0 /\ companyRows = {} /\ UNCHANGED <<unique, saved, companyRows>>
    BY <1>2 DEF RankCompanies, IInv, StoreOK, store
  <2>2. AreSeparate(ranked') /\ Len(ranked') \in Nat /\ Len(ranked') <= ResultCount
    BY <1>2, RankingKeepsSeparate DEF PublishedOK
  <2>. QED BY <2>1, <2>2 DEF PublishedOK, AreSeparate
<1>3. CASE PersistCompany
  <2>1. /\ saved < Len(ranked) /\ saved' = saved + 1 /\ UNCHANGED <<unique, ranked>>
        /\ companyRows' \subseteq companyRows \cup {ranked[saved + 1].id}
    BY <1>3 DEF PersistCompany
  <2>2. saved \in Nat /\ Len(ranked) \in Nat
    BY DEF IInv, TypeOK, PublishedOK, AreSeparate
  <2>3. companyRows' \subseteq {ranked[i].id : i \in 1..(saved + 1)}
    BY <2>1, <2>2 DEF PublishedOK
  <2>4. saved' <= Len(ranked')
    BY <2>1, <2>2
  <2>. QED BY <2>1, <2>3, <2>4 DEF PublishedOK, AreSeparate
<1>4. CASE UNCHANGED <<unique, ranked, saved, companyRows>>
  BY <1>4 DEF PublishedOK, AreSeparate
<1>5. ASSUME \/ SearchStep \/ CandidateStep \/ BeginExports \/ ExportRecords
             \/ Complete \/ Cancel \/ UNCHANGED vars
      PROVE  UNCHANGED <<unique, ranked, saved, companyRows>>
  <2> USE DEF FailRun, results, store
  <2>1. CASE SearchStep
    BY <2>1 DEF SearchStep, Begin, BeginRaises, SearchRaises, SearchAnswers,
       ProgressEventRaises, SearchExhausted, BatchDone, DeduplicationRaises
  <2>2. CASE CandidateStep
    BY <2>2 DEF CandidateStep, RejectCandidate, PolicyRaises, IgnoreSeenWebsite,
       AdmitWebsite, DeclineWebsite, ApproveWebsite, CrawlWebsite, VerifyCompany,
       CompanyRaises, AdoptEnrichment, IgnoreEnrichment, AppendDraft
  <2>. QED BY <1>5, <2>1, <2>2 DEF BeginExports, ExportRecords, Complete, Cancel, vars
<1>6. CASE \E chosen \in SUBSET DOMAIN unique : \E order \in SetToSeqs(chosen) : RankCompanies(order)
  BY <1>6, <1>2
<1>7. ResultStep => \/ ResolveDrafts \/ PersistCompany
                    \/ BeginExports \/ ExportRecords \/ Complete
                    \/ \E chosen \in SUBSET DOMAIN unique :
                         \E order \in SetToSeqs(chosen) : RankCompanies(order)
  BY Zenon DEF ResultStep
<1>. QED BY <1>1, <1>3, <1>4, <1>5, <1>6, <1>7, Zenon DEF Next

\* Before the search ends there are no results.
LEMMA InitPublishedOK == Init => PublishedOK
  BY DEF Init, PublishedOK, AreSeparate, Disjoint

\* No draft counts for two published companies, no two have one id, no more than
\* result_count are published, and only they reach the database, for any pass of
\* any drafts (PublishedCompaniesAreDistinct).
THEOREM PublishedStayDistinct == Spec => []PublishedCompaniesAreDistinct
<1>1. IInv /\ PublishedOK => PublishedCompaniesAreDistinct
  BY DEF PublishedOK, AreSeparate, Disjoint, PublishedCompaniesAreDistinct
<1>. QED BY <1>1, InitPublishedOK, NextPublishedOK, OrchestratorInvariant, PTL DEF Spec

-----------------------------------------------------------------------------
\* While nothing has been warned of, nothing has been lost.
CleanOK ==
    ~warned /\ phase \notin Ends =>
        /\ skipped = <<>>
        /\ phase \in {"scoring", "persisting", "exporting"} => Len(unique) >= ResultCount
        /\ phase \in {"persisting", "exporting"} => Len(ranked) = ResultCount
        /\ companyRows = {ranked[i].id : i \in 1..saved}
        /\ exports.made = exports.tried

\* Nothing is lost before the run begins.
LEMMA InitCleanOK == Init => CleanOK /\ CleanCompletionLosesNothing
  BY DEF Init, CleanOK, CleanCompletionLosesNothing

\* Up to the end of the search a step that does not warn touches no result.
LEMMA QuietSteps ==
    ASSUME SearchStep \/ CandidateStep, TypeOK
    PROVE  /\ phase \notin Ends
           /\ phase' \notin {"scoring", "persisting", "exporting"}
           /\ stage' = stage \/ stage' # "completed"
           /\ ~warned' => /\ ~warned
                          /\ UNCHANGED <<skipped, unique, ranked, saved, companyRows, exports>>
<1> USE DEF TypeOK, FailRun, Emit, Skip, results, store, control
<1>1. CASE SearchStep
  BY <1>1 DEF SearchStep, Begin, BeginRaises, SearchRaises, SearchAnswers,
     ProgressEventRaises, SearchExhausted, BatchDone, DeduplicationRaises
<1>2. CASE CandidateStep
  BY <1>2 DEF CandidateStep, RejectCandidate, PolicyRaises, IgnoreSeenWebsite,
     AdmitWebsite, DeclineWebsite, ApproveWebsite, CrawlWebsite, VerifyCompany,
     CompanyRaises, AdoptEnrichment, IgnoreEnrichment, AppendDraft
<1>. QED BY <1>1, <1>2

\* Every step that loses something warns, so the last one does not announce a
\* clean completion.
LEMMA NextCleanOK ==
    ASSUME IInv, PublishedOK, CleanOK, CleanCompletionLosesNothing, [Next]_vars
    PROVE  CleanOK' /\ CleanCompletionLosesNothing'
<1> USE DEF Emit
<1>0. /\ warned \in BOOLEAN /\ saved \in Nat /\ ResultCount \in Nat /\ Formats \in Nat
      /\ (phase = "returned") <=> (stage \in FinalStages)
      /\ phase = "exporting" => saved = Len(ranked)
      /\ phase \notin {"persisting", "exporting"} \cup Ends => companyRows = {} /\ saved = 0
      /\ exports \in [tried : 0..Formats, made : 0..Formats]
      /\ DOMAIN ranked = 1..Len(ranked) /\ Len(ranked) \in Nat /\ Len(unique) \in Nat
      /\ TypeOK
  BY DEF IInv, TypeOK, RowAgreesWithResult, StoreOK, PublishedOK, AreSeparate
<1>a. phase \notin Ends => stage # "completed"
  BY <1>0
<1>1. CASE SearchStep \/ CandidateStep
  <2>1. stage' # "completed"
    BY <1>0, <1>1, QuietSteps
  <2>2. ~warned' => /\ ~warned /\ phase \notin Ends
                    /\ UNCHANGED <<skipped, unique, ranked, saved, companyRows, exports>>
    BY <1>0, <1>1, QuietSteps
  <2>3. phase' \notin {"scoring", "persisting", "exporting"}
    BY <1>0, <1>1, QuietSteps
  <2>4. ~warned' => /\ skipped' = <<>>
                    /\ companyRows' = {ranked'[i].id : i \in 1..saved'}
                    /\ exports'.made = exports'.tried
    BY <2>2 DEF CleanOK
  <2>. QED BY <2>1, <2>3, <2>4 DEF CleanOK, CleanCompletionLosesNothing
<1>2. CASE ResolveDrafts
  <2>1. Len(unique') \in Nat
    BY <1>2, ResolvedAreSeparate DEF ResolveDrafts, AreSeparate, IInv
  <2>2. /\ phase = "searched" /\ phase' = "scoring" /\ stage' = "scoring"
        /\ UNCHANGED <<skipped, ranked, saved, exports, companyRows>>
    BY <1>2 DEF ResolveDrafts, store
  <2>3. ~warned' => ~warned /\ ~(Len(unique') < ResultCount)
    BY <1>2, Zenon DEF ResolveDrafts
  <2>4. ~warned' => ~warned /\ Len(unique') >= ResultCount
    <3>1. ~(Len(unique') < ResultCount) => Len(unique') >= ResultCount
      <4> HIDE OrchestratorAssumption
      <4>1. ResultCount \in Nat
        BY <1>0
      <4>. QED BY <2>1, <4>1
    <3>. QED BY <2>3, <3>1, Zenon
  <2>5. ~warned' => /\ skipped' = <<>> /\ companyRows' = {ranked'[i].id : i \in 1..saved'}
                    /\ exports'.made = exports'.tried
    BY <2>2, <2>4 DEF CleanOK
  <2>. QED BY <2>2, <2>4, <2>5 DEF CleanOK, CleanCompletionLosesNothing
<1>3. CASE \E chosen \in SUBSET DOMAIN unique : \E order \in SetToSeqs(chosen) : RankCompanies(order)
  <2>1. PICK chosen \in SUBSET DOMAIN unique : \E order \in SetToSeqs(chosen) : RankCompanies(order)
    BY <1>3
  <2>2. PICK order \in SetToSeqs(chosen) : RankCompanies(order)
    BY <2>1
  <2>3. /\ Len(ranked') = IF Len(order) <= ResultCount THEN Len(order) ELSE ResultCount
        /\ Len(order) \in Nat
    BY <2>2, RankingKeepsSeparate DEF PublishedOK
  <2>8. ~warned' => ~warned /\ ~(Len(order) < Len(unique))
    BY <2>2, Zenon DEF RankCompanies
  <2>4. /\ ~warned' => ~warned /\ Len(order) >= Len(unique)
        /\ phase = "scoring" /\ phase' = "persisting" /\ stage' = stage
        /\ UNCHANGED <<skipped, unique, saved, exports, companyRows>>
    BY <1>0, <2>2, <2>3, <2>8 DEF RankCompanies, store
  <2>5. saved = 0 /\ companyRows' = {} /\ saved' = 0
    BY <1>0, <2>4
  <2>6. ~warned' => Len(ranked') = ResultCount /\ Len(unique) >= ResultCount
    BY <1>0, <2>3, <2>4 DEF CleanOK
  <2>7. companyRows' = {ranked'[i].id : i \in 1..saved'}
    BY <2>5
  <2>. QED BY <1>a, <2>4, <2>6, <2>7 DEF CleanOK, CleanCompletionLosesNothing
<1>4. CASE PersistCompany
  <2>1. /\ phase = "persisting" /\ UNCHANGED <<phase, stage, skipped, unique, ranked, exports>>
        /\ ~warned' => ~warned /\ companyRows' = companyRows \cup {ranked[saved + 1].id}
        /\ saved' = saved + 1
    BY <1>0, <1>4 DEF PersistCompany
  <2>2. ~warned' => companyRows' = {ranked'[i].id : i \in 1..saved'}
    <3>1. 1..saved' = 1..saved \cup {saved + 1}
      BY <1>0, <2>1
    <3>. QED BY <2>1, <3>1 DEF CleanOK
  <2>. QED BY <1>a, <2>1, <2>2 DEF CleanOK, CleanCompletionLosesNothing
<1>5. CASE BeginExports
  <2>1. /\ phase = "persisting" /\ phase' = "exporting" /\ (~warned' => ~warned)
        /\ stage' # "completed"
        /\ UNCHANGED <<skipped, unique, ranked, saved, exports, companyRows>>
    BY <1>0, <1>5 DEF BeginExports, results, store
  <2>. QED BY <2>1 DEF CleanOK, CleanCompletionLosesNothing
<1>6. CASE ExportRecords
  <2>1. /\ phase = "exporting"
        /\ UNCHANGED <<phase, stage, skipped, unique, ranked, saved, companyRows>>
    BY <1>6 DEF ExportRecords, store
  <2>2. PICK delivered \in {0, 1} :
          /\ exports' = [tried |-> exports.tried + 1, made |-> exports.made + delivered]
          /\ warned' = (warned \/ delivered = 0)
    BY <1>6 DEF ExportRecords
  <2>3. ~warned' => ~warned /\ delivered # 0
    BY <2>2, Zenon
  <2>4. ~warned' => ~warned /\ (exports.made = exports.tried => exports'.made = exports'.tried)
    BY <1>0, <2>2, <2>3
  <2>. QED BY <1>0, <1>a, <2>1, <2>4 DEF CleanOK, CleanCompletionLosesNothing
<1>7. CASE Complete
  <2>1. /\ phase = "exporting" /\ exports.tried = Formats /\ phase' = "returned"
        /\ stage' = "completed" => ~warned /\ row' = "completed"
        /\ UNCHANGED <<skipped, ranked, exports, companyRows>>
    BY <1>0, <1>7 DEF Complete, results
  <2>2. CleanOK'
    BY <2>1 DEF CleanOK
  <2>3. CleanCompletionLosesNothing'
    BY <1>0, <2>1 DEF CleanOK, CleanCompletionLosesNothing
  <2>. QED BY <2>2, <2>3
<1>8. CASE Cancel
  BY <1>8, <1>0 DEF Cancel, Awaiting, CleanOK, CleanCompletionLosesNothing, results, store
<1>9. CASE UNCHANGED vars
  BY <1>9 DEF vars, control, results, store, CleanOK, CleanCompletionLosesNothing
<1>10. ResultStep => \/ ResolveDrafts \/ PersistCompany
                     \/ BeginExports \/ ExportRecords \/ Complete
                     \/ \E chosen \in SUBSET DOMAIN unique :
                          \E order \in SetToSeqs(chosen) : RankCompanies(order)
  BY Zenon DEF ResultStep
<1>. QED BY <1>1, <1>2, <1>3, <1>4, <1>5, <1>6, <1>7, <1>8, <1>9, <1>10, Zenon DEF Next

\* A run announced as "completed" without warnings has found and stored the
\* requested number of companies, skipped no source and delivered every export,
\* whichever calls may raise (CleanCompletionLosesNothing).
THEOREM CleanCompletionIsComplete == Spec => []CleanCompletionLosesNothing
<1>1. PublishedOK /\ CleanOK /\ CleanCompletionLosesNothing /\ IInv /\ [Next]_vars
        => (CleanOK /\ CleanCompletionLosesNothing)'
  BY NextCleanOK
<1>. QED BY <1>1, InitPublishedOK, NextPublishedOK, InitCleanOK, OrchestratorInvariant, PTL DEF Spec
=============================================================================
