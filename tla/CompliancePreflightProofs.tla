--------------------- MODULE CompliancePreflightProofs ---------------------
(***************************************************************************)
(* What the preflight service remembers and answers, for any number of     *)
(* overlapping checks and any pages, links and limits.                     *)
(***************************************************************************)
EXTENDS CompliancePreflight, TLAPS

\* A terms document that asks for no human.
CleanDocument(t) == DomainVerdict[t] = "approved" /\ t \notin RestrictedTerms

\* A check that has met no signal: every document of its page is clean or is
\* still to be read.
CleanSoFar(w) ==
    LET links == TermsLinks[w.url] IN
    /\ Len(links) <= MaxTermsDocuments
    /\ \A i \in 1..Len(links) :
           \/ CleanDocument(links[i])
           \/ \E j \in 1..Len(w.pending) : w.pending[j] = links[i]

\* What every check under way or answered satisfies, given the reviewed origins.
Sound(w, reviewed) ==
    /\ w.stage # "idle" => w.url \in Urls
    /\ w.stage = "answered" <=> w.decision \in Decisions
    /\ w.stage \in Working \/ w.decision = "approved" =>
           DomainVerdict[w.url] = "approved"
    /\ w.decision = "approved" => OriginOf[w.url] \in reviewed
    /\ w.stage \in {"terms", "document"} /\ ~w.manual => CleanSoFar(w)
    /\ w.stage = "document" =>
           w.pending # <<>> /\ DomainVerdict[Head(w.pending)] = "approved"

SoundMemory ==
    /\ approvedTargets \subseteq Urls
    /\ prefetched \subseteq approvedTargets
    /\ ApprovalsAreReviewed

\* The inductive invariant.
IInv ==
    /\ SoundMemory
    /\ call \in [Callers -> Calls]
    /\ \A c \in Callers : Sound(call[c], approvedOrigins)

-----------------------------------------------------------------------------
USE PreflightAssumption

\* Nothing is remembered at first and no check is under way.
LEMMA InitSound == Init => IInv
  BY DEF Init, IInv, Calls, Stages, Working, Idle, Check, Decisions, Sound,
         SoundMemory, ApprovalsAreReviewed

\* A step of one check that leaves the memory alone keeps the invariant when
\* the check it leads to is sound.
LEMMA LocalStep ==
    ASSUME IInv, NEW c \in Callers, NEW w \in Calls, Sound(w, approvedOrigins),
           call' = [call EXCEPT ![c] = w], UNCHANGED memory
    PROVE  IInv'
  BY DEF IInv, Sound, SoundMemory, ApprovalsAreReviewed, CleanTerms,
         CleanSoFar, CleanDocument, memory, Calls

\* A check that answers with the memory as it is.
LEMMA AnswerSound ==
    ASSUME IInv, NEW c \in Callers, NEW d \in Decisions, call[c].stage \in Working,
           d = "approved" => OriginOf[call[c].url] \in approvedOrigins,
           call' = Answer(c, d), UNCHANGED memory
    PROVE  IInv'
  <1> DEFINE w == [call[c] EXCEPT !.stage = "answered", !.decision = d]
  <1>1. call[c] \in Calls /\ Sound(call[c], approvedOrigins)
    BY DEF IInv
  <1>2. w \in Calls /\ Sound(w, approvedOrigins)
    BY <1>1 DEF Calls, Stages, Working, Sound, Decisions
  <1>3. call' = [call EXCEPT ![c] = w]
    BY <1>1 DEF Answer, Calls, IInv
  <1> QED BY <1>2, <1>3, LocalStep

\* A document that is clean, or counted as a signal, can be left behind.
LEMMA ReviewedSound ==
    ASSUME IInv, NEW c \in Callers, NEW signal \in BOOLEAN,
           call[c].stage \in {"terms", "document"}, call[c].pending # <<>>,
           ~signal => CleanDocument(Head(call[c].pending)),
           Reviewed(c, signal), UNCHANGED memory
    PROVE  IInv'
  <1> DEFINE v == call[c]
             w == [v EXCEPT !.stage = "terms", !.pending = Tail(v.pending),
                            !.manual = v.manual \/ signal]
  <1>1. v \in Calls /\ Sound(v, approvedOrigins)
    BY DEF IInv
  <1>0. v.pending \in Seq(Urls) /\ Tail(v.pending) \in Seq(Urls)
    BY <1>1 DEF Calls
  <1>2. w \in Calls
    BY <1>0, <1>1 DEF Calls, Stages, Working
  <1>3. w.stage = "terms" /\ w.url = v.url /\ w.decision = v.decision
        /\ w.pending = Tail(v.pending) /\ w.manual = (v.manual \/ signal)
    BY <1>1 DEF Calls
  <1>4. ASSUME ~w.manual PROVE CleanSoFar(w)
    <2>1. CleanSoFar(v) /\ CleanDocument(Head(v.pending))
      BY <1>1, <1>3, <1>4 DEF Sound
    <2>2. ASSUME NEW j \in 1..Len(v.pending), j # 1
          PROVE  j - 1 \in 1..Len(w.pending) /\ w.pending[j - 1] = v.pending[j]
      BY <1>1, <1>3, <2>2 DEF Calls
    <2>3. v.pending[1] = Head(v.pending)
      BY <1>1 DEF Calls
    <2>4. ASSUME NEW i \in 1..Len(TermsLinks[v.url]), ~CleanDocument(TermsLinks[v.url][i])
          PROVE  \E j \in 1..Len(w.pending) : w.pending[j] = TermsLinks[v.url][i]
      <3>1. PICK j \in 1..Len(v.pending) : v.pending[j] = TermsLinks[v.url][i]
        BY <2>1, <2>4 DEF CleanSoFar
      <3>2. j # 1
        BY <2>1, <2>3, <2>4, <3>1
      <3> QED BY <2>2, <3>1, <3>2
    <2>5. Len(TermsLinks[v.url]) <= MaxTermsDocuments
      BY <2>1 DEF CleanSoFar
    <2> HIDE DEF w
    <2> QED BY <1>3, <2>4, <2>5 DEF CleanSoFar
  <1>5. Sound(w, approvedOrigins)
    BY <1>1, <1>3, <1>4 DEF Sound, Working
  <1>6. call' = [call EXCEPT ![c] = w]
    BY <1>1 DEF Reviewed, Calls, IInv
  <1> QED BY <1>2, <1>5, <1>6, LocalStep

-----------------------------------------------------------------------------
\* Begin evaluates the source policy and nothing else.
LEMMA BeginSound ==
    ASSUME IInv, NEW c \in Callers, NEW u \in Urls, Begin(c, u)
    PROVE  IInv'
  <1> DEFINE w == IF DomainVerdict[u] = "approved" THEN Check("robots", u, None)
                  ELSE Check("answered", u, DomainVerdict[u])
  <1>1. DomainVerdict[u] \in Decisions /\ None \notin Decisions
    OBVIOUS
  <1>2. call' = [call EXCEPT ![c] = w] /\ UNCHANGED memory
    BY DEF Begin
  <1>3. ASSUME DomainVerdict[u] = "approved", NEW v, v = Check("robots", u, None)
        PROVE  v \in Calls /\ Sound(v, approvedOrigins)
    BY <1>1, <1>3 DEF Check, Calls, Stages, Working, Sound, Decisions
  <1>4. ASSUME DomainVerdict[u] # "approved",
               NEW v, v = Check("answered", u, DomainVerdict[u])
        PROVE  v \in Calls /\ Sound(v, approvedOrigins)
    BY <1>1, <1>4 DEF Check, Calls, Stages, Working, Sound
  <1>5. w \in Calls /\ Sound(w, approvedOrigins)
    BY <1>3, <1>4
  <1> HIDE DEF w
  <1> QED BY <1>2, <1>5, LocalStep

\* Where a check may go without a change of its verdict.
LEMMA StageSound ==
    ASSUME IInv, NEW c \in Callers, NEW s \in {"page", "document", "raised"},
           call[c].stage \in Working,
           s = "document" => /\ call[c].stage = "terms" /\ call[c].pending # <<>>
                             /\ DomainVerdict[Head(call[c].pending)] = "approved",
           call' = [call EXCEPT ![c].stage = s], UNCHANGED memory
    PROVE  IInv'
  <1> DEFINE w == [call[c] EXCEPT !.stage = s]
  <1>1. call[c] \in Calls /\ Sound(call[c], approvedOrigins)
    BY DEF IInv
  <1>2. w \in Calls /\ w.stage = s /\ w.url = call[c].url
        /\ w.pending = call[c].pending /\ w.manual = call[c].manual
        /\ w.decision = call[c].decision
    BY <1>1 DEF Calls, Stages, Working
  <1>3. Sound(w, approvedOrigins)
    BY <1>1, <1>2 DEF Sound, Working, CleanSoFar
  <1>4. call' = [call EXCEPT ![c] = w]
    BY <1>1 DEF IInv, Calls
  <1> QED BY <1>2, <1>3, <1>4, LocalStep

\* An origin that was reviewed meanwhile justifies an approval.
LEMMA TargetRobotsSound ==
    ASSUME IInv, NEW c \in Callers, NEW d \in Decisions, TargetRobots(c, d)
    PROVE  IInv'
  <1>1. CASE d # "approved" \/ AlreadyReviewed(call[c].url)
    <2>1. d = "approved" => OriginOf[call[c].url] \in approvedOrigins
      BY <1>1 DEF AlreadyReviewed, IInv, SoundMemory, ApprovalsAreReviewed
    <2> QED BY <1>1, <2>1, AnswerSound DEF TargetRobots, Working
  <1>2. CASE ~(d # "approved" \/ AlreadyReviewed(call[c].url))
    BY <1>2, StageSound DEF TargetRobots, Working
  <1> QED BY <1>1, <1>2

\* All documents of a page that has just been read are still to be read, or the
\* limit is a signal.
LEMMA PageReadSound ==
    ASSUME IInv, NEW c \in Callers, call[c].stage = "page",
           NEW pending \in Seq(Urls), NEW manual \in BOOLEAN,
           ~manual => /\ pending = TermsLinks[call[c].url]
                      /\ Len(pending) <= MaxTermsDocuments,
           call' = [call EXCEPT ![c].stage = "terms", ![c].pending = pending,
                                ![c].manual = manual],
           UNCHANGED memory
    PROVE  IInv'
  <1> DEFINE v == call[c]
             w == [v EXCEPT !.stage = "terms", !.pending = pending, !.manual = manual]
  <1>1. v \in Calls /\ Sound(v, approvedOrigins)
    BY DEF IInv
  <1>2. w \in Calls /\ w.stage = "terms" /\ w.url = v.url /\ w.pending = pending
        /\ w.manual = manual /\ w.decision = v.decision
    BY <1>1 DEF Calls, Stages, Working
  <1>3. call' = [call EXCEPT ![c] = w]
    BY <1>1 DEF IInv, Calls
  <1> HIDE DEF w
  <1>4. ~w.manual => CleanSoFar(w)
    BY <1>2 DEF CleanSoFar
  <1>5. Sound(w, approvedOrigins)
    BY <1>1, <1>2, <1>4 DEF Sound, Working
  <1> QED BY <1>2, <1>3, <1>5, LocalStep

LEMMA PageArrivesSound ==
    ASSUME IInv, NEW c \in Callers, PageArrives(c) PROVE IInv'
  <1> DEFINE links == TermsLinks[call[c].url]
  <1>1. call[c].stage = "page" /\ UNCHANGED memory
    BY DEF PageArrives
  <1>2. links \in Seq(Urls)
    BY <1>1 DEF IInv, Sound
  <1>3. CASE Len(links) > MaxTermsDocuments
    <2>1. SubSeq(links, 1, MaxTermsDocuments) \in Seq(Urls)
      BY <1>2, <1>3
    <2>2. call' = [call EXCEPT ![c].stage = "terms",
                               ![c].pending = SubSeq(links, 1, MaxTermsDocuments),
                               ![c].manual = TRUE]
      BY <1>3 DEF PageArrives
    <2> QED BY <1>1, <2>1, <2>2, PageReadSound
  <1>4. CASE ~(Len(links) > MaxTermsDocuments)
    <2>1. call' = [call EXCEPT ![c].stage = "terms", ![c].pending = links,
                               ![c].manual = FALSE]
      <3>1. (Len(links) > MaxTermsDocuments) = FALSE
        BY <1>4
      <3> QED BY <3>1 DEF PageArrives
    <2>2. Len(links) <= MaxTermsDocuments
      BY <1>2, <1>4
    <2> QED BY <1>1, <1>2, <2>1, <2>2, PageReadSound
  <1> QED BY <1>3, <1>4

\* A review that met no signal has seen only clean documents.
LEMMA ConcludeSound ==
    ASSUME IInv, NEW c \in Callers, Conclude(c) PROVE IInv'
  <1> DEFINE v == call[c]
             w == [v EXCEPT !.stage = "answered", !.decision = "approved"]
  <1>1. v \in Calls /\ Sound(v, approvedOrigins) /\ v.stage = "terms" /\ v.pending = <<>>
    BY DEF IInv, Conclude
  <1>2. CASE v.manual
    BY <1>1, <1>2, AnswerSound DEF Conclude, Working, Decisions
  <1>3. CASE ~v.manual
    <2>1. CleanTerms(v.url) /\ DomainVerdict[v.url] = "approved" /\ v.url \in Urls
      BY <1>1, <1>3 DEF Sound, CleanSoFar, CleanTerms, CleanDocument, Working
    <2>2. /\ call' = [call EXCEPT ![c] = w]
          /\ approvedTargets' = approvedTargets \cup {v.url}
          /\ approvedOrigins' = approvedOrigins \cup {OriginOf[v.url]}
          /\ prefetched' = prefetched \cup {v.url}
      BY <1>1, <1>3 DEF Conclude, Answer, IInv, Calls
    <2>3. w \in Calls /\ w.stage = "answered" /\ w.url = v.url /\ w.decision = "approved"
      BY <1>1 DEF Calls, Stages, Decisions
    <2> HIDE DEF w
    <2>4. SoundMemory'
      BY <2>1, <2>2 DEF IInv, SoundMemory, ApprovalsAreReviewed, CleanTerms
    <2>5. call' \in [Callers -> Calls]
      BY <2>2, <2>3 DEF IInv
    <2>6. Sound(w, approvedOrigins')
      BY <2>1, <2>2, <2>3 DEF Sound, Working, Decisions
    <2>7. ASSUME NEW e \in Callers, e # c PROVE Sound(call'[e], approvedOrigins')
      BY <2>2, <2>7 DEF IInv, Sound, CleanSoFar, CleanDocument
    <2>8. \A e \in Callers : Sound(call'[e], approvedOrigins')
      <3>1. call'[c] = w
        BY <2>2 DEF IInv
      <3>2. Sound(call'[c], approvedOrigins')
        BY <3>1, <2>6 DEF Sound, CleanSoFar, CleanDocument
      <3> QED BY <3>2, <2>7
    <2> QED BY <2>4, <2>5, <2>8 DEF IInv
  <1> QED BY <1>2, <1>3

\* Every step of a check its caller waits for keeps the invariant.
LEMMA ProgressSound ==
    ASSUME IInv, NEW c \in Callers, Progress(c) PROVE IInv'
  <1>1. CASE \E d \in Decisions : TargetRobots(c, d)
    BY <1>1, TargetRobotsSound
  <1>2. CASE PageArrives(c)
    BY <1>2, PageArrivesSound
  <1>3. CASE PageUnusable(c)
    BY <1>3, AnswerSound DEF PageUnusable, Working, Decisions
  <1>4. CASE SkipDocument(c)
    <2>1. /\ call[c].stage = "terms" /\ call[c].pending # <<>>
          /\ Reviewed(c, TRUE) /\ UNCHANGED memory
      BY <1>4 DEF SkipDocument
    <2> QED BY <2>1, ReviewedSound
  <1>5. CASE \E d \in Decisions : DocumentRobots(c, d)
    <2>1. CASE UNCHANGED memory /\ call[c].stage = "terms" /\ call[c].pending # <<>>
               /\ Reviewed(c, TRUE)
      BY <2>1, ReviewedSound
    <2>2. CASE call' = [call EXCEPT ![c].stage = "document"]
      BY <1>5, <2>2, StageSound DEF DocumentRobots, Working
    <2> QED BY <1>5, <2>1, <2>2 DEF DocumentRobots
  <1>6. CASE DocumentArrives(c)
    <2>1. /\ call[c].pending # <<>> /\ call[c].stage = "document"
          /\ DomainVerdict[Head(call[c].pending)] = "approved"
          /\ Reviewed(c, Head(call[c].pending) \in RestrictedTerms)
          /\ UNCHANGED memory
      BY <1>6 DEF DocumentArrives, IInv, Sound
    <2> DEFINE signal == Head(call[c].pending) \in RestrictedTerms
    <2>2. signal \in BOOLEAN /\ (~signal => CleanDocument(Head(call[c].pending)))
      BY <2>1 DEF CleanDocument
    <2>3. Reviewed(c, signal)
      BY <2>1
    <2> HIDE DEF signal
    <2> QED BY <2>1, <2>2, <2>3, ReviewedSound
  <1>7. CASE DocumentUnusable(c)
    <2>1. call[c].pending # <<>>
      BY <1>7 DEF DocumentUnusable, IInv, Sound
    <2> QED BY <1>7, <2>1, ReviewedSound DEF DocumentUnusable
  <1>8. CASE Conclude(c)
    BY <1>8, ConcludeSound
  <1> QED BY <1>1, <1>2, <1>3, <1>4, <1>5, <1>6, <1>7, <1>8 DEF Progress

\* So does a check that ends without an answer.
LEMMA EndSound ==
    ASSUME IInv, NEW c \in Callers, Raise(c) \/ Cancel(c) PROVE IInv'
  <1>1. CASE Raise(c)
    BY <1>1, StageSound DEF Raise
  <1>2. CASE Cancel(c)
    <2>1. Idle \in Calls /\ Sound(Idle, approvedOrigins)
      BY DEF Calls, Stages, Working, Idle, Check, Sound, Decisions
    <2> QED BY <1>2, <2>1, LocalStep DEF Cancel
  <1> QED BY <1>1, <1>2

\* And a page that the crawler takes over.
LEMMA TakeSound ==
    ASSUME IInv, NEW u, TakePrefetched(u),
           UNCHANGED <<approvedTargets, approvedOrigins, call>>
    PROVE  IInv'
  BY DEF IInv, SoundMemory, ApprovalsAreReviewed, CleanTerms, Sound,
         CleanSoFar, CleanDocument, TakePrefetched

\* The invariant is preserved by every step.
LEMMA NextSound == IInv /\ [Next]_vars => IInv'
  <1> SUFFICES ASSUME IInv, [Next]_vars PROVE IInv'
    OBVIOUS
  <1>1. CASE \E c \in Callers, u \in Urls : Begin(c, u)
    BY <1>1, BeginSound
  <1>2. CASE \E c \in Callers : Progress(c) \/ Raise(c) \/ Cancel(c)
    BY <1>2, ProgressSound, EndSound
  <1>3. CASE \E u \in Urls : Take(u)
    BY <1>3, TakeSound DEF Take
  <1>4. CASE UNCHANGED vars
    <2>1. UNCHANGED <<approvedTargets, approvedOrigins, prefetched, call>>
      BY <1>4 DEF vars
    <2> QED BY <2>1 DEF IInv, SoundMemory, ApprovalsAreReviewed
  <1> QED BY <1>1, <1>2, <1>3, <1>4 DEF Next

\* What the preflight knows and says stays sound for ever.
THEOREM PreflightInvariant == Spec => []IInv
  BY InitSound, NextSound, PTL DEF Spec

\* The types of the variables.
THEOREM PreflightTypes == Spec => []TypeOK
  <1>1. IInv => TypeOK
    BY DEF IInv, SoundMemory, ApprovalsAreReviewed, TypeOK, Sound
  <1> QED BY <1>1, PreflightInvariant, PTL

\* A remembered origin is a reviewed one, however the checks interleave.
THEOREM OnlyReviewedIsApproved == Spec => []ApprovalsAreReviewed
  <1>1. IInv => ApprovalsAreReviewed
    BY DEF IInv, SoundMemory
  <1> QED BY <1>1, PreflightInvariant, PTL

\* Every approval that a caller is given rests on a review.
THEOREM ApprovalsRestOnReviews == Spec => []ApprovalRestsOnReview
  <1>1. IInv => ApprovalRestsOnReview
    BY DEF IInv, Sound, ApprovalRestsOnReview
  <1> QED BY <1>1, PreflightInvariant, PTL
=============================================================================
