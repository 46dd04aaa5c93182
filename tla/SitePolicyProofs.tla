-------------------------- MODULE SitePolicyProofs --------------------------
(***************************************************************************)
(* Theorems about what permits a website to be read.  DomainReview: with   *)
(* one reviewer at a time the policy files and the audit history agree,    *)
(* for any domains, rules and number of interrupted commands.              *)
(* RobotsCache: the freshness of robots decisions, for any number of       *)
(* checks, sites and rules, and any lifetime of an entry.                  *)
(***************************************************************************)
EXTENDS DomainReview, RobotsCache, TLAPS

\* Two rule sets list the same domains, d apart.
SameApartFrom(d, x, y) ==
    \A o \in Domains \ {d} : /\ o \in x.exact <=> o \in y.exact
                             /\ o \in x.recursive <=> o \in y.recursive

\* What the documents of a decided command will make of the files.
ApprovedSettled(rules, d, decision) ==
    /\ d \in rules.exact <=> decision = "approved"
    /\ d \in rules.recursive => decision = "approved"

BlockedSettled(rules, d, decision) ==
    /\ d \in rules.exact <=> decision = "rejected"
    /\ d \in rules.recursive => decision = "rejected"
    /\ decision = "approved" => rules.recursive \cap Ancestors[d] = {}

\* The documents a command holds are those of the files, but for its domain.
CommandIsCurrent(c) ==
    /\ c.pc = "approvedRead" => c.approved = approved
    /\ c.pc \in {"decided", "staged"} =>
          /\ SameApartFrom(c.domain, c.approved, approved)
          /\ SameApartFrom(c.domain, c.blocked, blocked)
          /\ c.approved.recursive \subseteq approved.recursive
          /\ c.blocked.recursive \subseteq blocked.recursive
          /\ ApprovedSettled(c.approved, c.domain, c.decision)
          /\ BlockedSettled(c.blocked, c.domain, c.decision)
    /\ c.pc = "staged" =>
          /\ c.history = Append(history, [domain |-> c.domain, decision |-> c.decision])
          /\ c.written < 3
          /\ c.written > 0 => c.approved = approved /\ c.domain \in unfinished
          /\ c.written > 1 => c.blocked = blocked
    /\ c.pc # "staged" => c.written = 0

\* No blocked domain above overrides a recorded approval.
ApprovalsAreOpen ==
    \A i \in DOMAIN history :
        (/\ history[i].decision = "approved"
         /\ IsLatest(i)
         /\ history[i].domain \notin unfinished)
            => blocked.recursive \cap Ancestors[history[i].domain] = {}

\* The inductive invariant.
IInv ==
    /\ TypeOK
    /\ \A r \in Reviewers : CommandIsCurrent(review[r])
    /\ RecordsMatchRules
    /\ ApprovalsAreOpen

-----------------------------------------------------------------------------
USE ReviewAssumption

\* The helpers on rule sets return rule sets.
LEMMA RulesStayRules ==
    ASSUME NEW rules \in RuleSets, NEW d \in Domains, NEW decision \in Decisions
    PROVE  /\ NewApproved(rules, d, decision) \in RuleSets
           /\ NewBlocked(rules, d, decision) \in RuleSets
           /\ NewApproved(rules, d, decision).recursive \subseteq rules.recursive
           /\ NewBlocked(rules, d, decision).recursive \subseteq rules.recursive
  <1>1. AddExact(rules, d) \in RuleSets /\ AddExact(rules, d).recursive = rules.recursive
    BY DEF AddExact, RuleSets
  <1>2. Without(rules, d) \in RuleSets /\ Without(rules, d).recursive \subseteq rules.recursive
    BY DEF Without, RuleSets
  <1> QED BY <1>1, <1>2 DEF NewApproved, NewBlocked

\* A decision settles its own domain and leaves the others alone.
LEMMA DecisionSettles ==
    ASSUME NEW a \in RuleSets, NEW b \in RuleSets, NEW d \in Domains,
           NEW decision \in Decisions, ~Refused(a, b, d, decision)
    PROVE  /\ SameApartFrom(d, NewApproved(a, d, decision), a)
           /\ SameApartFrom(d, NewBlocked(b, d, decision), b)
           /\ ApprovedSettled(NewApproved(a, d, decision), d, decision)
           /\ BlockedSettled(NewBlocked(b, d, decision), d, decision)
  <1>1. \A rules \in RuleSets : /\ AddExact(rules, d).exact = rules.exact \cup {d}
                                /\ AddExact(rules, d).recursive = rules.recursive
    BY DEF AddExact, RuleSets
  <1>2. \A rules : /\ Without(rules, d).exact = rules.exact \ {d}
                   /\ Without(rules, d).recursive = rules.recursive \ {d}
    BY DEF Without
  <1>3. decision \in {"approved", "rejected", "removed"}
    BY DEF Decisions
  <1>4. CASE decision = "approved"
    BY <1>1, <1>2, <1>4 DEF NewApproved, NewBlocked, SameApartFrom, ApprovedSettled,
                            BlockedSettled, Refused
  <1>5. CASE decision = "rejected"
    BY <1>1, <1>2, <1>5 DEF NewApproved, NewBlocked, SameApartFrom, ApprovedSettled,
                            BlockedSettled
  <1>6. CASE decision = "removed"
    BY <1>2, <1>6 DEF NewApproved, NewBlocked, SameApartFrom, ApprovedSettled,
                      BlockedSettled
  <1> QED BY <1>3, <1>4, <1>5, <1>6

\* No command is under way at first.
LEMMA NoCommandType ==
    NoCommand.pc = "idle" /\ NoCommand.written = 0 /\ NoCommand \in Commands
  <1>1. (CHOOSE d \in Domains : TRUE) \in Domains
    OBVIOUS
  <1>2. Len(WriteOrder) = 3
    BY DEF WriteOrder
  <1>3. NoRules \in RuleSets /\ "removed" \in Decisions /\ <<>> \in Seq(Records)
    BY DEF NoRules, RuleSets, Decisions
  <1> QED BY <1>1, <1>2, <1>3 DEF NoCommand, Command, Commands

LEMMA InitIInv == Init => IInv
  <1> SUFFICES ASSUME Init PROVE IInv
    OBVIOUS
  <1>1. TypeOK
    BY NoCommandType DEF Init, TypeOK, RuleSets
  <1>2. \A r \in Reviewers : CommandIsCurrent(review[r])
    BY NoCommandType DEF Init, CommandIsCurrent
  <1>3. DOMAIN history = {}
    BY DEF Init
  <1>4. RecordsMatchRules /\ ApprovalsAreOpen
    BY <1>3 DEF Init, RecordsMatchRules, AsAtFirst, ApprovalsAreOpen
  <1> QED BY <1>1, <1>2, <1>4 DEF IInv

-----------------------------------------------------------------------------
\* The steps that read keep the files; what they put into the command is all
\* that has to be looked at.
LEMMA ReadingKeepsFiles ==
    ASSUME IInv, UNCHANGED <<files, unfinished>>,
           review' \in [Reviewers -> Commands],
           \A r \in Reviewers : CommandIsCurrent(review[r])'
    PROVE  IInv'
  <1>1. TypeOK' /\ RecordsMatchRules' /\ ApprovalsAreOpen'
    BY DEF IInv, TypeOK, files, RecordsMatchRules, Unrecorded, IsLatest, Settled, AsAtFirst,
           ApprovalsAreOpen
  <1> QED BY <1>1 DEF IInv

LEMMA ReadSteps ==
    ASSUME NEW r \in Reviewers, Reviewers = {r}, IInv,
           NEW d \in Domains, NEW decision \in Decisions,
           \/ Confirm(r, d, decision) \/ ReadApproved(r) \/ ReadBlocked(r)
           \/ ReadHistory(r) \/ Abort(r)
    PROVE  IInv'
  <1> DEFINE c == review[r]
  <1>1. /\ c \in Commands /\ CommandIsCurrent(c)
        /\ approved \in RuleSets /\ blocked \in RuleSets /\ history \in Seq(Records)
        /\ review \in [Reviewers -> Commands]
    BY DEF IInv, TypeOK
  <1>2. UNCHANGED <<files, unfinished>>
    BY DEF Confirm, ReadApproved, ReadBlocked, ReadHistory, Abort
  <1>3. SUFFICES review'[r] \in Commands /\ CommandIsCurrent(review'[r])
                 /\ review' = [review EXCEPT ![r] = review'[r]]
    <2>1. ASSUME review'[r] \in Commands, CommandIsCurrent(review'[r]),
                 review' = [review EXCEPT ![r] = review'[r]]
          PROVE  IInv'
      <3>1. review' \in [Reviewers -> Commands]
        BY <1>1, <2>1
      <3>2. \A q \in Reviewers : CommandIsCurrent(review[q])'
        BY <1>2, <2>1 DEF CommandIsCurrent, files
      <3> QED BY <1>2, <3>1, <3>2, ReadingKeepsFiles
    <2> QED BY <2>1
  <1>4. CASE Idle(r)
    BY <1>1, <1>4, NoCommandType DEF Idle, CommandIsCurrent
  <1>5. CASE Confirm(r, d, decision)
    <2>1. review'[r] = Command("confirmed", d, decision)
          /\ review' = [review EXCEPT ![r] = review'[r]]
      BY <1>1, <1>5 DEF Confirm
    <2>2. Len(WriteOrder) = 3 /\ NoRules \in RuleSets /\ <<>> \in Seq(Records)
      BY DEF WriteOrder, NoRules, RuleSets
    <2> QED BY <2>1, <2>2 DEF Command, Commands, CommandIsCurrent
  <1>6. CASE ReadApproved(r)
    BY <1>1, <1>6 DEF ReadApproved, Commands, CommandIsCurrent
  <1>7. CASE ReadBlocked(r) /\ ~Idle(r)
    <2>1. c.pc = "approvedRead" /\ ~Refused(c.approved, blocked, c.domain, c.decision)
          /\ review' = [review EXCEPT
                ![r].pc = "decided",
                ![r].approved = NewApproved(c.approved, c.domain, c.decision),
                ![r].blocked = NewBlocked(blocked, c.domain, c.decision)]
      BY <1>7 DEF ReadBlocked
    <2>2. c.approved = approved /\ c.written = 0 /\ c.domain \in Domains /\ c.decision \in Decisions
      BY <1>1, <2>1 DEF CommandIsCurrent, Commands
    <2>3. review'[r] = [c EXCEPT !.pc = "decided",
                                 !.approved = NewApproved(approved, c.domain, c.decision),
                                 !.blocked = NewBlocked(blocked, c.domain, c.decision)]
          /\ review' = [review EXCEPT ![r] = review'[r]]
      BY <1>1, <2>1, <2>2
    <2> DEFINE a == NewApproved(approved, c.domain, c.decision)
               b == NewBlocked(blocked, c.domain, c.decision)
    <2>7. a \in RuleSets /\ b \in RuleSets
      BY <1>1, <2>2, RulesStayRules
    <2>4. review'[r] \in Commands
      <3> HIDE DEF a, b
      <3>1. review'[r] = [c EXCEPT !.pc = "decided", !.approved = a, !.blocked = b]
        BY <2>3 DEF a, b
      <3> QED BY <1>1, <2>7, <3>1 DEF Commands
    <2>5. /\ review'[r].pc = "decided" /\ review'[r].written = 0
          /\ review'[r].domain = c.domain /\ review'[r].decision = c.decision
          /\ review'[r].approved = NewApproved(approved, c.domain, c.decision)
          /\ review'[r].blocked = NewBlocked(blocked, c.domain, c.decision)
      BY <1>1, <2>2, <2>3 DEF Commands
    <2>6. CommandIsCurrent(review'[r])
      <3>1. /\ SameApartFrom(c.domain, a, approved) /\ SameApartFrom(c.domain, b, blocked)
            /\ ApprovedSettled(a, c.domain, c.decision)
            /\ BlockedSettled(b, c.domain, c.decision)
        BY <1>1, <2>1, <2>2, DecisionSettles
      <3>2. a.recursive \subseteq approved.recursive /\ b.recursive \subseteq blocked.recursive
        BY <1>1, <2>2, RulesStayRules
      <3> HIDE DEF a, b
      <3>3. review'[r].approved = a /\ review'[r].blocked = b
        BY <2>5 DEF a, b
      <3> QED BY <2>5, <3>1, <3>2, <3>3 DEF CommandIsCurrent
    <2> QED BY <2>3, <2>4, <2>6
  <1>8. CASE ReadHistory(r)
    <2> DEFINE record == [domain |-> c.domain, decision |-> c.decision]
    <2>1. Append(history, record) \in Seq(Records)
      BY <1>1 DEF Records, Commands
    <2>2. c.pc = "decided"
          /\ review'[r] = [c EXCEPT !.pc = "staged", !.history = Append(history, record)]
          /\ review' = [review EXCEPT ![r] = review'[r]]
      BY <1>1, <1>8 DEF ReadHistory
    <2>3. review'[r] \in Commands
      <3> HIDE DEF record
      <3> QED BY <1>1, <2>1, <2>2 DEF Commands
    <2>4. /\ review'[r].pc = "staged" /\ review'[r].written = 0
          /\ review'[r].domain = c.domain /\ review'[r].decision = c.decision
          /\ review'[r].approved = c.approved /\ review'[r].blocked = c.blocked
          /\ review'[r].history = Append(history, record)
      <3>1. c.written = 0
        BY <1>1, <2>2 DEF CommandIsCurrent
      <3> QED BY <1>1, <2>2, <3>1 DEF Commands
    <2>5. CommandIsCurrent(review'[r])
      BY <1>1, <2>2, <2>4 DEF CommandIsCurrent
    <2> QED BY <2>2, <2>3, <2>5
  <1> QED BY <1>4, <1>5, <1>6, <1>7, <1>8 DEF Abort

-----------------------------------------------------------------------------
\* One file is replaced by the document the command holds for it.
LEMMA ReplaceWritesOne ==
    ASSUME NEW r \in Reviewers, IInv, Replace(r)
    PROVE  LET c == review[r] IN
           /\ c \in Commands /\ CommandIsCurrent(c) /\ c.pc = "staged"
           /\ \/ /\ c.written = 0 /\ approved' = c.approved
                 /\ UNCHANGED <<blocked, history>>
              \/ /\ c.written = 1 /\ blocked' = c.blocked /\ approved = c.approved
                 /\ UNCHANGED <<approved, history>>
              \/ /\ c.written = 2 /\ history' = c.history
                 /\ approved = c.approved /\ blocked = c.blocked
                 /\ UNCHANGED <<approved, blocked>>
           /\ c.written < 2 =>
                 /\ unfinished' = unfinished \cup {c.domain}
                 /\ review' = [review EXCEPT ![r].written = c.written + 1]
           /\ c.written = 2 => unfinished' = unfinished \ {c.domain} /\ Idle(r)
  <1> DEFINE c == review[r]
  <1>1. c \in Commands /\ CommandIsCurrent(c) /\ c.pc = "staged"
    BY DEF IInv, TypeOK, Replace
  <1>2. c.written \in {0, 1, 2}
    BY <1>1 DEF CommandIsCurrent, Commands
  <1>3. Len(WriteOrder) = 3 /\ WriteOrder[1] = "approved" /\ WriteOrder[2] = "blocked"
        /\ WriteOrder[3] = "history"
    BY DEF WriteOrder
  <1>4. CASE c.written = 0
    BY <1>1, <1>3, <1>4 DEF Replace
  <1>5. CASE c.written = 1
    BY <1>1, <1>3, <1>5 DEF Replace, CommandIsCurrent
  <1>6. CASE c.written = 2
    BY <1>1, <1>3, <1>6 DEF Replace, CommandIsCurrent
  <1> QED BY <1>1, <1>2, <1>4, <1>5, <1>6

\* Writing the rules changes the listing of the command's domain only, and
\* that domain is unfinished from then on.
LEMMA ReplaceRules ==
    ASSUME NEW r \in Reviewers, Reviewers = {r}, IInv, Replace(r), review[r].written < 2
    PROVE  IInv'
  <1> DEFINE c == review[r]
             d == c.domain
  <1>1. /\ c \in Commands /\ CommandIsCurrent(c) /\ c.pc = "staged"
        /\ history' = history /\ unfinished' = unfinished \cup {d}
        /\ review' = [review EXCEPT ![r].written = c.written + 1]
        /\ c.written \in {0, 1}
    BY ReplaceWritesOne DEF Commands
  <1>2. /\ SameApartFrom(d, approved', approved) /\ SameApartFrom(d, blocked', blocked)
        /\ SameApartFrom(d, c.approved, approved') /\ SameApartFrom(d, c.blocked, blocked')
    BY <1>1, ReplaceWritesOne DEF CommandIsCurrent, SameApartFrom
  <1>3. /\ approved'.recursive \subseteq approved.recursive
        /\ blocked'.recursive \subseteq blocked.recursive
        /\ c.approved.recursive \subseteq approved'.recursive
        /\ c.blocked.recursive \subseteq blocked'.recursive
        /\ approved' \in RuleSets /\ blocked' \in RuleSets
    BY <1>1, ReplaceWritesOne DEF CommandIsCurrent, Commands, IInv, TypeOK
  <1>4. /\ approved' = c.approved
        /\ c.written = 1 => blocked' = c.blocked
    BY <1>1, ReplaceWritesOne
  <1>5. review \in [Reviewers -> Commands] /\ Len(WriteOrder) = 3 /\ history \in Seq(Records)
        /\ unfinished \subseteq Domains
    BY DEF IInv, TypeOK, WriteOrder
  <1>6. review' \in [Reviewers -> Commands]
        /\ review'[r] = [c EXCEPT !.written = c.written + 1]
    <2>1. c.written + 1 \in 0 .. Len(WriteOrder)
      BY <1>1, <1>5
    <2>2. [c EXCEPT !.written = c.written + 1] \in Commands
      BY <1>1, <2>1 DEF Commands
    <2> QED BY <1>1, <1>5, <2>2
  <1>7. TypeOK'
    BY <1>1, <1>3, <1>5, <1>6 DEF IInv, TypeOK, Commands
  <1>8. CommandIsCurrent(review[r])'
    <2>1. /\ review'[r].pc = "staged" /\ review'[r].written = c.written + 1
          /\ review'[r].domain = d /\ review'[r].decision = c.decision
          /\ review'[r].approved = c.approved /\ review'[r].blocked = c.blocked
          /\ review'[r].history = c.history
      BY <1>1, <1>6 DEF Commands
    <2> QED BY <1>1, <1>2, <1>3, <1>4, <2>1 DEF CommandIsCurrent
  <1>9. RecordsMatchRules'
    <2> SUFFICES ASSUME NEW o \in Domains, o \notin unfinished'
                 PROVE  /\ \A i \in DOMAIN history :
                              history[i].domain = o /\ IsLatest(i)'
                                  => Settled(o, history[i].decision)'
                        /\ Unrecorded(o)' => AsAtFirst(o)'
      BY <1>1 DEF RecordsMatchRules, IsLatest, Unrecorded
    <2>1. o \in Domains \ {d} /\ o \notin unfinished
      BY <1>1
    <2>2. /\ o \in approved'.exact <=> o \in approved.exact
          /\ o \in approved'.recursive <=> o \in approved.recursive
          /\ o \in blocked'.exact <=> o \in blocked.exact
          /\ o \in blocked'.recursive <=> o \in blocked.recursive
      BY <1>2, <2>1 DEF SameApartFrom
    <2>3. /\ \A x : Settled(o, x) => Settled(o, x)'
          /\ AsAtFirst(o) => AsAtFirst(o)'
      BY <2>2 DEF Settled, AsAtFirst
    <2>4. /\ \A i \in DOMAIN history : IsLatest(i)' => IsLatest(i)
          /\ Unrecorded(o)' => Unrecorded(o)
      BY <1>1 DEF IsLatest, Unrecorded
    <2> QED BY <1>1, <2>1, <2>3, <2>4 DEF IInv, RecordsMatchRules
  <1>10. ApprovalsAreOpen'
    BY <1>1, <1>3 DEF IInv, ApprovalsAreOpen, IsLatest
  <1> QED BY <1>7, <1>8, <1>9, <1>10 DEF IInv

\* Writing the history finishes the domain: its new record is its latest one.
LEMMA ReplaceHistory ==
    ASSUME NEW r \in Reviewers, Reviewers = {r}, IInv, Replace(r), review[r].written = 2
    PROVE  IInv'
  <1> DEFINE c == review[r]
             d == c.domain
             record == [domain |-> d, decision |-> c.decision]
  <1>1. /\ c \in Commands /\ CommandIsCurrent(c) /\ c.pc = "staged"
        /\ approved = c.approved /\ blocked = c.blocked /\ UNCHANGED <<approved, blocked>>
        /\ unfinished' = unfinished \ {d} /\ Idle(r)
        /\ history' = Append(history, record)
    BY ReplaceWritesOne DEF CommandIsCurrent
  <1>2. history \in Seq(Records) /\ review \in [Reviewers -> Commands]
        /\ record \in Records /\ d \in Domains
    BY <1>1 DEF IInv, TypeOK, Commands, Records
  <1>3. review' \in [Reviewers -> Commands] /\ CommandIsCurrent(review[r])'
    BY <1>1, <1>2, NoCommandType DEF Idle, CommandIsCurrent
  <1>4. TypeOK'
    <2>1. history' \in Seq(Records)
      <3> HIDE DEF record
      <3> QED BY <1>1, <1>2
    <2> QED BY <1>1, <1>3, <2>1 DEF IInv, TypeOK
  <1>5. /\ DOMAIN history' = DOMAIN history \cup {Len(history) + 1}
        /\ \A i \in DOMAIN history : i \in Nat /\ i <= Len(history) /\ history'[i] = history[i]
        /\ history'[Len(history) + 1] = record /\ Len(history) \in Nat
    <2> HIDE DEF record
    <2> QED BY <1>1, <1>2
  <1>6. ApprovedSettled(approved, d, c.decision) /\ BlockedSettled(blocked, d, c.decision)
    BY <1>1 DEF CommandIsCurrent
  <1>7. \A i \in DOMAIN history : IsLatest(i)' => IsLatest(i) /\ history[i].domain # d
    BY <1>5 DEF IsLatest
  <1>8. RecordsMatchRules'
    <2> SUFFICES ASSUME NEW o \in Domains, o \notin unfinished'
                 PROVE  /\ \A i \in DOMAIN history' :
                              history'[i].domain = o /\ IsLatest(i)'
                                  => Settled(o, history'[i].decision)
                        /\ Unrecorded(o)' => AsAtFirst(o)
      BY <1>1 DEF RecordsMatchRules, Settled, AsAtFirst
    <2>1. CASE o = d
      <3>1. ~Unrecorded(o)'
        BY <1>5, <2>1 DEF Unrecorded
      <3>2. Settled(d, c.decision)
        BY <1>6 DEF Settled, ApprovedSettled, BlockedSettled
      <3> QED BY <1>5, <1>7, <2>1, <3>1, <3>2
    <2>2. CASE o # d
      <3>1. o \notin unfinished
        BY <1>1, <2>2
      <3>2. Unrecorded(o)' => Unrecorded(o)
        BY <1>5 DEF Unrecorded
      <3> QED BY <1>5, <1>7, <2>2, <3>1, <3>2 DEF IInv, RecordsMatchRules
    <2> QED BY <2>1, <2>2
  <1>9. ApprovalsAreOpen'
    <2> SUFFICES ASSUME NEW i \in DOMAIN history', history'[i].decision = "approved",
                        IsLatest(i)', history'[i].domain \notin unfinished'
                 PROVE  blocked.recursive \cap Ancestors[history'[i].domain] = {}
      BY <1>1 DEF ApprovalsAreOpen
    <2>1. CASE i \in DOMAIN history
      BY <1>1, <1>5, <1>7, <2>1 DEF IInv, ApprovalsAreOpen
    <2>2. CASE i = Len(history) + 1
      BY <1>5, <1>6, <2>2 DEF BlockedSettled
    <2> QED BY <1>5, <2>1, <2>2
  <1> QED BY <1>3, <1>4, <1>8, <1>9 DEF IInv

-----------------------------------------------------------------------------
LEMMA StutterIInv == IInv /\ UNCHANGED vars => IInv'
  BY DEF IInv, vars, TypeOK, CommandIsCurrent, RecordsMatchRules, IsLatest, Unrecorded,
         Settled, AsAtFirst, ApprovalsAreOpen

LEMMA NextIInv ==
    ASSUME NEW r \in Reviewers, Reviewers = {r}, IInv, [Next]_vars
    PROVE  IInv'
  <1>1. CASE UNCHANGED vars
    BY <1>1, StutterIInv
  <1>2. CASE Replace(r)
    <2>1. review[r].written < 2 \/ review[r].written = 2
      BY <1>2, ReplaceWritesOne
    <2> QED BY <1>2, <2>1, ReplaceRules, ReplaceHistory
  <1>3. ASSUME NEW d \in Domains, NEW decision \in Decisions, Confirm(r, d, decision)
        PROVE  IInv'
    BY <1>3, ReadSteps
  <1>4. CASE ReadApproved(r) \/ ReadBlocked(r) \/ ReadHistory(r) \/ Abort(r)
    <2>1. PICK d \in Domains : TRUE
      OBVIOUS
    <2>2. "removed" \in Decisions
      BY DEF Decisions
    <2> QED BY <1>4, <2>1, <2>2, ReadSteps
  <1> QED BY <1>1, <1>2, <1>3, <1>4 DEF Next

\* One reviewer at a time keeps the inductive invariant.
LEMMA AlwaysIInv ==
    ASSUME NEW r \in Reviewers, Reviewers = {r}
    PROVE  Spec => []IInv
  <1>1. IInv /\ [Next]_vars => IInv'
    BY NextIInv
  <1> QED BY <1>1, InitIInv, PTL DEF Spec

\* With one reviewer every variable has its type, and no command ever writes a
\* recursive rule.
THEOREM TypeCorrect ==
    ASSUME NEW r \in Reviewers, Reviewers = {r}
    PROVE  Spec => []TypeOK
  <1>1. IInv => TypeOK
    BY DEF IInv
  <1> QED BY <1>1, AlwaysIInv, PTL

\* With one reviewer the rules list every domain the way the audit history says,
\* whatever commands were refused, failed or died (record_decision).
THEOREM RecordsAlwaysMatchRules ==
    ASSUME NEW r \in Reviewers, Reviewers = {r}
    PROVE  Spec => []RecordsMatchRules
  <1>1. IInv => RecordsMatchRules
    BY DEF IInv
  <1> QED BY <1>1, AlwaysIInv, PTL

\* A recorded approval that no other rule names the host of is in force.
THEOREM ApprovalsAlwaysTakeEffect ==
    ASSUME NEW r \in Reviewers, Reviewers = {r}
    PROVE  Spec => []ApprovalsTakeEffect
  <1>1. ASSUME IInv PROVE ApprovalsTakeEffect
    <2> SUFFICES ASSUME NEW i \in DOMAIN history, history[i].decision = "approved",
                        IsLatest(i), history[i].domain \notin unfinished,
                        \A o \in blocked.exact \ {history[i].domain} :
                            Bare[o] = o /\ o # Bare[history[i].domain]
                 PROVE  Approves(approved, blocked, history[i].domain)
      BY DEF ApprovalsTakeEffect
    <2> DEFINE d == history[i].domain
    <2>1. d \in Domains
      <3>1. history[i] \in Records
        BY <1>1 DEF IInv, TypeOK
      <3> QED BY <3>1 DEF Records
    <2>2. Settled(d, "approved") /\ blocked.recursive \cap Ancestors[d] = {}
      BY <1>1, <2>1 DEF IInv, RecordsMatchRules, ApprovalsAreOpen
    <2>3. d \in approved.exact /\ d \notin blocked.exact /\ d \notin blocked.recursive
      BY <2>2 DEF Settled
    <2>4. Matches(d, approved)
      BY <2>3 DEF Matches
    <2>5. {Bare[rule] : rule \in {q \in blocked.exact : Bare[q] # q}} = {}
      BY <2>3
    <2>6. ~Matches(d, blocked)
      BY <2>2, <2>3, <2>5 DEF Matches
    <2> QED BY <2>4, <2>6 DEF Approves
  <1> QED BY <1>1, AlwaysIInv, PTL

\* A domain's own approved rule comes into force only by a command to approve it.
THEOREM ApprovalsAlwaysDecided ==
    ASSUME NEW r \in Reviewers, Reviewers = {r}
    PROVE  Spec => ApprovalsAreDecided
  <1> DEFINE Decided ==
        \A d \in Domains :
            InForce(approved, blocked, d)' /\ ~InForce(approved, blocked, d) =>
                \E q \in Reviewers : review[q].domain = d /\ review[q].decision = "approved"
  <1>1. ASSUME IInv, [Next]_vars PROVE Decided
    <2>1. CASE UNCHANGED <<approved, blocked>>
      BY <2>1 DEF InForce
    <2>2. CASE Replace(r)
      <3> DEFINE c == review[r]
      <3>1. SUFFICES ASSUME NEW o \in Domains, InForce(approved, blocked, o)',
                            ~InForce(approved, blocked, o)
                     PROVE  o = c.domain /\ c.decision = "approved"
        OBVIOUS
      <3>2. c \in Commands /\ CommandIsCurrent(c) /\ c.pc = "staged"
        BY <1>1, <2>2, ReplaceWritesOne
      <3>3. /\ approved' \in {approved, c.approved} /\ blocked' \in {blocked, c.blocked}
            /\ approved' = c.approved \/ UNCHANGED <<approved, blocked>>
        BY <1>1, <2>2, ReplaceWritesOne
      <3>4. o = c.domain
        BY <3>1, <3>2, <3>3 DEF CommandIsCurrent, SameApartFrom, InForce, Lists
      <3>5. c.decision # "approved" => ~Lists(c.approved, o)
        BY <3>2, <3>4 DEF CommandIsCurrent, ApprovedSettled, Lists
      <3>6. c.decision = "approved"
        BY <3>1, <3>3, <3>5 DEF InForce, Lists
      <3> QED BY <3>4, <3>6
    <2> QED BY <1>1, <2>1, <2>2 DEF Next, vars, files, Confirm, ReadApproved, ReadBlocked,
                                    ReadHistory, Abort
  <1>2. Spec => [][Decided]_vars
    BY <1>1, AlwaysIInv, PTL DEF Spec
  <1> QED BY <1>2 DEF ApprovalsAreDecided

-----------------------------------------------------------------------------
HIDE ReviewAssumption

\* The policy is no rules, or rules that o published no more than Ttl before
\* the entry expires.
Authentic(o, policy, expires) ==
    \/ policy.failure # None
    \/ \E t \in 0..now : expires <= t + Ttl /\ policy.closed = published[o][t]

CacheIsAuthentic ==
    \A o \in Origins :
        cache[o] # None => Authentic(o, cache[o].policy, cache[o].expires)

FetchesAreAuthentic ==
    \A c \in Checks :
        /\ check[c].stage \in {"fetching", "storing"} =>
               check[c].expires = check[c].started + Ttl /\ check[c].started <= now
        /\ check[c].stage = "storing" =>
               Authentic(check[c].origin, check[c].policy, check[c].expires)

\* The inductive invariant.
RobotsInv == RobotsTypeOK /\ CacheIsAuthentic /\ FetchesAreAuthentic /\ ApprovalsAreFresh

-----------------------------------------------------------------------------
USE RobotsAssumption

\* Decisions are answers, and only published rules approve.
LEMMA DecideAnswers ==
    ASSUME NEW policy \in Policies, NEW path
    PROVE  /\ Decide(policy, path) \in Answers
           /\ Decide(policy, path) = "approved" =>
                  policy.failure = None /\ path \notin policy.closed
  BY DEF Decide, Fallback, Answers, Policies, Rules, Failed, Failures

\* An entry that expires after a check began justifies an approval of it.
LEMMA AuthenticOpens ==
    ASSUME RobotsTypeOK, NEW o \in Origins, NEW policy \in Policies, NEW path,
           NEW expires \in Nat, NEW started \in Nat, started <= expires,
           Authentic(o, policy, expires), Decide(policy, path) = "approved"
    PROVE  OpenSince(o, path, started)
  <1>1. PICK t \in 0..now : expires <= t + Ttl /\ policy.closed = published[o][t]
    BY DecideAnswers DEF Authentic
  <1>2. now \in Nat
    BY DEF RobotsTypeOK
  <1>3. started <= t + Ttl
    BY <1>1, <1>2
  <1> QED BY <1>1, <1>3, DecideAnswers DEF OpenSince

\* Nothing is cached at first.
LEMMA InitAuthentic == RobotsInit => RobotsInv
  <1> SUFFICES ASSUME RobotsInit PROVE RobotsInv
    OBVIOUS
  <1>1. 0..0 = {0}
    OBVIOUS
  <1>2. NewCheck \in CheckStates /\ NewCheck.stage = "idle" /\ NewCheck.decision = None
    BY DEF NewCheck, CheckStates
  <1>3. None \notin Answers
    BY DEF Answers
  <1>4. RobotsTypeOK
    BY <1>1, <1>2, <1>3 DEF RobotsInit, RobotsTypeOK
  <1> QED BY <1>2, <1>3, <1>4
          DEF RobotsInit, RobotsInv, CacheIsAuthentic, FetchesAreAuthentic, ApprovalsAreFresh, Answers

\* A step of one check that leaves the clock, the sites and the cache alone.
LEMMA LocalCheckStep ==
    ASSUME RobotsInv, NEW c \in Checks, NEW w \in CheckStates,
           check' = [check EXCEPT ![c] = w], UNCHANGED <<now, published>>,
           \A o \in Origins : cache'[o] \in Entries \cup {None},
           cache' \in [Origins -> Entries \cup {None}],
           CacheIsAuthentic',
           w.stage # "idle" => w.origin \in Origins /\ w.path \in Paths,
           w.stage = "storing" => w.policy \in Policies,
           w.stage = "answered" <=> w.decision \in Answers,
           w.stage \in {"fetching", "storing"} =>
               w.expires = w.started + Ttl /\ w.started <= now,
           w.stage = "storing" => Authentic(w.origin, w.policy, w.expires),
           w.decision = "approved" => OpenSince(w.origin, w.path, w.started)
    PROVE  RobotsInv'
  <1>1. RobotsTypeOK'
    BY DEF RobotsInv, RobotsTypeOK
  <1>2. FetchesAreAuthentic'
    BY DEF RobotsInv, RobotsTypeOK, FetchesAreAuthentic, Authentic
  <1>3. ApprovalsAreFresh'
    BY DEF RobotsInv, RobotsTypeOK, ApprovalsAreFresh, OpenSince
  <1> QED BY <1>1, <1>2, <1>3 DEF RobotsInv

-----------------------------------------------------------------------------
\* A live entry answers for a check that begins before it expires.
LEMMA BeginAuthentic ==
    ASSUME RobotsInv, NEW c \in Checks, NEW o \in Origins, NEW p \in Paths, Begin(c, o, p)
    PROVE  RobotsInv'
  <1> DEFINE Begun(stage, expires, d) ==
                 [stage |-> stage, origin |-> o, path |-> p, started |-> now,
                  expires |-> expires, policy |-> None, decision |-> d]
             hit == Begun("answered", 0, Decide(cache[o].policy, p))
             miss == Begun("fetching", now + Ttl, None)
  <1>1. now \in Nat /\ Ttl \in Nat /\ now + Ttl \in Nat /\ now <= now
    BY DEF RobotsInv, RobotsTypeOK
  <1>2. CacheIsAuthentic' /\ UNCHANGED <<now, published, cache>>
    BY DEF RobotsInv, CacheIsAuthentic, Begin, Authentic
  <1>3. cache \in [Origins -> Entries \cup {None}]
    BY DEF RobotsInv, RobotsTypeOK
  <1>4. CASE cache[o] # None /\ cache[o].expires > now
    <2>1. cache[o] \in Entries
      BY <1>3, <1>4
    <2>2. Decide(cache[o].policy, p) \in Answers
      BY <2>1, DecideAnswers DEF Entries
    <2>3. hit \in CheckStates /\ hit.stage = "answered" /\ hit.origin = o /\ hit.path = p
          /\ hit.started = now /\ hit.decision = Decide(cache[o].policy, p)
      BY <1>1, <2>2 DEF CheckStates
    <2>4. check' = [check EXCEPT ![c] = hit]
      BY <1>4 DEF Begin
    <2>5. Decide(cache[o].policy, p) = "approved" => OpenSince(o, p, now)
      BY <1>1, <1>4, <2>1, AuthenticOpens DEF RobotsInv, CacheIsAuthentic, Entries
    <2> HIDE DEF hit
    <2> QED BY <1>2, <1>3, <2>2, <2>3, <2>4, <2>5, LocalCheckStep
  <1>5. CASE ~(cache[o] # None /\ cache[o].expires > now)
    <2>1. miss \in CheckStates /\ miss.stage = "fetching" /\ miss.origin = o
          /\ miss.path = p /\ miss.started = now /\ miss.expires = now + Ttl
          /\ miss.decision = None
      BY <1>1 DEF CheckStates
    <2>2. check' = [check EXCEPT ![c] = miss]
      BY <1>5 DEF Begin
    <2>3. None \notin Answers
      BY DEF Answers
    <2> HIDE DEF miss
    <2> QED BY <1>1, <1>2, <1>3, <2>1, <2>2, <2>3, LocalCheckStep DEF Answers
  <1> QED BY <1>4, <1>5

\* What a site sends is what it publishes at that time.
LEMMA FetchedAuthentic ==
    ASSUME RobotsInv, NEW c \in Checks, Fetched(c) PROVE RobotsInv'
  <1> DEFINE v == check[c]
             now0 == published[v.origin][now]
  <1>1. v \in CheckStates /\ v.stage = "fetching" /\ v.origin \in Origins
        /\ v.path \in Paths /\ now \in Nat /\ now \in 0..now
    BY DEF RobotsInv, RobotsTypeOK, Fetched
  <1>2. PICK policy \in {Failed(f) : f \in Failures} \cup {Rules(now0)} :
             check' = [check EXCEPT ![c].stage = "storing", ![c].policy = policy]
    BY DEF Fetched
  <1> DEFINE w == [v EXCEPT !.stage = "storing", !.policy = policy]
  <1>3. now0 \in Rulings
    BY <1>1 DEF RobotsInv, RobotsTypeOK
  <1>4. policy \in Policies
    BY <1>2, <1>3 DEF Policies
  <1>5. v.expires = v.started + Ttl /\ v.started <= now
    BY <1>1 DEF RobotsInv, FetchesAreAuthentic
  <1>6. v.started \in Nat /\ Ttl \in Nat
    BY <1>1 DEF CheckStates
  <1>7. v.expires <= now + Ttl
    BY <1>1, <1>5, <1>6
  <1>8. Authentic(v.origin, policy, v.expires)
    BY <1>1, <1>2, <1>7 DEF Authentic, Rules, Failed, Failures
  <1>9. w \in CheckStates /\ w.stage = "storing" /\ w.origin = v.origin
        /\ w.path = v.path /\ w.started = v.started /\ w.expires = v.expires
        /\ w.policy = policy /\ w.decision = v.decision
    BY <1>1, <1>4 DEF CheckStates
  <1>10. check' = [check EXCEPT ![c] = w]
    BY <1>1, <1>2 DEF RobotsInv, RobotsTypeOK, CheckStates
  <1>11. CacheIsAuthentic' /\ cache' \in [Origins -> Entries \cup {None}]
         /\ UNCHANGED <<now, published, cache>>
    BY DEF RobotsInv, RobotsTypeOK, CacheIsAuthentic, Fetched, Authentic
  <1>12. v.decision \notin Answers
    BY <1>1 DEF RobotsInv, RobotsTypeOK
  <1> HIDE DEF w
  <1> QED BY <1>1, <1>4, <1>5, <1>8, <1>9, <1>10, <1>11, <1>12, LocalCheckStep DEF Answers

\* An answer that is stored late expires early.
LEMMA StoreAuthentic ==
    ASSUME RobotsInv, NEW c \in Checks, Store(c) PROVE RobotsInv'
  <1> DEFINE v == check[c]
             d == Decide(v.policy, v.path)
             e == [policy |-> v.policy, expires |-> v.expires]
             w == [v EXCEPT !.stage = "answered", !.decision = d]
  <1>1. v \in CheckStates /\ v.stage = "storing" /\ v.origin \in Origins
        /\ v.path \in Paths /\ v.policy \in Policies /\ v.expires \in Nat
        /\ v.started \in Nat
    BY DEF RobotsInv, RobotsTypeOK, Store, CheckStates
  <1>2. Authentic(v.origin, v.policy, v.expires) /\ v.expires = v.started + Ttl
    BY <1>1 DEF RobotsInv, FetchesAreAuthentic
  <1>3. e \in Entries /\ e.policy = v.policy /\ e.expires = v.expires
    BY <1>1 DEF Entries
  <1>4. cache' = [cache EXCEPT ![v.origin] = e] /\ UNCHANGED <<now, published>>
    BY DEF Store
  <1>5. cache' \in [Origins -> Entries \cup {None}]
    BY <1>3, <1>4 DEF RobotsInv, RobotsTypeOK
  <1> HIDE DEF e
  <1>6. CacheIsAuthentic'
    BY <1>1, <1>2, <1>3, <1>4 DEF RobotsInv, RobotsTypeOK, CacheIsAuthentic, Authentic
  <1>7. d \in Answers
    BY <1>1, DecideAnswers
  <1>8. v.started <= v.expires
    BY <1>1, <1>2
  <1>9. d = "approved" => OpenSince(v.origin, v.path, v.started)
    BY <1>1, <1>2, <1>8, AuthenticOpens DEF RobotsInv
  <1>10. check' = [check EXCEPT ![c] = w]
    BY <1>1 DEF Store, RobotsInv, RobotsTypeOK, CheckStates
  <1> HIDE DEF d
  <1>11. w \in CheckStates /\ w.stage = "answered" /\ w.origin = v.origin
         /\ w.path = v.path /\ w.started = v.started /\ w.decision = d
    BY <1>1, <1>7 DEF CheckStates
  <1> HIDE DEF w
  <1> QED BY <1>1, <1>4, <1>5, <1>6, <1>7, <1>9, <1>10, <1>11, LocalCheckStep

\* A cancelled check leaves the cache as it is.
LEMMA CancelAuthentic ==
    ASSUME RobotsInv, NEW c \in Checks, Cancel(c) PROVE RobotsInv'
  <1>1. NewCheck \in CheckStates /\ NewCheck.stage = "idle" /\ NewCheck.decision = None
    BY DEF NewCheck, CheckStates
  <1>2. CacheIsAuthentic' /\ cache' \in [Origins -> Entries \cup {None}]
        /\ UNCHANGED <<now, published, cache>>
    BY DEF RobotsInv, RobotsTypeOK, CacheIsAuthentic, Cancel, Authentic
  <1>3. None \notin Answers
    BY DEF Answers
  <1>4. check' = [check EXCEPT ![c] = NewCheck]
    BY DEF Cancel
  <1> QED BY <1>1, <1>2, <1>3, <1>4, LocalCheckStep DEF Answers

\* Emptying the cache is always safe.
LEMMA ClearAuthentic ==
    ASSUME RobotsInv, Clear PROVE RobotsInv'
  BY DEF RobotsInv, RobotsTypeOK, CacheIsAuthentic, FetchesAreAuthentic, ApprovalsAreFresh,
         Authentic, OpenSince, Clear

\* As time passes, what was published stays what was published then.
LEMMA TickAuthentic ==
    ASSUME RobotsInv, Tick PROVE RobotsInv'
  <1>1. PICK rules \in [Origins -> Rulings] :
             published' = [o \in Origins |->
                 [t \in 0..now' |-> IF t = now' THEN rules[o] ELSE published[o][t]]]
    BY DEF Tick
  <1>2. now \in Nat /\ now' = now + 1 /\ now' \in 0..MaxTime
        /\ UNCHANGED <<cache, check>>
    BY DEF RobotsInv, RobotsTypeOK, Tick
  <1>3. ASSUME NEW o \in Origins, NEW t \in 0..now
        PROVE  t \in 0..now' /\ published'[o][t] = published[o][t]
    BY <1>1, <1>2
  <1>4. ASSUME NEW o \in Origins, NEW t \in 0..now'
        PROVE  published'[o][t] \in Rulings
    <2>1. CASE t = now'
      BY <1>1, <2>1
    <2>2. CASE t # now'
      <3>1. t \in 0..now
        BY <1>2, <2>2
      <3> QED BY <1>3, <3>1 DEF RobotsInv, RobotsTypeOK
    <2> QED BY <2>1, <2>2
  <1>5. published' \in [Origins -> [0..now' -> Rulings]]
    BY <1>1, <1>4
  <1>6. RobotsTypeOK'
    BY <1>2, <1>5 DEF RobotsInv, RobotsTypeOK
  <1>7. ASSUME NEW o \in Origins, NEW policy, NEW expires, Authentic(o, policy, expires)
        PROVE  Authentic(o, policy, expires)'
    BY <1>3, <1>7 DEF Authentic
  <1>8. CacheIsAuthentic'
    BY <1>2, <1>7 DEF RobotsInv, CacheIsAuthentic
  <1>9. FetchesAreAuthentic'
    BY <1>2, <1>7 DEF RobotsInv, RobotsTypeOK, FetchesAreAuthentic, CheckStates
  <1>10. ApprovalsAreFresh'
    BY <1>2, <1>3 DEF RobotsInv, RobotsTypeOK, ApprovalsAreFresh, OpenSince, Answers
  <1> QED BY <1>6, <1>8, <1>9, <1>10 DEF RobotsInv

\* The invariant is preserved by every step.
LEMMA NextAuthentic == RobotsInv /\ [RobotsNext]_robotsVars => RobotsInv'
  <1> SUFFICES ASSUME RobotsInv, [RobotsNext]_robotsVars PROVE RobotsInv'
    OBVIOUS
  <1>1. CASE UNCHANGED robotsVars
    BY <1>1 DEF robotsVars, RobotsInv, RobotsTypeOK, CacheIsAuthentic, FetchesAreAuthentic,
       ApprovalsAreFresh, Authentic, OpenSince
  <1> QED BY <1>1, BeginAuthentic, FetchedAuthentic, StoreAuthentic,
             CancelAuthentic, ClearAuthentic, TickAuthentic DEF RobotsNext

\* The cache holds authentic rules, however fetches and answers interleave.
THEOREM RobotsInvariant == RobotsSpec => []RobotsInv
  BY InitAuthentic, NextAuthentic, PTL DEF RobotsSpec

\* The types of the variables.
THEOREM RobotsTypes == RobotsSpec => []RobotsTypeOK
  <1>1. RobotsInv => RobotsTypeOK
    BY DEF RobotsInv
  <1> QED BY <1>1, RobotsInvariant, PTL

\* No approval rests on rules that were withdrawn more than Ttl before.
THEOREM ApprovalsStayFresh == RobotsSpec => []ApprovalsAreFresh
  <1>1. RobotsInv => ApprovalsAreFresh
    BY DEF RobotsInv
  <1> QED BY <1>1, RobotsInvariant, PTL
=============================================================================
