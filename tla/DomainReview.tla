---------------------------- MODULE DomainReview ----------------------------
(***************************************************************************)
(* DomainReviewStore (app/services/domain_review.py): what the commands of *)
(* the domain-review CLI do to the three policy files, and what            *)
(* SourcePolicyService (app/services/source_policy.py) makes of them.      *)
(*                                                                         *)
(* A reviewer is one process of the CLI.  Once the inspection is confirmed *)
(* it reads the approved domains, the blocked domains and the audit        *)
(* history, one file after another, and replaces the three files in        *)
(* WriteOrder.  Nothing locks the files, and the process may die or fail   *)
(* between any two of these steps.  Writing a temporary file changes       *)
(* nothing a reader sees, and is left out.                                 *)
(***************************************************************************)
EXTENDS Naturals, SequencesExt

CONSTANTS
    Reviewers,
    Domains,
    Bare,          \* the domain without a leading "www."
    Ancestors,     \* the domains a domain is a proper subdomain of
    FirstApproved, \* the rules of approved_domains.yaml at first
    FirstBlocked,  \* the rules of blocked_domains.yaml at first
    MaxHistory     \* bound on the audit records

RuleSets == [exact : SUBSET Domains, recursive : SUBSET Domains]
Decisions == {"approved", "rejected", "removed"}
Records == [domain : Domains, decision : Decisions]

ASSUME ReviewAssumption ==
    /\ Domains # {}
    /\ Bare \in [Domains -> Domains]
    /\ Ancestors \in [Domains -> SUBSET Domains]
    /\ \A d \in Domains : d \notin Ancestors[d]
    /\ {FirstApproved, FirstBlocked} \subseteq RuleSets
    /\ MaxHistory \in Nat

VARIABLES
    approved,    \* approved_domains.yaml
    blocked,     \* blocked_domains.yaml
    history,     \* domain_reviews.yaml
    review,      \* the command each reviewer has under way
    unfinished   \* ghost: domains whose latest decision has begun to be
                 \* written and has not been written to the end

vars == <<approved, blocked, history, review, unfinished>>
files == <<approved, blocked, history>>

----------------------------------------------------------------------------
\* _match_rule: an exact rule or a recursive one for d or a domain above it.
\* The aliases of d are taken from all exact rules.
Matches(d, rules) ==
    LET aliases == {d, Bare[d]} \cup
                   {Bare[rule] : rule \in {q \in rules.exact : Bare[q] # q}}
    IN
    \/ \E rule \in rules.exact : rule \in aliases \/ Bare[rule] = d
    \/ \E rule \in rules.recursive : rule = d \/ rule \in Ancestors[d]

\* evaluate: a blocked domain is never approved.
Approves(a, b, d) == Matches(d, a) /\ ~Matches(d, b)

\* _add_exact
AddExact(rules, d) == [rules EXCEPT !.exact = @ \cup {d}]

\* Mutant: a recursive rule is not removed.
WithoutExact(rules, d) == [rules EXCEPT !.exact = @ \ {d}]
\* _remove_domain
Without(rules, d) ==
    [exact |-> rules.exact \ {d}, recursive |-> rules.recursive \ {d}]

Lists(rules, d) == d \in rules.exact \cup rules.recursive

\* Mutant: nobody looks for a blocked domain above.
RefusedIfAbsent(a, b, d, decision) ==
    decision = "removed" /\ ~Lists(a, d) /\ ~Lists(b, d)
\* record_decision refuses an approval that a blocked domain above overrides,
\* and the removal of what is not there.
Refused(a, b, d, decision) ==
    \/ decision = "approved" /\ b.recursive \cap Ancestors[d] # {}
    \/ decision = "removed" /\ ~Lists(a, d) /\ ~Lists(b, d)

NewApproved(a, d, decision) ==
    IF decision = "approved" THEN AddExact(a, d) ELSE Without(a, d)

NewBlocked(b, d, decision) ==
    IF decision = "rejected" THEN AddExact(b, d) ELSE Without(b, d)

----------------------------------------------------------------------------
NoRules == [exact |-> {}, recursive |-> {}]

\* Mutant: the blocked domains are written before the approved ones.
WriteBlockedFirst == <<"blocked", "approved", "history">>
\* The documents in the order of the dictionary that is written out.
WriteOrder == <<"approved", "blocked", "history">>

\* What a command holds in memory: the documents it has read or changed, and
\* how many of them it has written.
Command(pc, d, decision) ==
    [pc |-> pc, domain |-> d, decision |-> decision, written |-> 0,
     approved |-> NoRules, blocked |-> NoRules, history |-> <<>>]
NoCommand == Command("idle", CHOOSE d \in Domains : TRUE, "removed")
Idle(r) == review' = [review EXCEPT ![r] = NoCommand]

Init ==
    /\ approved = FirstApproved
    /\ blocked = FirstBlocked
    /\ history = <<>>
    /\ review = [r \in Reviewers |-> NoCommand]
    /\ unfinished = {}

\* main: the reviewer inspects d and types the confirmation.
Confirm(r, d, decision) ==
    /\ review[r].pc = "idle"
    /\ Len(history) < MaxHistory
    /\ review' = [review EXCEPT ![r] = Command("confirmed", d, decision)]
    /\ UNCHANGED <<files, unfinished>>

\* _rules reads one file after the other.
ReadApproved(r) ==
    /\ review[r].pc = "confirmed"
    /\ review' = [review EXCEPT ![r].pc = "approvedRead", ![r].approved = approved]
    /\ UNCHANGED <<files, unfinished>>

ReadBlocked(r) ==
    LET c == review[r] IN
    /\ c.pc = "approvedRead"
    /\ IF Refused(c.approved, blocked, c.domain, c.decision)
          THEN Idle(r)
          ELSE review' = [review EXCEPT
                    ![r].pc = "decided",
                    ![r].approved = NewApproved(c.approved, c.domain, c.decision),
                    ![r].blocked = NewBlocked(blocked, c.domain, c.decision)]
    /\ UNCHANGED <<files, unfinished>>

\* The record is appended to the history as it is read now.
ReadHistory(r) ==
    LET c == review[r] IN
    /\ c.pc = "decided"
    /\ review' = [review EXCEPT
            ![r].pc = "staged",
            ![r].history = Append(history, [domain |-> c.domain, decision |-> c.decision])]
    /\ UNCHANGED <<files, unfinished>>

\* os.replace for the next of the staged files.
Replace(r) ==
    LET c == review[r]
        target == WriteOrder[c.written + 1]
        last == c.written + 1 = Len(WriteOrder)
    IN
    /\ c.pc = "staged"
    /\ \/ /\ target = "approved"
          /\ approved' = c.approved
          /\ UNCHANGED <<blocked, history>>
       \/ /\ target = "blocked"
          /\ blocked' = c.blocked
          /\ UNCHANGED <<approved, history>>
       \/ /\ target = "history"
          /\ history' = c.history
          /\ UNCHANGED <<approved, blocked>>
    /\ unfinished' = IF last THEN unfinished \ {c.domain} ELSE unfinished \cup {c.domain}
    /\ IF last THEN Idle(r) ELSE review' = [review EXCEPT ![r].written = @ + 1]

\* A file that cannot be read or written, or the end of the process.
Abort(r) ==
    /\ review[r].pc # "idle"
    /\ Idle(r)
    /\ UNCHANGED <<files, unfinished>>

Next ==
    \E r \in Reviewers :
        \/ \E d \in Domains, decision \in Decisions : Confirm(r, d, decision)
        \/ ReadApproved(r)
        \/ ReadBlocked(r)
        \/ ReadHistory(r)
        \/ Replace(r)
        \/ Abort(r)

Spec == Init /\ [][Next]_vars

----------------------------------------------------------------------------
Commands ==
    [pc : {"idle", "confirmed", "approvedRead", "decided", "staged"},
     domain : Domains, decision : Decisions, written : 0 .. Len(WriteOrder),
     approved : RuleSets, blocked : RuleSets, history : Seq(Records)]

\* Every variable has its type.  The commands only write exact rules, so a
\* recursive rule is always one of the first ones.
TypeOK ==
    /\ approved \in RuleSets /\ approved.recursive \subseteq FirstApproved.recursive
    /\ blocked \in RuleSets /\ blocked.recursive \subseteq FirstBlocked.recursive
    /\ history \in Seq(Records)
    /\ review \in [Reviewers -> Commands]
    /\ unfinished \subseteq Domains

IsLatest(i) ==
    \A j \in DOMAIN history : j > i => history[j].domain # history[i].domain
Unrecorded(d) == \A i \in DOMAIN history : history[i].domain # d

\* The rules list d the way this decision leaves it.
Settled(d, decision) ==
    /\ d \in approved.exact <=> decision = "approved"
    /\ d \in approved.recursive => decision = "approved"
    /\ d \in blocked.exact <=> decision = "rejected"
    /\ d \in blocked.recursive => decision = "rejected"

AsAtFirst(d) ==
    /\ d \in approved.exact <=> d \in FirstApproved.exact
    /\ d \in approved.recursive <=> d \in FirstApproved.recursive
    /\ d \in blocked.exact <=> d \in FirstBlocked.exact
    /\ d \in blocked.recursive <=> d \in FirstBlocked.recursive

\* The audit history and the rules tell the same story: unless a command about
\* it was interrupted while it wrote, a domain is listed the way its latest
\* record says, and a domain without a record the way it was at first, however
\* often commands about other domains died half way (record_decision).
RecordsMatchRules ==
    \A d \in Domains \ unfinished :
        /\ \A i \in DOMAIN history :
               history[i].domain = d /\ IsLatest(i) => Settled(d, history[i].decision)
        /\ Unrecorded(d) => AsAtFirst(d)

\* A recorded approval is in force: no blocked rule of a domain above it came
\* to override it.  Blocked www hosts and the other name of the host are left
\* out: such a pair of rules matches every domain (ExactRulesMatchTheirPair).
ApprovalsTakeEffect ==
    \A i \in DOMAIN history :
        LET d == history[i].domain
            others == blocked.exact \ {d}
        IN
        (/\ history[i].decision = "approved"
         /\ IsLatest(i)
         /\ d \notin unfinished
         /\ \A o \in others : Bare[o] = o /\ o # Bare[d])
            => Approves(approved, blocked, d)

\* domain_reviews.yaml: "Append-only audit records created by the domain review
\* CLI".  Violated by two reviewers at a time, since nothing locks the file
\* between its read and its replacement.
HistoryIsAppendOnly == [][IsPrefix(history, history')]_vars

\* A domain's own approved rule comes into force only by a command to approve
\* it: rejecting or removing a domain that an interrupted command left in both
\* files never lifts the block before the approval is gone.
InForce(a, b, d) == Lists(a, d) /\ ~Lists(b, d)
ApprovalsAreDecided ==
    [][\A d \in Domains :
          InForce(approved, blocked, d)' /\ ~InForce(approved, blocked, d) =>
              \E q \in Reviewers :
                  review[q].domain = d /\ review[q].decision = "approved"]_vars

\* README, "Source policies": "Exact rules match the apex/www host pair".  A
\* domain that a rule set matches is a rule's host pair or under a recursive
\* rule.  Violated by a set that lists both names of one host.
ExactRulesMatchTheirPair ==
    \A rules \in {approved, blocked} : \A d \in Domains :
        Matches(d, rules) =>
            \/ \E rule \in rules.exact : Bare[rule] = Bare[d]
            \/ \E rule \in rules.recursive : rule = d \/ rule \in Ancestors[d]

\* record_decision: "Apply one exact rule and append its complete evidence
\* metadata".  While no command runs, a new approval has its record.  Violated
\* by a command that dies before it replaces the history.
AppliedRulesAreRecorded ==
    (\A r \in Reviewers : review[r].pc = "idle") =>
        \A d \in approved.exact \ FirstApproved.exact : ~Unrecorded(d)
=============================================================================
