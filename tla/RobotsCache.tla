---------------------------- MODULE RobotsCache ----------------------------
(***************************************************************************)
(* RobotsPolicyService (app/services/robots_policy.py): the cache of       *)
(* robots.txt answers that all checks of the process share.  The lock of   *)
(* the cache is not held while a file is fetched, so checks of one origin  *)
(* fetch it side by side and store what they got in whatever order their   *)
(* answers come back, while the site publishes new rules meanwhile.        *)
(*                                                                         *)
(* Rules are the set of paths they disallow; the matching of paths to      *)
(* rules is left out.  Time is counted in whole steps up to MaxTime.       *)
(***************************************************************************)
EXTENDS Naturals

CONSTANTS
    Checks,      \* concurrent calls of check
    Origins,
    Paths,
    Rulings,     \* the rules a site may publish, each a set of paths
    Ttl,         \* ROBOTS_CACHE_TTL_SECONDS
    Strict,      \* ROBOTS_STRICT_MODE
    MaxTime,     \* bound on the clock
    None

ASSUME RobotsAssumption ==
    /\ None \notin {"unreachable", "ambiguous", "approved", "manual", "rejected"}
    /\ Rulings \subseteq SUBSET Paths
    /\ Ttl \in Nat
    /\ Strict \in BOOLEAN
    /\ MaxTime \in Nat

VARIABLES
    now,         \* time.monotonic()
    published,   \* published[o][t]: what o's robots.txt said at time t
    cache,       \* _cache: an entry or None for each origin
    check        \* the calls of check

robotsVars == <<now, published, cache, check>>

\* Ways a fetch ends: with rules (or 404, which disallows nothing), with a
\* failure of the server or the network, or with an answer that cannot be used.
Failures == {"unreachable", "ambiguous"}
Rules(closed) == [failure |-> None, closed |-> closed]
Failed(failure) == [failure |-> failure, closed |-> {}]

\* The fallback decision of _fetch_policy.
Fallback(failure) ==
    IF failure = "unreachable" /\ Strict THEN "rejected" ELSE "manual"

Decide(policy, path) ==
    IF policy.failure # None THEN Fallback(policy.failure)
    ELSE IF path \in policy.closed THEN "rejected" ELSE "approved"

NewCheck == [stage |-> "idle", origin |-> None, path |-> None, started |-> 0,
             expires |-> 0, policy |-> None, decision |-> None]

RobotsInit ==
    /\ now = 0
    /\ published \in [Origins -> [{0} -> Rulings]]
    /\ cache = [o \in Origins |-> None]
    /\ check = [c \in Checks |-> NewCheck]

----------------------------------------------------------------------------
\* A live entry answers at once; a missing or expired one starts a fetch, whose
\* entry will expire Ttl after the fetch began.
Begin(c, o, p) ==
    LET Begun(stage, expires, d) ==
            [stage |-> stage, origin |-> o, path |-> p, started |-> now,
             expires |-> expires, policy |-> None, decision |-> d]
    IN
    /\ check[c].stage \in {"idle", "answered"}
    /\ check' = [check EXCEPT ![c] =
           IF cache[o] # None /\ cache[o].expires > now
           THEN Begun("answered", 0, Decide(cache[o].policy, p))
           ELSE Begun("fetching", now + Ttl, None)]
    /\ UNCHANGED <<now, published, cache>>

\* The site sends what it publishes now, or something that is no rules.
Fetched(c) ==
    /\ check[c].stage = "fetching"
    /\ \E policy \in {Failed(f) : f \in Failures}
                        \cup {Rules(published[check[c].origin][now])} :
           check' = [check EXCEPT ![c].stage = "storing", ![c].policy = policy]
    /\ UNCHANGED <<now, published, cache>>

\* Mutant: the entry's lifetime starts when the answer is stored.
StoreExtended(c) ==
    LET o == check[c].origin IN
    /\ check[c].stage = "storing"
    /\ cache' = [cache EXCEPT ![o] = [policy |-> check[c].policy,
                                      expires |-> now + Ttl]]
    /\ check' = [check EXCEPT ![c].stage = "answered",
                              ![c].decision = Decide(check[c].policy, check[c].path)]
    /\ UNCHANGED <<now, published>>

\* Each answer replaces the entry, whatever another check stored meanwhile.
Store(c) ==
    LET o == check[c].origin IN
    /\ check[c].stage = "storing"
    /\ cache' = [cache EXCEPT ![o] = [policy |-> check[c].policy,
                                      expires |-> check[c].expires]]
    /\ check' = [check EXCEPT ![c].stage = "answered",
                              ![c].decision = Decide(check[c].policy, check[c].path)]
    /\ UNCHANGED <<now, published>>

\* A cancelled check stores nothing.
Cancel(c) ==
    /\ check[c].stage \in {"fetching", "storing"}
    /\ check' = [check EXCEPT ![c] = NewCheck]
    /\ UNCHANGED <<now, published, cache>>

\* clear_cache
Clear ==
    /\ cache' = [o \in Origins |-> None]
    /\ UNCHANGED <<now, published, check>>

\* Time passes, and every site may publish other rules.
Tick ==
    /\ now < MaxTime
    /\ now' = now + 1
    /\ \E rules \in [Origins -> Rulings] :
           published' = [o \in Origins |->
               [t \in 0..now' |-> IF t = now' THEN rules[o] ELSE published[o][t]]]
    /\ UNCHANGED <<cache, check>>

RobotsNext ==
    \/ \E c \in Checks, o \in Origins, p \in Paths : Begin(c, o, p)
    \/ \E c \in Checks : Fetched(c) \/ Store(c) \/ Cancel(c)
    \/ Clear
    \/ Tick

RobotsSpec == RobotsInit /\ [][RobotsNext]_robotsVars

----------------------------------------------------------------------------
Policies == {Rules(r) : r \in Rulings} \cup {Failed(f) : f \in Failures}
Entries == [policy : Policies, expires : Nat]
Answers == {"approved", "manual", "rejected"}
CheckStates ==
    [stage : {"idle", "fetching", "storing", "answered"},
     origin : Origins \cup {None}, path : Paths \cup {None},
     started : Nat, expires : Nat,
     policy : Policies \cup {None}, decision : Answers \cup {None}]

\* The values of the variables: only a complete answer is ever cached.
RobotsTypeOK ==
    /\ now \in 0..MaxTime
    /\ published \in [Origins -> [0..now -> Rulings]]
    /\ cache \in [Origins -> Entries \cup {None}]
    /\ check \in [Checks -> CheckStates]
    /\ \A c \in Checks :
           /\ check[c].stage # "idle" =>
                  check[c].origin \in Origins /\ check[c].path \in Paths
           /\ check[c].stage = "storing" => check[c].policy \in Policies
           /\ check[c].stage = "answered" <=> check[c].decision \in Answers

\* o published rules that leave path open no more than Ttl before the check
\* began, or since.
OpenSince(o, path, started) ==
    \E t \in 0..now : started <= t + Ttl /\ path \notin published[o][t]

\* README.md:483: responses are cached for ROBOTS_CACHE_TTL_SECONDS.  However
\* fetches overlap and answers overtake each other, an approval rests on rules
\* the site really published, no longer ago than that when the check began.
ApprovalsAreFresh ==
    \A c \in Checks :
        check[c].decision = "approved" =>
            OpenSince(check[c].origin, check[c].path, check[c].started)

=============================================================================
