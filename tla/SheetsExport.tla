---------------------------- MODULE SheetsExport ----------------------------
(***************************************************************************)
(* Exports of finished runs to Google spreadsheets: GoogleSheetsExporter.  *)
(* Every call of the API builds an exporter of its own, so exports of      *)
(* several runs, or of one run twice, meet in the spreadsheet only.        *)
(*                                                                         *)
(* An export is a series of requests: it reads the tabs of the configured  *)
(* spreadsheet and adds the missing ones, or creates a spreadsheet; then   *)
(* it clears the tabs, writes its rows from the first one on, and formats. *)
(* Each request is sent up to MaxRetries + 1 times.  A request whose       *)
(* answer is lost may have been executed, may never be, or may be executed *)
(* later, when the exporter has already moved on.                          *)
(*                                                                         *)
(* The three tabs are cleared and written by the same two calls; rows is   *)
(* the content of the first of them, each row named by the export that     *)
(* wrote it.  How the spreadsheet service executes a request is external.  *)
(***************************************************************************)
EXTENDS Naturals, FiniteSets

CONSTANTS
    Exports,     \* the calls of export
    Books,       \* spreadsheets that exist or may be created (a bound)
    Shared,      \* those that exist already, shared with the service account
    Titles,      \* the titles of the three tabs
    RowCount,    \* the header and the records of an export
    MaxRows,     \* the longest export (a bound)
    MaxRetries,
    MaxLate,     \* requests on their way that were given up (a bound)
    Earlier,     \* the author of rows that were there before
    None

ASSUME SheetsAssumption ==
    /\ None \notin Books /\ Shared \subseteq Books
    /\ MaxRows \in Nat /\ MaxRetries \in Nat
    /\ RowCount \in [Exports -> 1..MaxRows]
    /\ None \notin Exports /\ Earlier \notin Exports /\ None # Earlier

VARIABLES
    export,     \* export[e]: the locals of one call of export
    existing,   \* the spreadsheets there are
    tabs,       \* tabs[b]: the titles of the tabs of b
    rows,       \* rows[b]: the content of the results tab of b
    late,       \* requests given up by their exporter that may still be executed
    alone       \* history: nobody else has changed its rows since it cleared them

remote == <<existing, tabs, rows, alone>>
vars == <<export, remote, late>>

Requests == {"read", "create", "add", "clear", "write", "format"}
Ends == {"done", "failed"}
Row == Exports \cup {Earlier, None}
Sheet == [1..MaxRows -> Row]

ExportState ==
    [stage : Requests \cup Ends, attempt : 0..MaxRetries,
     book : Books \cup {None}, missing : SUBSET Titles]
Request ==
    [by : Exports, kind : Requests, book : Books \cup {None}, adds : SUBSET Titles]

Blank == [i \in 1..MaxRows |-> None]
\* The rows of e written over those of s.
Over(e, s) == [i \in 1..MaxRows |-> IF i <= RowCount[e] THEN e ELSE s[i]]

TypeOK ==
    /\ export \in [Exports -> ExportState]
    /\ existing \subseteq Books
    /\ tabs \in [Books -> SUBSET Titles]
    /\ rows \in [Books -> Sheet]
    /\ late \subseteq Request
    /\ alone \in [Exports -> BOOLEAN]

\* A call names an existing spreadsheet, or none and creates one.
Begun(book) == [stage |-> IF book = None THEN "create" ELSE "read",
                attempt |-> 0, book |-> book, missing |-> {}]

\* An existing spreadsheet may lack tabs; one that has them all may hold rows.
Init ==
    /\ export \in [Exports -> {Begun(book) : book \in Shared \cup {None}}]
    /\ existing = Shared
    /\ tabs \in [Books -> SUBSET Titles]
    /\ rows \in [Books -> {Blank, [i \in 1..MaxRows |-> Earlier]}]
    /\ \A b \in Books : /\ b \notin Shared => tabs[b] = {}
                        /\ tabs[b] # Titles => rows[b] = Blank
    /\ late = {}
    /\ alone = [e \in Exports |-> FALSE]

Running(e) == export[e].stage \in Requests
Current(e) == [by |-> e, kind |-> export[e].stage, book |-> export[e].book,
               adds |-> export[e].missing]

-----------------------------------------------------------------------------
(* The spreadsheet service.                                                *)

\* The spreadsheets a request may act on.
Targets(r) == IF r.kind = "create" THEN Books \ existing ELSE {r.book}

\* A batch that adds a tab under a title in use is refused as a whole.
Clashes(r) == r.kind = "add" /\ r.adds \cap tabs[r.book] # {}

\* The service executes r on spreadsheet b.  prompt: its exporter still waits for it.
Execute(r, b, prompt) ==
    /\ existing' = existing \cup {b}
    /\ tabs' = [tabs EXCEPT ![b] =
          CASE r.kind = "create" -> Titles
            [] r.kind = "add" /\ ~Clashes(r) -> @ \cup r.adds
            [] OTHER -> @]
    /\ rows' = [rows EXCEPT ![b] =
          CASE r.kind = "clear" -> Blank
            [] r.kind = "write" -> Over(r.by, @)
            [] OTHER -> @]
    /\ alone' = [e \in Exports |->
          CASE e = r.by /\ prompt -> alone[e] \/ r.kind = "clear"
            [] r.kind \in {"clear", "write"} /\ export[e].book = b -> FALSE
            [] OTHER -> alone[e]]

\* A request given up arrives after all.
LateArrives ==
    \E r \in late :
        /\ \E b \in Targets(r) : Execute(r, b, FALSE)
        /\ late' = late \ {r}
        /\ UNCHANGED export

-----------------------------------------------------------------------------
(* The exporter.                                                           *)

MoveTo(e, stage, book, missing) ==
    export' = [export EXCEPT ![e] =
        [stage |-> stage, attempt |-> 0, book |-> book, missing |-> missing]]

Fail(e) == export' = [export EXCEPT ![e].stage = "failed"]

\* Mutant: the tabs are written first and cleared then.
NextStageClearedLast(e, b) ==
    CASE export[e].stage \in {"read", "create", "add"} -> MoveTo(e, "write", b, {})
      [] export[e].stage = "write"  -> MoveTo(e, "clear", b, {})
      [] export[e].stage = "clear"  -> MoveTo(e, "format", b, {})
      [] export[e].stage = "format" -> MoveTo(e, "done", b, {})

\* The code after the answer to the request of the stage: what export and
\* _prepare_spreadsheet send next.
NextStage(e, b) ==
    CASE export[e].stage = "read" ->
            IF Titles \subseteq tabs[b] THEN MoveTo(e, "clear", b, {})
                                        ELSE MoveTo(e, "add", b, Titles \ tabs[b])
      [] export[e].stage \in {"create", "add"} -> MoveTo(e, "clear", b, {})
      [] export[e].stage = "clear"  -> MoveTo(e, "write", b, {})
      [] export[e].stage = "write"  -> MoveTo(e, "format", b, {})
      [] export[e].stage = "format" -> MoveTo(e, "done", b, {})

\* A request is executed and its answer received.
Answered(e) ==
    /\ Running(e) /\ ~Clashes(Current(e))
    /\ \E b \in Targets(Current(e)) :
        /\ Execute(Current(e), b, TRUE)
        /\ NextStage(e, b)
    /\ UNCHANGED late

\* The answer is executed but not a JSON object with the IDs asked for.
Unreadable(e) ==
    /\ export[e].stage \in {"read", "create", "add"} /\ ~Clashes(Current(e))
    /\ \E b \in Targets(Current(e)) : Execute(Current(e), b, TRUE)
    /\ Fail(e)
    /\ UNCHANGED late

\* 401 or 403, no token, or any other error status: never retried.  Also the
\* end of the call from outside, by a cancellation or the end of the process.
Refused(e) ==
    /\ Running(e)
    /\ Fail(e)
    /\ UNCHANGED <<remote, late>>

\* Mutant: attempts are not counted.
RetryForever(e) ==
    IF export[e].attempt = MaxRetries THEN Fail(e) ELSE UNCHANGED export

\* Mutant: a retry creates the spreadsheet again.
RetryFromStart(e) ==
    IF export[e].attempt = MaxRetries
    THEN Fail(e)
    ELSE export' = [export EXCEPT ![e].attempt = @ + 1, ![e].stage = "create"]

\* The next attempt, or none.
RetryOrFail(e) ==
    IF export[e].attempt = MaxRetries
    THEN Fail(e)
    ELSE export' = [export EXCEPT ![e].attempt = @ + 1]

\* Quota limits, server errors and lost answers, the request not executed.
Overloaded(e) ==
    /\ Running(e)
    /\ RetryOrFail(e)
    /\ UNCHANGED <<remote, late>>

\* A server error or a lost answer of a request that was executed.
AnswerLost(e) ==
    /\ Running(e)
    /\ \E b \in Targets(Current(e)) : Execute(Current(e), b, TRUE)
    /\ RetryOrFail(e)
    /\ UNCHANGED late

\* The exporter stops waiting for a request that is still on its way.
TimedOut(e) ==
    /\ Running(e) /\ Cardinality(late) < MaxLate
    /\ late' = late \cup {Current(e)}
    /\ RetryOrFail(e)
    /\ UNCHANGED remote

Step(e) ==
    \/ Answered(e) \/ Unreadable(e) \/ Refused(e)
    \/ Overloaded(e) \/ AnswerLost(e) \/ TimedOut(e)

Next == LateArrives \/ \E e \in Exports : Step(e)

\* Every request is given up after its timeout, and every pause ends.
Spec == Init /\ [][Next]_vars /\ \A e \in Exports : WF_vars(Step(e))

-----------------------------------------------------------------------------
\* An export that succeeded leaves exactly its own rows in the spreadsheet it
\* reports, however often its requests were repeated and whatever was there,
\* unless another export, or a request of its own that came late, changed the
\* tab since it was cleared.
UndisturbedExportsAreComplete ==
    \A e \in Exports :
        export[e].stage = "done" /\ alone[e] => rows[export[e].book] = Over(e, Blank)

\* The rows of an export are in the spreadsheet it goes on to report and in no
\* other, even when the answer to a create was lost and a second one created.
RowsOnlyWhereReported ==
    \A b \in Books, i \in 1..MaxRows :
        rows[b][i] \in Exports => export[rows[b][i]].book = b

\* Every export ends, whatever the service does.
ExportsEnd == \A e \in Exports : <>(export[e].stage \in Ends)
=============================================================================
