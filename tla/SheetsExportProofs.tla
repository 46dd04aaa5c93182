------------------------- MODULE SheetsExportProofs -------------------------
(***************************************************************************)
(* Type correctness of SheetsExport, and its two safety invariants.        *)
(***************************************************************************)
EXTENDS SheetsExport, TLAPS

\* The spreadsheet a call works on: none before the one it creates is known.
BookKnown ==
    \A e \in Exports :
        IF export[e].stage = "create" THEN export[e].book = None
        ELSE \/ export[e].book \in existing
             \/ export[e].stage = "failed" /\ export[e].book = None

\* What was given up but for creates would act on the spreadsheet of its call.
LateStaysHome ==
    \A r \in late :
        r.kind # "create" => /\ r.book = export[r.by].book
                             /\ r.book \in existing

\* What the tab holds while nobody has interfered with it, stage by stage.
RowsKept ==
    \A e \in Exports : alone[e] =>
        /\ export[e].stage = "write" =>
               rows[export[e].book] \in {Blank, Over(e, Blank)}
        /\ export[e].stage \in {"format", "done"} =>
               rows[export[e].book] = Over(e, Blank)

\* The inductive invariant.
IInv == TypeOK /\ BookKnown /\ LateStaysHome /\ RowsKept /\ RowsOnlyWhereReported

-----------------------------------------------------------------------------
LEMMA BlankIsASheet == Blank \in Sheet
  BY DEF Blank, Sheet, Row

LEMMA OverIsASheet ==
  ASSUME NEW e \in Exports, NEW s \in Sheet
  PROVE  Over(e, s) \in Sheet
  BY DEF Over, Sheet, Row

\* Writing twice is writing once, and a row stands over what was there.
LEMMA OverIsIdempotent ==
  ASSUME NEW e \in Exports
  PROVE  Over(e, Over(e, Blank)) = Over(e, Blank)
  BY DEF Over, Blank

\* Whose rows a spreadsheet holds after a write.
LEMMA OverAddsOwnRows ==
  ASSUME NEW e \in Exports, NEW s \in Sheet, NEW i \in 1..MaxRows
  PROVE  Over(e, s)[i] \in {e, s[i]}
  BY DEF Over

LEMMA InitIInv == Init => IInv
<1> SUFFICES ASSUME Init PROVE IInv
  OBVIOUS
<1> USE SheetsAssumption
<1>1. \A e \in Exports : \E book \in Shared \cup {None} : export[e] = Begun(book)
  BY DEF Init
<1>2. \A book \in Shared \cup {None} : Begun(book) \in ExportState
  BY DEF Begun, ExportState, Requests
<1>3. export \in [Exports -> ExportState]
  BY <1>1, <1>2 DEF Init
<1>4. [i \in 1..MaxRows |-> Earlier] \in Sheet
  BY DEF Sheet, Row
<1>5. rows \in [Books -> Sheet]
  BY <1>4, BlankIsASheet DEF Init
<1>6. TypeOK
  BY <1>3, <1>5 DEF TypeOK, Init
<1>7. BookKnown /\ RowsKept /\ LateStaysHome
  BY <1>1 DEF Init, Begun, BookKnown, RowsKept, LateStaysHome
<1>8. RowsOnlyWhereReported
  BY DEF RowsOnlyWhereReported, Init, Blank
<1> QED
  BY <1>6, <1>7, <1>8 DEF IInv

-----------------------------------------------------------------------------
\* A request its exporter waits for, or one it has given up.
Sendable(r, prompt) ==
    /\ r \in Request /\ prompt \in BOOLEAN
    /\ prompt => r.kind = export[r.by].stage
    /\ r.kind # "create" => r.book = export[r.by].book /\ r.book \in existing

\* The types of what an execution leaves behind.
LEMMA ExecuteTypes ==
  ASSUME IInv, NEW r, NEW prompt, Sendable(r, prompt),
         NEW b \in Targets(r), Execute(r, b, prompt)
  PROVE  /\ b \in Books /\ b \in existing' /\ existing \subseteq existing'
         /\ existing' \subseteq Books
         /\ tabs' \in [Books -> SUBSET Titles]
         /\ rows' \in [Books -> Sheet]
         /\ alone' \in [Exports -> BOOLEAN]
<1>1. /\ b \in Books /\ existing \subseteq Books
      /\ tabs \in [Books -> SUBSET Titles] /\ rows \in [Books -> Sheet]
      /\ alone \in [Exports -> BOOLEAN]
      /\ r.by \in Exports /\ r.adds \subseteq Titles
  BY DEF IInv, TypeOK, Sendable, Targets, Request
<1>2. tabs' \in [Books -> SUBSET Titles]
  BY <1>1 DEF Execute
<1>3. rows' \in [Books -> Sheet]
  <2>1. Over(r.by, rows[b]) \in Sheet
    BY <1>1, OverIsASheet
  <2> QED BY <1>1, <2>1, BlankIsASheet DEF Execute
<1>4. alone' \in [Exports -> BOOLEAN]
  BY <1>1 DEF Execute, Sendable
<1> QED BY <1>1, <1>2, <1>3, <1>4 DEF Execute

\* Rows stay with the export that reports their spreadsheet.
LEMMA ExecuteKeepsRowsHome ==
  ASSUME IInv, NEW r, NEW prompt, Sendable(r, prompt),
         NEW b \in Targets(r), Execute(r, b, prompt),
         NEW c \in Books, NEW i \in 1..MaxRows, rows'[c][i] \in Exports
  PROVE  export[rows'[c][i]].book = c
<1>1. /\ b \in Books /\ rows \in [Books -> Sheet] /\ r.by \in Exports
  BY DEF IInv, TypeOK, Sendable, Targets, Request
<1>2. rows[c][i] \in Exports => export[rows[c][i]].book = c
  BY DEF IInv, RowsOnlyWhereReported
<1>3. CASE c = b /\ r.kind = "write"
  <2>1. rows'[c] = Over(r.by, rows[c])
    BY <1>1, <1>3 DEF Execute
  <2>2. rows'[c][i] \in {r.by, rows[c][i]}
    BY <1>1, <2>1, OverAddsOwnRows
  <2>3. export[r.by].book = c
    BY <1>3 DEF Sendable, Targets
  <2> QED BY <1>2, <2>2, <2>3
<1>4. CASE c = b /\ r.kind = "clear"
  <2>1. rows'[c] = Blank
    BY <1>1, <1>4 DEF Execute
  <2> QED BY <2>1, SheetsAssumption DEF Blank
<1>5. CASE c # b \/ r.kind \notin {"write", "clear"}
  <2>1. rows'[c] = rows[c]
    BY <1>1, <1>5 DEF Execute
  <2> QED BY <1>2, <2>1
<1> QED BY <1>3, <1>4, <1>5

\* What the tab of an undisturbed export holds survives every execution.
LEMMA ExecuteKeepsRows ==
  ASSUME IInv, NEW r, NEW prompt, Sendable(r, prompt),
         NEW b \in Targets(r), Execute(r, b, prompt),
         NEW e \in Exports, alone'[e]
  PROVE  /\ export[e].stage = "write" =>
                rows'[export[e].book] \in {Blank, Over(e, Blank)}
         /\ export[e].stage \in {"format", "done"} =>
                rows'[export[e].book] = Over(e, Blank)
<1>1. /\ b \in Books /\ rows \in [Books -> Sheet] /\ r.by \in Exports
      /\ r.kind \in Requests
  BY DEF IInv, TypeOK, Sendable, Targets, Request
<1>2. alone[e] => /\ export[e].stage = "write" =>
                        rows[export[e].book] \in {Blank, Over(e, Blank)}
                  /\ export[e].stage \in {"format", "done"} =>
                        rows[export[e].book] = Over(e, Blank)
  BY DEF IInv, RowsKept
<1>3. r.kind # "create" => b = export[r.by].book
  BY DEF Sendable, Targets
<1>4. CASE e = r.by /\ prompt
  <2>1. export[e].stage = r.kind
    BY <1>4 DEF Sendable
  <2>2. r.kind # "clear" => alone[e]
    BY <1>4, <2>1 DEF Execute
  <2>3. CASE r.kind = "clear"
    BY <1>1, <1>4, <2>1, <2>3 DEF Execute
  <2>4. CASE r.kind = "write"
    <3>1. rows'[b] = Over(e, rows[b])
      BY <1>1, <1>4, <2>4 DEF Execute
    <3>2. rows[b] \in {Blank, Over(e, Blank)}
      BY <1>2, <1>3, <1>4, <2>1, <2>2, <2>4
    <3>3. rows'[b] = Over(e, Blank)
      BY <3>1, <3>2, OverIsIdempotent
    <3> QED BY <1>3, <1>4, <2>1, <2>4, <3>3
  <2>5. CASE r.kind = "format"
    <3>1. rows' = rows
      BY <1>1, <2>5 DEF Execute
    <3> QED BY <1>2, <1>3, <1>4, <2>1, <2>2, <2>5, <3>1
  <2>6. CASE r.kind \in {"read", "create", "add"}
    BY <1>4, <2>1, <2>6
  <2> QED BY <1>1, <2>3, <2>4, <2>5, <2>6 DEF Requests
<1>5. CASE ~(e = r.by /\ prompt)
  <2>1. alone[e] /\ ~(r.kind \in {"clear", "write"} /\ export[e].book = b)
    BY <1>5 DEF Execute
  <2>2. rows'[export[e].book] = rows[export[e].book]
    BY <1>1, <2>1 DEF Execute
  <2> QED BY <1>2, <1>5, <2>1, <2>2
<1> QED BY <1>4, <1>5

\* What the request just answered leaves in the tab of its own export.
LEMMA PromptExecution ==
  ASSUME IInv, NEW r, Sendable(r, TRUE), NEW b \in Targets(r),
         Execute(r, b, TRUE), alone'[r.by]
  PROVE  /\ r.kind = "clear" => rows'[b] = Blank
         /\ r.kind \in {"write", "format"} => rows'[b] = Over(r.by, Blank)
<1>1. /\ b \in Books /\ rows \in [Books -> Sheet] /\ r.by \in Exports
      /\ export[r.by].stage = r.kind
  BY DEF IInv, TypeOK, Sendable, Targets, Request
<1>2. CASE r.kind = "clear"
  BY <1>1, <1>2 DEF Execute
<1>3. CASE r.kind \in {"write", "format"}
  <2>1. alone[r.by] /\ b = export[r.by].book
    BY <1>1, <1>3 DEF Execute, Sendable, Targets
  <2>2. /\ r.kind = "write" => rows[b] \in {Blank, Over(r.by, Blank)}
        /\ r.kind = "format" => rows[b] = Over(r.by, Blank)
    BY <1>1, <2>1 DEF IInv, RowsKept
  <2>3. rows'[b] = IF r.kind = "write" THEN Over(r.by, rows[b]) ELSE rows[b]
    BY <1>1, <1>3 DEF Execute
  <2> QED BY <1>1, <1>3, <2>2, <2>3, OverIsIdempotent
<1> QED BY <1>2, <1>3

-----------------------------------------------------------------------------
LEMMA CurrentIsSendable ==
  ASSUME IInv, NEW e \in Exports, Running(e), NEW prompt \in {TRUE}
  PROVE  Sendable(Current(e), prompt)
  BY DEF IInv, TypeOK, ExportState, Running, Current, Sendable, Request, BookKnown,
         Requests

LEMMA LateIsSendable ==
  ASSUME IInv, NEW r \in late
  PROVE  Sendable(r, FALSE)
  BY DEF IInv, TypeOK, Sendable, LateStaysHome

\* A step that executes nothing and leaves every call where it is, or moves one
\* on within its stage or to its failure.
LEMMA StayKeepsIInv ==
  ASSUME IInv, NEW e \in Exports, RetryOrFail(e) \/ Fail(e),
         existing \subseteq existing', existing' \subseteq Books,
         tabs' \in [Books -> SUBSET Titles], rows' \in [Books -> Sheet],
         alone' \in [Exports -> BOOLEAN], late' \subseteq Request,
         \A r \in late' : r.kind # "create" =>
             r.book = export[r.by].book /\ r.book \in existing,
         \A f \in Exports : alone'[f] =>
             /\ export[f].stage = "write" =>
                    rows'[export[f].book] \in {Blank, Over(f, Blank)}
             /\ export[f].stage \in {"format", "done"} =>
                    rows'[export[f].book] = Over(f, Blank),
         \A c \in Books, i \in 1..MaxRows :
             rows'[c][i] \in Exports => export[rows'[c][i]].book = c
  PROVE  IInv'
<1> USE SheetsAssumption
<1>1. /\ export \in [Exports -> ExportState]
      /\ \A f \in Exports : export[f] \in ExportState
  BY DEF IInv, TypeOK
<1>2. export' \in [Exports -> ExportState]
  BY <1>1 DEF RetryOrFail, Fail, ExportState, Ends
<1>3. \A f \in Exports : /\ export'[f].book = export[f].book
                        /\ \/ export'[f].stage = export[f].stage
                           \/ export'[f].stage = "failed"
  BY <1>1 DEF RetryOrFail, Fail, ExportState
<1>4. TypeOK'
  BY <1>2 DEF TypeOK
<1>5. BookKnown'
  BY <1>3 DEF IInv, BookKnown
<1>6. LateStaysHome'
  <2>1. \A r \in late' : r.by \in Exports
    BY DEF Request
  <2> QED BY <1>3, <2>1 DEF LateStaysHome
<1>7. RowsKept'
  BY <1>3 DEF RowsKept
<1>8. RowsOnlyWhereReported'
  BY <1>3 DEF RowsOnlyWhereReported
<1> QED BY <1>4, <1>5, <1>6, <1>7, <1>8 DEF IInv

\* The same facts, when the request of a call has been executed for it.
LEMMA ExecutedKeepsIInv ==
  ASSUME IInv, NEW e \in Exports, Running(e), NEW b \in Targets(Current(e)),
         Execute(Current(e), b, TRUE), late' = late, RetryOrFail(e) \/ Fail(e)
  PROVE  IInv'
<1> DEFINE r == Current(e)
<1>1. Sendable(r, TRUE)
  BY CurrentIsSendable
<1> HIDE DEF r
<1>2. Execute(r, b, TRUE) /\ b \in Targets(r)
  BY DEF r
<1>3. /\ existing \subseteq existing' /\ existing' \subseteq Books
      /\ tabs' \in [Books -> SUBSET Titles] /\ rows' \in [Books -> Sheet]
      /\ alone' \in [Exports -> BOOLEAN]
  BY <1>1, <1>2, ExecuteTypes
<1>4. \A f \in Exports : alone'[f] =>
         /\ export[f].stage = "write" =>
                rows'[export[f].book] \in {Blank, Over(f, Blank)}
         /\ export[f].stage \in {"format", "done"} =>
                rows'[export[f].book] = Over(f, Blank)
  BY <1>1, <1>2, ExecuteKeepsRows
<1>5. \A c \in Books, i \in 1..MaxRows :
         rows'[c][i] \in Exports => export[rows'[c][i]].book = c
  BY <1>1, <1>2, ExecuteKeepsRowsHome
<1>6. /\ late' \subseteq Request
      /\ \A q \in late' : q.kind # "create" =>
             q.book = export[q.by].book /\ q.book \in existing
  BY DEF IInv, TypeOK, LateStaysHome
<1> QED BY <1>3, <1>4, <1>5, <1>6, StayKeepsIInv

\* A call moves on: its spreadsheet is known from now on.
LEMMA AnsweredKeepsIInv ==
  ASSUME IInv, NEW e \in Exports, Answered(e)
  PROVE  IInv'
<1> USE SheetsAssumption
<1> DEFINE r == Current(e)
<1>1. Running(e) /\ late' = late
  BY DEF Answered
<1>2. Sendable(r, TRUE) /\ r.by = e /\ r.kind = export[e].stage
  BY <1>1, CurrentIsSendable DEF Current
<1>3. PICK b \in Targets(r) : Execute(r, b, TRUE) /\ NextStage(e, b)
  BY DEF Answered
<1> HIDE DEF r
<1>4. /\ b \in Books /\ b \in existing' /\ existing \subseteq existing'
      /\ existing' \subseteq Books
      /\ tabs' \in [Books -> SUBSET Titles] /\ rows' \in [Books -> Sheet]
      /\ alone' \in [Exports -> BOOLEAN]
  BY <1>2, <1>3, ExecuteTypes
<1>5. /\ export \in [Exports -> ExportState]
      /\ \A f \in Exports : export[f] \in ExportState
      /\ late \subseteq Request
  BY DEF IInv, TypeOK
<1>6. PICK stage \in {"add", "clear", "write", "format", "done"} :
         /\ \E missing \in SUBSET Titles : MoveTo(e, stage, b, missing)
         /\ stage = "write" => r.kind = "clear"
         /\ stage = "format" => r.kind = "write"
         /\ stage = "done" => r.kind = "format"
  BY <1>1, <1>2, <1>3 DEF NextStage, Running, Requests
<1>7. PICK missing \in SUBSET Titles : MoveTo(e, stage, b, missing)
  BY <1>6
<1>8. export' = [export EXCEPT ![e] = [stage |-> stage, attempt |-> 0,
                                       book |-> b, missing |-> missing]]
  BY <1>7 DEF MoveTo
<1>9. /\ export'[e].stage = stage /\ export'[e].book = b
      /\ \A f \in Exports \ {e} : export'[f] = export[f]
  BY <1>5, <1>8
<1>10. r.kind # "create" => export[e].book = b
  BY <1>2, <1>3 DEF Targets, Sendable
<1>11. r.kind = "create" => export[e].book = None
  BY <1>2 DEF IInv, BookKnown
<1>12. TypeOK'
  <2>1. [stage |-> stage, attempt |-> 0, book |-> b, missing |-> missing] \in ExportState
    BY <1>4 DEF ExportState, Requests, Ends
  <2>2. export' \in [Exports -> ExportState]
    BY <1>5, <1>8, <2>1
  <2> QED BY <1>1, <1>4, <1>5, <2>2 DEF TypeOK
<1>13. BookKnown'
  BY <1>4, <1>9 DEF IInv, BookKnown
<1>14. LateStaysHome'
  <2> SUFFICES ASSUME NEW q \in late, q.kind # "create"
               PROVE  q.book = export'[q.by].book /\ q.book \in existing'
    BY <1>1 DEF LateStaysHome
  <2>1. q.book = export[q.by].book /\ q.book \in existing /\ q.by \in Exports
    BY <1>5 DEF IInv, LateStaysHome, Request
  <2>2. q.by = e => q.book = b
    BY <1>4, <1>10, <1>11, <2>1
  <2> QED BY <1>4, <1>9, <2>1, <2>2
<1>15. RowsKept'
  <2> SUFFICES ASSUME NEW f \in Exports, alone'[f]
               PROVE  /\ export'[f].stage = "write" =>
                             rows'[export'[f].book] \in {Blank, Over(f, Blank)}
                      /\ export'[f].stage \in {"format", "done"} =>
                             rows'[export'[f].book] = Over(f, Blank)
    BY DEF RowsKept
  <2>1. CASE f = e
    <3>1. /\ r.kind = "clear" => rows'[b] = Blank
          /\ r.kind \in {"write", "format"} => rows'[b] = Over(e, Blank)
      BY <1>2, <1>3, <2>1, PromptExecution
    <3> QED BY <1>6, <1>9, <2>1, <3>1
  <2>2. CASE f # e
    <3>1. /\ export[f].stage = "write" =>
                rows'[export[f].book] \in {Blank, Over(f, Blank)}
          /\ export[f].stage \in {"format", "done"} =>
                rows'[export[f].book] = Over(f, Blank)
      BY <1>2, <1>3, ExecuteKeepsRows
    <3> QED BY <1>9, <2>2, <3>1
  <2> QED BY <2>1, <2>2
<1>16. RowsOnlyWhereReported'
  <2> SUFFICES ASSUME NEW c \in Books, NEW i \in 1..MaxRows, rows'[c][i] \in Exports
               PROVE  export'[rows'[c][i]].book = c
    BY DEF RowsOnlyWhereReported
  <2>1. export[rows'[c][i]].book = c
    BY <1>2, <1>3, ExecuteKeepsRowsHome
  <2>2. rows'[c][i] = e => c = b
    BY <1>10, <1>11, <2>1
  <2> QED BY <1>9, <2>1, <2>2
<1> QED BY <1>12, <1>13, <1>14, <1>15, <1>16 DEF IInv

LEMMA LateArrivesKeepsIInv ==
  ASSUME IInv, LateArrives
  PROVE  IInv'
<1>1. PICK r \in late : /\ \E b \in Targets(r) : Execute(r, b, FALSE)
                        /\ late' = late \ {r} /\ export' = export
  BY DEF LateArrives
<1>2. PICK b \in Targets(r) : Execute(r, b, FALSE)
  BY <1>1
<1>3. Sendable(r, FALSE)
  BY LateIsSendable
<1>4. /\ existing \subseteq existing' /\ existing' \subseteq Books
      /\ tabs' \in [Books -> SUBSET Titles] /\ rows' \in [Books -> Sheet]
      /\ alone' \in [Exports -> BOOLEAN]
  BY <1>2, <1>3, ExecuteTypes
<1>5. TypeOK'
  BY <1>1, <1>4 DEF IInv, TypeOK
<1>6. BookKnown' /\ LateStaysHome'
  BY <1>1, <1>4 DEF IInv, BookKnown, LateStaysHome
<1>7. RowsKept'
  BY <1>1, <1>2, <1>3, ExecuteKeepsRows DEF RowsKept
<1>8. RowsOnlyWhereReported'
  BY <1>1, <1>2, <1>3, ExecuteKeepsRowsHome DEF RowsOnlyWhereReported
<1> QED BY <1>5, <1>6, <1>7, <1>8 DEF IInv

LEMMA StepKeepsIInv ==
  ASSUME IInv, NEW e \in Exports, Step(e)
  PROVE  IInv'
<1>1. CASE Answered(e)
  BY <1>1, AnsweredKeepsIInv
<1>2. CASE Unreadable(e)
  <2>1. Running(e)
    BY <1>2 DEF Unreadable, Running, Requests
  <2> QED BY <1>2, <2>1, ExecutedKeepsIInv DEF Unreadable
<1>3. CASE AnswerLost(e)
  BY <1>3, ExecutedKeepsIInv DEF AnswerLost
<1>4. CASE Refused(e) \/ Overloaded(e) \/ TimedOut(e)
  <2>1. /\ RetryOrFail(e) \/ Fail(e)
        /\ UNCHANGED remote
        /\ late' \subseteq late \cup {Current(e)}
        /\ Running(e)
    BY <1>4 DEF Refused, Overloaded, TimedOut
  <2>2. Sendable(Current(e), TRUE)
    BY <2>1, CurrentIsSendable
  <2>3. /\ late' \subseteq Request
        /\ \A q \in late' : q.kind # "create" =>
               q.book = export[q.by].book /\ q.book \in existing
    BY <2>1, <2>2 DEF IInv, TypeOK, LateStaysHome, Sendable
  <2>4. /\ existing \subseteq existing' /\ existing' \subseteq Books
        /\ tabs' \in [Books -> SUBSET Titles] /\ rows' \in [Books -> Sheet]
        /\ alone' \in [Exports -> BOOLEAN]
    BY <2>1 DEF IInv, TypeOK, remote
  <2>5. \A f \in Exports : alone'[f] =>
           /\ export[f].stage = "write" =>
                  rows'[export[f].book] \in {Blank, Over(f, Blank)}
           /\ export[f].stage \in {"format", "done"} =>
                  rows'[export[f].book] = Over(f, Blank)
    BY <2>1 DEF IInv, RowsKept, remote
  <2>6. \A c \in Books, i \in 1..MaxRows :
           rows'[c][i] \in Exports => export[rows'[c][i]].book = c
    BY <2>1 DEF IInv, RowsOnlyWhereReported, remote
  <2> QED BY <2>1, <2>3, <2>4, <2>5, <2>6, StayKeepsIInv
<1> QED BY <1>1, <1>2, <1>3, <1>4 DEF Step

LEMMA NextIInv == IInv /\ [Next]_vars => IInv'
<1> SUFFICES ASSUME IInv, [Next]_vars PROVE IInv'
  OBVIOUS
<1>1. CASE LateArrives
  BY <1>1, LateArrivesKeepsIInv
<1>2. CASE \E e \in Exports : Step(e)
  BY <1>2, StepKeepsIInv
<1>3. CASE UNCHANGED vars
  BY <1>3 DEF vars, remote, IInv, TypeOK, BookKnown, LateStaysHome, RowsKept,
              RowsOnlyWhereReported
<1> QED BY <1>1, <1>2, <1>3 DEF Next

LEMMA SpecIInv == Spec => []IInv
  BY InitIInv, NextIInv, PTL DEF Spec

-----------------------------------------------------------------------------
\* Every variable of the exporter and of the spreadsheets keeps its type: attempts
\* stay within the retries, rows are those of known exports.
THEOREM TypeCorrect == Spec => []TypeOK
<1>1. IInv => TypeOK
  BY DEF IInv
<1> QED BY <1>1, SpecIInv, PTL

\* A successful export that nobody interfered with left exactly its rows, for any
\* number of exports, retries and lost or late requests.
THEOREM UndisturbedExportsComplete == Spec => []UndisturbedExportsAreComplete
<1>1. IInv => UndisturbedExportsAreComplete
  BY DEF IInv, RowsKept, UndisturbedExportsAreComplete
<1> QED BY <1>1, SpecIInv, PTL

\* The rows of an export are in the spreadsheet it reports and nowhere else.
THEOREM RowsWhereReported == Spec => []RowsOnlyWhereReported
<1>1. IInv => RowsOnlyWhereReported
  BY DEF IInv
<1> QED BY <1>1, SpecIInv, PTL
=============================================================================
