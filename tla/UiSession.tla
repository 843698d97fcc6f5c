------------------------------ MODULE UiSession ------------------------------
(***************************************************************************)
(* A session of the user interface (crates/ui/src/app): the requests it    *)
(* sends, the answers it handles, the rows it shows and edits, the         *)
(* catalogue refresh it sends by itself, and the semantic search, which    *)
(* fetches rows with one request and ranks them in a second worker.        *)
(*                                                                         *)
(* The engine is the abstract SingleFlight, which EngineWorker implements: *)
(* a session relies on nothing else of it. A CancelActive command has no   *)
(* effect here, since SingleFlight may cancel what it serves at any time.  *)
(*                                                                         *)
(* Left out: what the status line says, the columns and values of a row,   *)
(* and the text of the SQL editor, which a preview borrows (editor.rs).    *)
(***************************************************************************)
EXTENDS SingleFlight, SequencesExt

CONSTANTS
    MaxUserRequest,  \* bound on the requests when the user sends one more
    Offered,         \* what the user does in this instance
    Row,             \* the rows of the table; a row whose key is edited is still itself
    MaxRows          \* bound on the rows of a result

UserAction == {"sql", "select", "search", "cancel", "disable", "edit", "delete", "move"}

ASSUME MaxRequestAssumption == MaxRequest \in Nat \ {0}
ASSUME MaxUserRequestAssumption == MaxUserRequest \in 1 .. MaxRequest
ASSUME MaxRowsAssumption == MaxRows \in Nat
ASSUME OfferedAssumption == Offered \subseteq UserAction

VARIABLES
    requests,      \* requests[r]: what request r asks for, and its follow-up
    handled,       \* how many answers poll_engine has handled
    tracker,       \* RequestTracker.active: a request, or 0
    refresh,       \* CatalogRefresh
    catalogue,     \* the refresh whose snapshot is shown, or 0: the first one
    ranking,       \* App.active_semantic: the request that fetched its rows, or 0
    rankings,      \* the rankings sent to the semantic worker, its answers not handled
    grid,          \* ResultsState
    previewed,     \* history: the row whose DELETE was previewed last
    pendingFocus   \* App.pending_focus

catalogueVars == <<refresh, catalogue>>
gridVars == <<grid, previewed, pendingFocus>>
searchVars == <<ranking, rankings>>
uiVars == <<requests, handled, tracker, catalogueVars, searchVars, gridVars>>
vars == <<flightVars, uiVars>>

-----------------------------------------------------------------------------
NoRequest == 0
NoRow == [key |-> "none", revision |-> 0]

\* RowIdentity: which row, and which version of it (ctid, xmin): as it
\* was fetched, or as update r left it.
Identity == [key : Row, revision : 0 .. MaxRequest]

Kind == {"sql", "select", "semantic", "update", "delete", "row", "refresh"}
RequestRecord == [kind : Kind,
                  flagged : BOOLEAN,  \* mutates_catalog(sql)
                  identity : Identity \union {NoRow},
                  index : Nat]        \* PostResultsAction: the index of its row

\* How a mutation of these rows is followed up (RefreshStrategy).
Origin == {"select", "rerun", "row", "none"}
Results == {rows \in UNION {[1 .. n -> [key : Row, revision : {0}]] : n \in 0 .. MaxRows} :
              \A i, j \in DOMAIN rows : rows[i].key = rows[j].key => i = j}

UiTypeOK ==
    /\ requests \in Seq(RequestRecord)
    /\ Len(requests) = submitted
    /\ handled \in 0 .. Len(answers)
    /\ tracker \in 0 .. submitted
    /\ refresh \in [pending : BOOLEAN, cooling : BOOLEAN, last : 0 .. submitted]
    /\ catalogue \in 0 .. submitted
    /\ ranking \in 0 .. submitted
    /\ rankings \in Seq(1 .. submitted)
    /\ grid \in [rows : Seq(Identity), origin : Origin, from : 0 .. submitted,
                 focus : Nat \ {0}, session : Nat, armed : Nat]
    /\ previewed \in Identity \union {NoRow}
    /\ pendingFocus \in Row \union {"none"}

UiInit ==
    /\ FlightInit
    /\ requests = <<>>
    /\ handled = 0
    /\ tracker = NoRequest
    /\ refresh = [pending |-> FALSE, cooling |-> FALSE, last |-> NoRequest]
    /\ catalogue = 0
    /\ ranking = NoRequest
    /\ rankings = <<>>
    /\ grid = [rows |-> <<>>, origin |-> "none", from |-> 0, focus |-> 1, session |-> 0, armed |-> 0]
    /\ previewed = NoRow
    /\ pendingFocus = "none"

-----------------------------------------------------------------------------
(* Sending.                                                                *)

Tracks(kind) == tracker # NoRequest /\ requests[tracker].kind = kind

\* Mutant: the identifier that is tracked is the one after the one that is sent.
SendNextId(kind, flagged, identity, index) ==
    /\ SubmitRequest
    /\ requests' = Append(requests, [kind |-> kind, flagged |-> flagged,
                                     identity |-> identity, index |-> index])
    /\ tracker' = submitted + 2

\* The new request replaces the one that was tracked: the worker cancels it.
Send(kind, flagged, identity, index) ==
    /\ SubmitRequest
    /\ requests' = Append(requests, [kind |-> kind, flagged |-> flagged,
                                     identity |-> identity, index |-> index])
    /\ tracker' = submitted + 1

UserSends(kind, flagged, identity, index) ==
    /\ submitted < MaxUserRequest
    /\ Send(kind, flagged, identity, index)

\* Mutant: the ranking that runs is left alone.
LeaveRanking == UNCHANGED ranking

\* cancel_semantic_pipeline
CancelPipeline == ranking' = NoRequest

\* run_query, request_select_top_for_table, trigger_semantic_search.
Query(kind, flagged) ==
    /\ UserSends(kind, flagged, NoRow, 0)
    /\ CancelPipeline
    /\ UNCHANGED <<handled, catalogueVars, rankings, gridVars>>

RunQuery == "sql" \in Offered /\ \E flagged \in BOOLEAN : Query("sql", flagged)
SelectTop == "select" \in Offered /\ Query("select", FALSE)
TriggerSemanticSearch == "search" \in Offered /\ Query("semantic", FALSE)

\* request_cancel; the semantic pipeline is also canceled when a request is
\* refused before it is sent (a table without metadata, no semantic worker).
RequestCancel ==
    /\ "cancel" \in Offered
    /\ tracker # NoRequest \/ ranking # NoRequest
    /\ CancelPipeline
    /\ UNCHANGED <<flightVars, requests, handled, tracker, catalogueVars, rankings, gridVars>>

\* The semantic runtime is switched off in the settings: its channels are dropped.
DisableSemanticRuntime ==
    /\ "disable" \in Offered
    /\ ranking' = NoRequest
    /\ rankings' = <<>>
    /\ UNCHANGED <<flightVars, requests, handled, tracker, catalogueVars, gridVars>>

\* Mutant: the refresh does not wait for the request that is tracked.
RefreshWhenever ==
    /\ refresh.pending
    /\ ~refresh.cooling
    /\ Send("refresh", FALSE, NoRow, 0)
    /\ refresh' = [pending |-> FALSE, cooling |-> FALSE, last |-> submitted + 1]
    /\ UNCHANGED <<handled, catalogue, searchVars, gridVars>>

PollCatalogRefresh ==
    /\ refresh.pending
    /\ ~refresh.cooling
    /\ tracker = NoRequest
    /\ Send("refresh", FALSE, NoRow, 0)
    /\ refresh' = [pending |-> FALSE, cooling |-> FALSE, last |-> submitted + 1]
    /\ UNCHANGED <<handled, catalogue, searchVars, gridVars>>

CoolDown ==
    /\ refresh.cooling
    /\ refresh' = [refresh EXCEPT !.cooling = FALSE]
    /\ UNCHANGED <<flightVars, requests, handled, tracker, catalogue, searchVars, gridVars>>

-----------------------------------------------------------------------------
(* The results grid. Indices count from 1; 0 is no session and nothing     *)
(* armed. A session is open on the focused cell, or closed.                *)

Editable == grid.origin # "none" /\ grid.rows # <<>>
Focused == grid.rows[grid.focus]

\* Mutant: moving the focus leaves an armed delete armed.
KeepArmed(row) == [grid EXCEPT !.focus = row, !.session = 0]

\* ResultsState::set_focus: an armed delete and a session elsewhere are over.
FocusOn(row) == [grid EXCEPT !.focus = row, !.session = 0, !.armed = 0]

MoveFocus ==
    /\ "move" \in Offered
    /\ \E row \in DOMAIN grid.rows : grid' = FocusOn(row)
    /\ UNCHANGED <<flightVars, requests, handled, tracker, catalogueVars, searchVars,
                   previewed, pendingFocus>>

GridOnly == UNCHANGED <<flightVars, requests, handled, tracker, catalogueVars, searchVars,
                        previewed, pendingFocus>>

\* Enter or Backspace opens a session and disarms; the action update_row, which
\* a key may be bound to, does not disarm.
BeginEdit ==
    /\ "edit" \in Offered
    /\ Editable
    /\ grid.session = 0
    /\ \E armed \in {0, grid.armed} :
          grid' = [grid EXCEPT !.session = grid.focus, !.armed = armed]
    /\ GridOnly

\* A key that is not Delete, while a delete is armed or a session is open.
Disarm ==
    /\ grid.armed # 0
    /\ grid.armed = grid.focus \/ grid.session # 0
    /\ grid' = [grid EXCEPT !.armed = 0]
    /\ GridOnly

\* Escape, or Enter on a cell that did not change.
EndEdit ==
    /\ grid.session # 0
    /\ grid' = [grid EXCEPT !.session = 0]
    /\ GridOnly

\* submit_results_edit
SubmitEdit ==
    /\ grid.session # 0
    /\ ~Tracks("update")
    /\ UserSends("update", FALSE, grid.rows[grid.session], grid.session)
    /\ CancelPipeline
    /\ grid' = [grid EXCEPT !.session = 0]
    /\ UNCHANGED <<handled, catalogueVars, rankings, previewed, pendingFocus>>

\* trigger_row_delete: the first press arms and previews, the second submits.
ArmDelete ==
    /\ "delete" \in Offered
    /\ Editable
    /\ grid.armed # grid.focus
    /\ grid' = [grid EXCEPT !.armed = grid.focus]
    /\ previewed' = Focused
    /\ UNCHANGED <<flightVars, requests, handled, tracker, catalogueVars, searchVars, pendingFocus>>

SubmitDelete ==
    /\ Editable
    /\ grid.armed = grid.focus
    /\ ~Tracks("delete")
    /\ UserSends("delete", FALSE, Focused, grid.focus)
    /\ CancelPipeline
    /\ grid' = [grid EXCEPT !.armed = 0]
    /\ UNCHANGED <<handled, catalogueVars, rankings, previewed, pendingFocus>>

\* Mutant: a new result keeps what was armed for the one before.
ShowKeepingArmed(r, rows, origin) ==
    [rows |-> rows, origin |-> origin, from |-> r, focus |-> 1, session |-> 0,
     armed |-> grid.armed]

\* ResultsState::set_data
Shown(r, rows, origin) ==
    [rows |-> rows, origin |-> origin, from |-> r, focus |-> 1, session |-> 0, armed |-> 0]

\* set_data, then apply_pending_focus: the row that was edited gets the focus
\* back if the result still has it in the version that the update returned.
Show(r, origin) ==
    /\ \E rows \in Results :
          \E focus \in {1} \union {i \in DOMAIN rows : rows[i].key = pendingFocus} :
             grid' = [Shown(r, rows, origin) EXCEPT !.focus = focus]
    /\ pendingFocus' = "none"
    /\ UNCHANGED previewed

-----------------------------------------------------------------------------
(* Answers: handle_engine_response, one answer a step. Ticks and keys may  *)
(* come between any two of them.                                           *)

Coming == handled + 1
Answered == answers[Coming]

\* Mutant: the identifiers are not compared.
AnyActive == tracker # NoRequest

\* take_if: the answer is for the request that is tracked.
Active == tracker = Coming

Pending == [refresh EXCEPT !.pending = TRUE]

\* CatalogRefresh::on_canceled: a refresh that was canceled is queued again.
Requeued == IF refresh.last = Coming
            THEN [pending |-> TRUE, cooling |-> FALSE, last |-> NoRequest] ELSE refresh

\* Mutant: the answer of a replaced request is of no interest.
IgnoreInactive ==
    /\ handled < Len(answers)
    /\ ~Active
    /\ handled' = Coming
    /\ UNCHANGED <<flightVars, requests, tracker, catalogueVars, searchVars, gridVars>>

\* Mutant: the deletion that a replaced request made is shown.
ShowInactive ==
    /\ handled < Len(answers)
    /\ ~Active
    /\ handled' = Coming
    /\ grid' = IF requests[Coming].kind = "delete" /\ Answered = "success"
               THEN [grid EXCEPT !.rows = RemoveAt(@, requests[Coming].index)] ELSE grid
    /\ UNCHANGED <<flightVars, requests, tracker, catalogueVars, searchVars,
                   previewed, pendingFocus>>

\* handle_inactive_success, handle_inactive_error, and the cancellation of a
\* replaced request: SQL that may have changed the catalogue leads to a refresh.
HandleInactive ==
    /\ handled < Len(answers)
    /\ ~Active
    /\ handled' = Coming
    /\ refresh' = IF requests[Coming].kind = "sql" /\ Answered # "canceled"
                  THEN Pending ELSE Requeued
    /\ UNCHANGED <<flightVars, requests, tracker, catalogue, searchVars, gridVars>>

\* Mutant: a cancellation does not end the request that is tracked.
CanceledIsTracked ==
    /\ handled < Len(answers)
    /\ Active
    /\ Answered = "canceled"
    /\ handled' = Coming
    /\ refresh' = Requeued
    /\ grid' = [grid EXCEPT !.armed = 0]
    /\ UNCHANGED <<flightVars, requests, tracker, catalogue, searchVars, previewed,
                   pendingFocus>>

HandleCanceled ==
    /\ handled < Len(answers)
    /\ Active
    /\ Answered = "canceled"
    /\ handled' = Coming
    /\ tracker' = NoRequest
    /\ refresh' = Requeued
    /\ grid' = [grid EXCEPT !.armed = 0]
    /\ UNCHANGED <<flightVars, requests, catalogue, searchVars, previewed, pendingFocus>>

\* CatalogRefresh::on_failure: another attempt after a delay.
Retried == [pending |-> TRUE, cooling |-> TRUE, last |-> NoRequest]

\* try_handle_error: "unknown" is an error whose message says so.
HandleError ==
    /\ handled < Len(answers)
    /\ Active
    /\ Answered \in {"error", "unknown"}
    /\ handled' = Coming
    /\ tracker' = NoRequest
    /\ refresh' = CASE /\ requests[Coming].kind = "sql"
                       /\ requests[Coming].flagged \/ Answered = "unknown" -> Pending
                  [] requests[Coming].kind = "refresh" -> Retried
                  [] OTHER -> refresh
    /\ grid' = IF requests[Coming].kind \in {"update", "delete"}
               THEN [grid EXCEPT !.armed = 0] ELSE grid
    /\ UNCHANGED <<flightVars, requests, catalogue, searchVars, previewed, pendingFocus>>

HandleSuccess(kinds) ==
    /\ handled < Len(answers)
    /\ Active
    /\ Answered = "success"
    /\ requests[Coming].kind \in kinds
    /\ handled' = Coming

HandleRows ==
    /\ HandleSuccess({"sql", "select"})
    /\ tracker' = NoRequest
    /\ \E origin \in IF requests[Coming].kind = "select" THEN {"select"} ELSE Origin \ {"select"} :
          Show(Coming, origin)
    /\ refresh' = IF requests[Coming].flagged THEN Pending ELSE refresh
    /\ UNCHANGED <<flightVars, requests, catalogue, searchVars>>

\* dispatch_semantic_job: the ranking starts, unless the worker is gone.
HandleFetched ==
    /\ HandleSuccess({"semantic"})
    /\ tracker' = NoRequest
    /\ \/ ranking' = Coming /\ rankings' = Append(rankings, Coming)
       \/ ranking' = NoRequest /\ UNCHANGED rankings
    /\ UNCHANGED <<flightVars, requests, catalogueVars, gridVars>>

HandleCatalogue ==
    /\ HandleSuccess({"refresh"})
    /\ tracker' = NoRequest
    /\ refresh' = [pending |-> FALSE, cooling |-> FALSE, last |-> NoRequest]
    /\ catalogue' = Coming
    /\ UNCHANGED <<flightVars, requests, searchVars, gridVars>>

\* hydrate_row fetches the values of the row in the version it was left in.
HandleHydrated ==
    /\ HandleSuccess({"row"})
    /\ tracker' = NoRequest
    /\ UNCHANGED <<flightVars, requests, catalogueVars, searchVars, gridVars>>

\* refresh_results_after_mutation, by the strategy of the rows that are shown.
Refetch(kind, focus) ==
    /\ Send(kind, FALSE, NoRow, 0)
    /\ pendingFocus' = focus
    /\ CancelPipeline
NothingToSend ==
    /\ tracker' = NoRequest
    /\ UNCHANGED <<flightVars, requests, ranking>>
\* The new catalogue does not have the table any more.
RefetchRefused ==
    /\ tracker' = NoRequest
    /\ pendingFocus' = "none"
    /\ CancelPipeline
    /\ UNCHANGED <<flightVars, requests>>

HandleUpdated ==
    LET done == requests[Coming]
    IN  /\ HandleSuccess({"update"})
        /\ grid' = [grid EXCEPT !.rows[done.index].revision = Coming]
        /\ CASE grid.origin = "select" ->
                  Refetch("select", done.identity.key) \/ RefetchRefused
             [] grid.origin = "rerun" -> Refetch("sql", done.identity.key)
             [] grid.origin = "row" ->
                  /\ Send("row", FALSE, [done.identity EXCEPT !.revision = Coming], done.index)
                  /\ pendingFocus' = "none"
                  /\ CancelPipeline
             [] OTHER -> pendingFocus' = "none" /\ NothingToSend
        /\ UNCHANGED <<catalogueVars, rankings, previewed>>

\* Mutant: removing a row leaves the armed delete and the focus.
RowsOnlyRemoved(index) == [grid EXCEPT !.rows = RemoveAt(@, index)]

\* ResultsState::remove_row
Removed(index) ==
    LET left == RemoveAt(grid.rows, index)
    IN  [grid EXCEPT !.rows = left, !.session = 0, !.armed = 0,
                     !.focus = IF left = <<>> THEN 1 ELSE Min({@, Len(left)})]

HandleDeleted ==
    /\ HandleSuccess({"delete"})
    /\ grid' = Removed(requests[Coming].index)
    /\ CASE grid.origin = "select" -> Refetch("select", "none") \/ RefetchRefused
         [] grid.origin = "rerun" -> Refetch("sql", "none")
         [] grid.origin = "row" -> UNCHANGED pendingFocus /\ NothingToSend
         [] OTHER -> pendingFocus' = "none" /\ NothingToSend
    /\ UNCHANGED <<catalogueVars, rankings, previewed>>

PollEngine ==
    \/ HandleInactive
    \/ HandleCanceled
    \/ HandleError
    \/ HandleRows
    \/ HandleFetched
    \/ HandleCatalogue
    \/ HandleHydrated
    \/ HandleUpdated
    \/ HandleDeleted

\* Mutant: the ids of rankings are not compared.
ShowAnyRanking ==
    /\ rankings # <<>>
    /\ rankings' = Tail(rankings)
    /\ Show(Head(rankings), "select")
    /\ ranking' = NoRequest
    /\ UNCHANGED <<flightVars, requests, handled, tracker, catalogueVars>>

\* handle_semantic_response: the semantic worker answers each ranking once and
\* in order, with rows, an error or a cancellation.
PollSemantic ==
    /\ rankings # <<>>
    /\ rankings' = Tail(rankings)
    /\ IF Head(rankings) = ranking
       THEN /\ ranking' = NoRequest
            /\ Show(ranking, "select") \/ UNCHANGED gridVars
       ELSE UNCHANGED <<ranking, gridVars>>
    /\ UNCHANGED <<flightVars, requests, handled, tracker, catalogueVars>>

-----------------------------------------------------------------------------
Engine ==
    /\ \/ StartServing
       \/ \E r \in Request : r \notin applied /\ Apply(r)
       \/ \E answer \in Answer : AnswerServed(answer)
    /\ UNCHANGED uiVars

User ==
    \/ RunQuery
    \/ SelectTop
    \/ TriggerSemanticSearch
    \/ RequestCancel
    \/ DisableSemanticRuntime
    \/ MoveFocus
    \/ BeginEdit
    \/ Disarm
    \/ EndEdit
    \/ SubmitEdit
    \/ ArmDelete
    \/ SubmitDelete

Next ==
    \/ User
    \/ PollEngine
    \/ PollSemantic
    \/ PollCatalogRefresh
    \/ CoolDown
    \/ Engine

\* The event loop ticks and the clock runs. The engine answers in the end: this
\* assumes that the server enforces the statement timeout that every transaction
\* sets (transactions.rs) and is reached. Nothing is assumed of the user.
Fairness ==
    /\ WF_vars(PollEngine)
    /\ WF_vars(PollCatalogRefresh)
    /\ WF_vars(CoolDown)
    /\ WF_vars(StartServing /\ UNCHANGED uiVars)
    /\ WF_vars((\E answer \in Answer : AnswerServed(answer)) /\ UNCHANGED uiVars)

Spec == UiInit /\ [][Next]_vars
FairSpec == Spec /\ Fairness

-----------------------------------------------------------------------------
(* Properties.                                                             *)

\* The tracker is empty exactly when every request has been answered and every
\* answer handled, and else it holds the newest request: the user interface is
\* never idle over a request that runs, nor busy over one that does not
\* (tracker.rs, take_if, against the order of the answers).
TrackerTellsTruth ==
    tracker = IF handled = submitted THEN NoRequest ELSE submitted

\* The catalogue refresh that the user interface sends by itself cancels
\* nothing: when it is sent, no request is outstanding (app/mod.rs,
\* poll_catalog_refresh).
AutoRefreshInterruptsNothing ==
    [][\A r \in Request :
          r = submitted + 1 /\ submitted' = r /\ requests'[r].kind = "refresh" =>
              Len(answers) = submitted]_vars

\* A catalogue change that may have been committed is never forgotten: a refresh
\* sent after it is shown, outstanding, or pending (handlers.rs;
\* catalog_refresh.rs).
MayHaveChangedCatalogue(r) ==
    /\ requests[r].kind = "sql"
    /\ \/ answers[r] = "unknown"
       \/ answers[r] = "success" /\ requests[r].flagged
RefreshNeverLost ==
    \A r \in 1 .. handled :
        MayHaveChangedCatalogue(r) =>
            \/ refresh.pending
            \/ catalogue > r
            \/ refresh.last > r /\ refresh.last > handled

\* Rows that come to be shown are those of the newest request, a catalogue
\* refresh aside: neither an older query nor the ranking of an older search ever
\* replaces newer rows or comes between a newer request and its answer
\* (architecture.md, "Request IDs reject stale responses").
NewestIsShown ==
    [][grid'.from # grid.from =>
          \A r \in grid'.from + 1 .. submitted : requests[r].kind = "refresh"]_vars

\* A mutation that is tracked still names, by its index, the row whose identity
\* it was sent with: its answer is applied to that row and no other
\* (handlers.rs, handle_update_success, handle_delete_success).
MutationsHitTheirRow ==
    Tracks("update") \/ Tracks("delete") \/ Tracks("row") =>
        /\ requests[tracker].index \in DOMAIN grid.rows
        /\ grid.rows[requests[tracker].index].key = requests[tracker].identity.key

\* An armed delete is on the focused row, which is in the grid and has the key of
\* the row whose first press was previewed last, whatever was shown, moved,
\* edited or removed since (editing.rs, trigger_row_delete).  It says nothing of
\* the screen: the text of the preview is in SqlEditor.
DeleteConfirmsArmedRow ==
    grid.armed # 0 => /\ grid.armed = grid.focus
                      /\ grid.armed \in DOMAIN grid.rows
                      /\ Focused.key = previewed.key

\* What is sent after the second press is the statement that was previewed
\* (current-status.md, "SQL preview, double-confirm for deletes").
DeleteIsAsPreviewed ==
    [][\A r \in Request :
          r = submitted + 1 /\ submitted' = r /\ requests'[r].kind = "delete" =>
              requests'[r].identity = previewed]_vars

\* A pending refresh is sent in the end, if the user pauses long enough: here
\* because the instance runs out of requests (app/mod.rs, on_tick).
PendingRefreshIsSent ==
    refresh.pending ~> refresh.last # NoRequest \/ submitted = MaxRequest
=============================================================================
