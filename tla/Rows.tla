-------------------------------- MODULE Rows --------------------------------
(***************************************************************************)
(* A grid of rows that the user searches by meaning and edits: the engine  *)
(* (RowIdentity), the semantic worker (SemanticRanking) and the results    *)
(* grid of poqi-ui between them.  What happens to requests that replace    *)
(* each other is in UiSession; here a new request drops the one before.    *)
(***************************************************************************)
EXTENDS RowIdentity, SemanticRanking

CONSTANTS Statements,   \* what the user may run
          Prompts,      \* what the user may search for
          TitleColumns, \* the title columns the settings may name
          Tables,       \* the relation and its rows at first
          MaxRequests   \* bound: things the user does

ASSUME RowsAssumption ==
    /\ Statements \subseteq Statement
    /\ \A t \in Tables :
          /\ t.rel \in Relation
          /\ t.rows \subseteq [table : Nat, ctid : Places, xmin : {1}, cells : [Column -> Value], version : Seq(Nat)]
          /\ IsFiniteSet(t.rows) /\ KeysHold(t.rows, t.rel) /\ PlacesHold(t.rows)
    /\ MaxRequests \in Nat

VARIABLES grid,      \* ResultsState
          search,    \* the prompt of the search whose rows are fetched, or None
          active,    \* App.active_semantic: the job, or 0
          title,     \* semantic_title_column
          jobs,      \* rankings dispatched
          requests   \* things the user may still do

uiVars == <<grid, search, active, title, jobs>>
vars   == <<tableVars, op, workerVars, uiVars, requests>>

\* cancel_semantic_pipeline, in every request.
CancelPipeline ==
    /\ canceled' = canceled \cup {queue[i].id : i \in {k \in DOMAIN queue : queue[k].id = active}}
    /\ active' = 0

Sends(do, request) == op' = [request EXCEPT !.do = do, !.at = "start"]

Request ==
    /\ requests > 0
    /\ requests' = requests - 1
    /\ UNCHANGED <<tableVars, queue, work, cache, embedder, replies, grid, title, jobs>>

RunSql(s)    == Sends("run", [Idle EXCEPT !.statement = s])
SelectTop    == Sends("top", [Idle EXCEPT !.statement = SelectAll])

RunQueryByUser ==
    /\ Request
    /\ CancelPipeline
    /\ search' = None
    /\ SelectTop \/ \E s \in Statements : RunSql(s)

\* trigger_semantic_search
TriggerSemanticSearch ==
    /\ Request
    /\ CancelPipeline
    /\ \E prompt \in Prompts : search' = prompt
    /\ SelectTop

\* request_cancel; what the engine had done by then stays done.
RequestCancel ==
    /\ op # Idle \/ active # 0
    /\ Request
    /\ CancelPipeline
    /\ search' = None
    /\ op' = Idle

\* ResultsState::can_edit
CanEdit ==
    /\ grid.table
    /\ grid.rows # <<>>
    /\ \A i \in DOMAIN grid.rows : grid.identities[i] # NoIdentity
    /\ \A j \in DOMAIN grid.columns : grid.source[j] # None

Targets(do, i) ==
    [Idle EXCEPT !.do = do, !.at = "start", !.target = i,
                 !.identity = grid.identities[i], !.version = grid.versions[i]]

\* EditSession: what the user typed, or the null that Ctrl+N set.
Entered(v) == IF v = Null THEN "NULL" ELSE v

\* submit_results_edit, finish_edit: a value that the cell had when the edit began
\* is not sent (is_unchanged).  The answer of an earlier edit or of a row refresh
\* may have changed the cell since, so any value may be sent, the one shown too.
SubmitEdit ==
    /\ Request
    /\ CanEdit
    /\ op.do # "update"
    /\ CancelPipeline
    /\ search' = None
    /\ \E i \in DOMAIN grid.rows, j \in DOMAIN grid.columns, v \in Value :
          /\ op' = [Targets("update", i) EXCEPT !.column = grid.source[j], !.value = v,
                      !.cell = j, !.shown = grid.rows[i][j], !.null = grid.nulls[i][j]]

\* submit_row_delete
SubmitDelete ==
    /\ Request
    /\ CanEdit
    /\ op.do # "delete"
    /\ CancelPipeline
    /\ search' = None
    /\ \E i \in DOMAIN grid.rows : op' = Targets("delete", i)

\* The title column is changed in the settings.
ChooseTitle ==
    /\ requests > 0
    /\ requests' = requests - 1
    /\ title' \in TitleColumns \ {title}
    /\ UNCHANGED <<tableVars, op, workerVars, grid, search, active, jobs>>

(***************************************************************************)
(* Answers of the engine.                                                  *)
(***************************************************************************)
HandledWith(is, do) == op.at = "answered" /\ op.answer.is = is /\ op.do \in do
OnlyGrid   == UNCHANGED <<tableVars, queue, work, cache, embedder, replies, title, jobs, requests>>

\* handle_query_success
ShowRows ==
    /\ HandledWith("rows", Queries)
    /\ search = None
    /\ grid' = op.answer.result
    /\ op' = Idle
    /\ UNCHANGED <<canceled, active, search>>
    /\ OnlyGrid

\* dispatch_semantic_job
DispatchJob ==
    /\ HandledWith("rows", {"top"})
    /\ search # None
    /\ jobs' = jobs + 1
    /\ active' = jobs'
    /\ queue' = Append(queue, Job(jobs', op.answer.result, search, title))
    /\ search' = None
    /\ op' = Idle
    /\ UNCHANGED <<tableVars, canceled, work, cache, embedder, replies, grid, title, requests>>

\* refresh_results_after_mutation; no table of the name in the catalogue is no refresh.
RefreshAfter(context) ==
    \/ op' = Idle
    \/ grid.origin = "top" /\ SelectTop
    \/ grid.origin = "rerun" /\ RunSql(grid.sql)
    \/ grid.origin = "row" /\ context.identity # NoIdentity /\ op' = context

\* handle_update_success: apply_cell_update, update_row_identity
ApplyEdit ==
    /\ HandledWith("updated", {"update"})
    /\ LET i == op.target
           a == op.answer
       IN  /\ grid' = [grid EXCEPT !.rows[i][op.cell] = Entered(op.value), !.nulls[i][op.cell] = op.value = Null,
                                   !.identities[i] = a.identity, !.versions[i] = a.version]
           /\ RefreshAfter([Idle EXCEPT !.do = "refresh", !.at = "start", !.target = i, !.identity = a.identity])
    /\ CancelPipeline
    /\ UNCHANGED search
    /\ OnlyGrid

\* handle_delete_success: remove_row
ApplyDelete ==
    /\ HandledWith("deleted", {"delete"})
    /\ grid' = [grid EXCEPT !.rows = RemoveAt(@, op.target), !.nulls = RemoveAt(@, op.target),
                            !.identities = RemoveAt(@, op.target), !.versions = RemoveAt(@, op.target)]
    /\ RefreshAfter(Idle)
    /\ CancelPipeline
    /\ UNCHANGED search
    /\ OnlyGrid

\* handle_row_refresh_success: hydrate_row fills every cell from its source column.
HydrateRow ==
    /\ HandledWith("rows", {"refresh"})
    /\ LET i == op.target
           r == op.answer.result
           At1(list, j) == list[1][CHOOSE k \in DOMAIN r.columns : r.columns[k] = grid.source[j]]
       IN  grid' = [grid EXCEPT !.rows[i] = [j \in DOMAIN @ |-> At1(r.rows, j)],
                                !.nulls[i] = [j \in DOMAIN @ |-> At1(r.nulls, j)],
                                !.identities[i] = r.identities[1], !.versions[i] = r.versions[1]]
    /\ op' = Idle
    /\ UNCHANGED <<canceled, active, search>>
    /\ OnlyGrid

\* try_handle_error: the rows stay as they are.
HandleRefusal ==
    /\ op.at = "answered"
    /\ op.answer.is \in {"stale", "error"}
    /\ op' = Idle
    /\ search' = None
    /\ UNCHANGED <<grid, canceled, active>>
    /\ OnlyGrid

\* handle_semantic_response
PollSemantic ==
    /\ replies # <<>>
    /\ LET reply == Head(replies)
       IN  IF reply.id = active
           THEN /\ active' = 0
                /\ grid' = IF reply.is = "success" THEN reply.result ELSE grid
           ELSE UNCHANGED <<active, grid>>
    /\ replies' = Tail(replies)
    /\ UNCHANGED <<tableVars, op, queue, canceled, work, cache, embedder, search, title, jobs, requests>>

-----------------------------------------------------------------------------
User ==
    \/ RunQueryByUser \/ TriggerSemanticSearch \/ RequestCancel
    \/ SubmitEdit \/ SubmitDelete \/ ChooseTitle

Handle ==
    \/ ShowRows \/ DispatchJob \/ ApplyEdit \/ ApplyDelete \/ HydrateRow \/ HandleRefusal

Init ==
    /\ \E t \in Tables : rel = t.rel /\ rows = t.rows
    /\ clock = 2
    /\ others = MaxOthers
    /\ op = Idle
    /\ WorkerInit
    /\ grid = EmptyResult
    /\ search = None
    /\ active = 0
    /\ title = None
    /\ jobs = 0
    /\ requests = MaxRequests

Next ==
    \/ Engine /\ UNCHANGED <<workerVars, uiVars, requests>>
    \/ Worker /\ UNCHANGED <<tableVars, op, uiVars, requests>>
    \/ OtherSession /\ UNCHANGED <<workerVars, uiVars, requests>>
    \/ User
    \/ Handle
    \/ PollSemantic

Spec == Init /\ [][Next]_vars

(***************************************************************************)
(* Properties.                                                             *)
(***************************************************************************)
Ran(do) == op.at = "statement" /\ op'.at = "answered" /\ op.do \in do

(***************************************************************************)
(* Whatever other sessions do between the result that showed a row and the *)
(* statement that edits or deletes it, the statement changes one row, in   *)
(* the version that the grid shows, and the cell whose text the user       *)
(* replaced; an edit that is refused as stale has changed nothing          *)
(* (identity_predicate, finish_edit, hydrate_row, subset_result).          *)
(*                                                                         *)
(* The version and the cell are those shown only if the row was read by    *)
(* the key that the table had: the plan is looked up before the query, in  *)
(* a transaction of its own.  When the key changes between the two and is  *)
(* restored later, two rows of one transaction may share the old one.      *)
(***************************************************************************)
ShowedCell(r) ==
    op.version.typed \/ <<op.shown, op.null>> = <<Display(op.column, r.cells[op.column]), r.cells[op.column] = Null>>

MutationHitsShownRow ==
    [][ /\ Ran(Mutations) /\ rows' # rows =>
             \E r \in rows :
                /\ rows \ rows' = {r}
                /\ op.version.keyed => r.version = op.version.of
                /\ IF op.do = "delete" THEN rows' \subseteq rows
                   ELSE /\ op.version.keyed => ShowedCell(r)
                        /\ \E n \in rows' : /\ rows' \ rows = {n}
                                            /\ n.cells = [r.cells EXCEPT ![op.column] = op.value]
        /\ Ran(Mutations) /\ op'.answer.is \in {"updated", "deleted"} => rows' # rows
        /\ op'.answer.is = "stale" /\ op.at # "answered" => UNCHANGED rows ]_vars

(***************************************************************************)
(* A ranking that succeeds is the one that its rows give with no cache,    *)
(* whatever was cached by rankings of other rows, prompts or titles, that  *)
(* were canceled half way, failed or panicked (embeddings_for, rank_rows). *)
(***************************************************************************)
RankingIsExact ==
    [][ \A i \in DOMAIN replies' \ DOMAIN replies :
          replies'[i].is = "success" => replies'[i].result = Expected(Current) ]_vars
=============================================================================
