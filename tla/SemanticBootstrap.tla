------------------------- MODULE SemanticBootstrap -------------------------
(***************************************************************************)
(* The semantic bootstrap coordinator (crates/ui/src/semantic_bootstrap.rs)*)
(* with its callers: a session opens, switches the semantic runtime in     *)
(* Settings and closes (semantic_runtime/bootstrap.rs, app/settings.rs,    *)
(* lib.rs), while one shared task prepares the runtime (Preparation) and   *)
(* tells every session that waits for it. Sessions follow one another in a *)
(* process, and processes follow one another.                              *)
(*                                                                         *)
(* A channel is what one attachment to the coordinator gets: its events,   *)
(* and the semantic worker that the Ready event hands over.                *)
(***************************************************************************)
EXTENDS Integers, Sequences, FiniteSets, Preparation

CONSTANTS
    MaxChannels,  \* bound on the attachments
    HasGpu        \* the platform has DirectML

ASSUME MaxChannelsAssumption == MaxChannels \in Nat \ {0}
ASSUME HasGpuAssumption == HasGpu \in BOOLEAN

VARIABLES
    setting,   \* the persisted preference
    entry,     \* SharedBootstrapEntry, and the status that the forwarder holds
    telling,   \* what broadcast_ready or broadcast_failed has yet to tell to whom
    app,       \* the open session
    channel,   \* per channel: receiver, queue, worker
    attached   \* how many channels there were

bootstrapVars == <<setting, entry, telling, app, channel, attached>>
vars == <<phase, bootstrapVars>>

Enabled == {"auto", "cpu", "gpu"}
Channel == 1 .. MaxChannels
Final == {"ready", "failed"}
NoEntry == [state |-> "none", preference |-> "cpu", subscribers |-> {}, status |-> FALSE]
NoApp == [open |-> FALSE, attaching |-> "no", events |-> 0, tx |-> 0, panel |-> "disabled"]
Nothing == [c \in Channel |-> "nothing"]
Unused == [open |-> FALSE, queue |-> <<>>, session |-> FALSE, worker |-> "none"]

BootstrapTypeOK ==
    /\ phase \in Phase
    /\ setting \in Enabled \union {"off"}
    /\ entry \in [state : {"none", "loading", "ready", "failed"}, preference : Enabled,
                  subscribers : SUBSET Channel, status : BOOLEAN]
    /\ telling \in [Channel -> Final \union {"nothing"}]
    /\ app \in [open : BOOLEAN, attaching : {"no", "find", "entry"}, events : 0 .. MaxChannels,
                tx : 0 .. MaxChannels, panel : {"loading", "ready", "disabled"}]
    /\ channel \in [Channel -> [open : BOOLEAN, queue : Seq(Final \union {"status"}),
                                session : BOOLEAN,
                                worker : {"none", "unlisted", "listed", "ended"}]]
    /\ attached \in 0 .. MaxChannels

Init ==
    /\ PreparationInit
    /\ setting \in Enabled \union {"off"}
    /\ entry = NoEntry /\ telling = Nothing
    /\ app = NoApp
    /\ channel = [c \in Channel |-> Unused]
    /\ attached = 0

-----------------------------------------------------------------------------
(* The session attaches. *)

\* has_different_enabled_preference
Different(preference) == entry.state # "none" /\ entry.preference # preference

\* initial_runtime_label
Unavailable(preference) == preference = "gpu" /\ ~HasGpu

\* The receiver and what it holds go; so does the sender in a Ready event.
Dropped(c) == IF c = 0 THEN channel
              ELSE [channel EXCEPT ![c].open = FALSE, ![c].queue = <<>>]

\* init_semantic_runtime up to attach: off, restart poqi, no such backend,
\* or a new channel whose receiver the session holds.
InitSemanticRuntime(preference) ==
    IF preference = "off" \/ Different(preference) \/ Unavailable(preference)
    THEN /\ app' = [NoApp EXCEPT !.open = TRUE]
         /\ UNCHANGED <<channel, attached>>
    ELSE /\ attached < MaxChannels
         /\ attached' = attached + 1
         /\ app' = [NoApp EXCEPT !.open = TRUE, !.attaching = "find",
                                 !.events = attached', !.panel = "loading"]
         /\ channel' = [channel EXCEPT ![attached'] = [Unused EXCEPT !.open = TRUE, !.session = TRUE]]

\* bootstrap_app
OpenSession ==
    /\ ~app.open
    /\ InitSemanticRuntime(setting)
    /\ UNCHANGED <<phase, setting, entry, telling>>

\* Mutant: the worker's command channel is kept.
DisableKeepingWorker ==
    /\ app' = [NoApp EXCEPT !.open = TRUE, !.tx = app.tx]
    /\ channel' = Dropped(app.events)
    /\ UNCHANGED attached

\* The command channel, the receiver and the panel, all at once.
DisableSemanticRuntime ==
    /\ app' = [NoApp EXCEPT !.open = TRUE]
    /\ channel' = Dropped(app.events)
    /\ UNCHANGED attached

\* finish_semantic_runtime_update: a running backend is never replaced.
FinishUpdate(preference) ==
    \/ preference = "off" /\ DisableSemanticRuntime
    \/ /\ preference # "off" /\ setting = "off" /\ ~Different(preference)
       /\ InitSemanticRuntime(preference)
    \/ /\ preference # "off" /\ (setting # "off" \/ Different(preference))
       /\ UNCHANGED <<app, channel, attached>>

\* save_settings
SaveRuntime(preference) ==
    /\ app.open /\ app.attaching = "no"
    /\ preference # setting
    /\ setting' = preference
    /\ FinishUpdate(preference)
    /\ UNCHANGED <<phase, entry, telling>>

\* attach, under the lock of the map: a failed entry is replaced.
AttachFind ==
    /\ app.attaching = "find"
    /\ app' = [app EXCEPT !.attaching = "entry"]
    /\ \/ /\ entry.state \in {"none", "failed"}
          /\ StartPreparation
          /\ entry' = [NoEntry EXCEPT !.state = "loading", !.preference = setting]
       \/ /\ entry.state \in {"loading", "ready"}
          /\ UNCHANGED <<phase, entry>>
    /\ UNCHANGED <<setting, telling, channel, attached>>

\* Only the last of several statuses is of interest.
Send(queue, event) ==
    IF event = "status" /\ queue # <<>> /\ queue[Len(queue)] = "status"
    THEN queue ELSE Append(queue, event)

\* send_ready_to_session: a worker of its own for the session
ReadySent(c, worker) ==
    [channel EXCEPT ![c].queue = IF channel[c].open THEN Send(@, "ready") ELSE @,
                    ![c].worker = IF channel[c].open THEN worker ELSE "ended"]

\* Mutant: subscribed without a look at what the entry has become
SubscribeAnyway ==
    /\ app.attaching = "entry"
    /\ app' = [app EXCEPT !.attaching = "no"]
    /\ entry' = [entry EXCEPT !.subscribers = @ \union {app.events}]
    /\ UNCHANGED <<phase, setting, telling, channel, attached>>

\* attach_to_entry, under the lock of the entry: what it became meanwhile
AttachEntry ==
    /\ app.attaching = "entry"
    /\ app' = [app EXCEPT !.attaching = "no"]
    /\ \/ /\ entry.state = "loading"
          /\ entry' = [entry EXCEPT !.subscribers = @ \union {app.events}]
          /\ channel' = [channel EXCEPT ![app.events].queue = Send(@, "status")]
       \/ /\ entry.state = "ready"
          /\ channel' = ReadySent(app.events, "listed")
          /\ UNCHANGED entry
       \/ /\ entry.state = "failed"
          /\ channel' = [channel EXCEPT ![app.events].queue = Send(@, "failed")]
          /\ UNCHANGED entry
    /\ UNCHANGED <<phase, setting, telling, attached>>

-----------------------------------------------------------------------------
(* The shared task. *)

\* prepare_semantic_runtime: a status on the channel of the forwarder
ReportStatus ==
    /\ phase = "working"
    /\ entry' = [entry EXCEPT !.status = TRUE]
    /\ UNCHANGED <<phase, setting, telling, app, channel, attached>>

\* prepare_semantic_runtime returns
PrepareEnds ==
    /\ EndPreparation
    /\ UNCHANGED bootstrapVars

\* broadcast_status drops the subscribers whose receiver is gone.
ForwardStatus ==
    /\ entry.status
    /\ LET alive == {c \in entry.subscribers : channel[c].open} IN
       /\ entry' = [entry EXCEPT !.status = FALSE, !.subscribers = alive]
       /\ channel' = [c \in Channel |-> IF c \in alive
                        THEN [channel[c] EXCEPT !.queue = Send(@, "status")] ELSE channel[c]]
    /\ UNCHANGED <<phase, setting, telling, app, attached>>

\* Mutant: the preparation is not awaited.
FinishAtOnce ==
    /\ entry.state = "loading" /\ ~entry.status
    /\ entry' = [entry EXCEPT !.state = phase, !.subscribers = {}]
    /\ telling' = [c \in Channel |-> IF c \in entry.subscribers THEN phase ELSE telling[c]]
    /\ UNCHANGED <<phase, setting, app, channel, attached>>

\* Mutant: the subscribers are told but stay in the entry.
FinishKeeping ==
    /\ entry.state = "loading" /\ phase \in Final /\ ~entry.status
    /\ entry' = [entry EXCEPT !.state = phase]
    /\ telling' = [c \in Channel |-> IF c \in entry.subscribers THEN phase ELSE telling[c]]
    /\ UNCHANGED <<phase, setting, app, channel, attached>>

\* The end of the task, once the forwarder has ended: broadcast_ready and
\* broadcast_failed, up to the subscribers that they take.
Finish ==
    /\ entry.state = "loading"
    /\ phase \in Final
    /\ ~entry.status
    /\ entry' = [entry EXCEPT !.state = phase, !.subscribers = {}]
    /\ telling' = [c \in Channel |-> IF c \in entry.subscribers THEN phase ELSE telling[c]]
    /\ UNCHANGED <<phase, setting, app, channel, attached>>

\* The rest of broadcast_ready and broadcast_failed, for one subscriber. A
\* worker whose session dropped its receiver is aborted.
TellSubscriber(c) ==
    /\ telling[c] # "nothing"
    /\ telling' = [telling EXCEPT ![c] = "nothing"]
    /\ channel' = IF telling[c] = "ready" THEN ReadySent(c, "unlisted")
                  ELSE [channel EXCEPT ![c].queue = IF channel[c].open THEN Send(@, "failed") ELSE @]
    /\ UNCHANGED <<phase, setting, entry, app, attached>>

\* session_handles.lock().push(worker_handle)
ListWorker(c) ==
    /\ channel[c].worker = "unlisted"
    /\ channel' = [channel EXCEPT ![c].worker = "listed"]
    /\ UNCHANGED <<phase, setting, entry, telling, app, attached>>

\* Nobody holds the worker's command channel: not the session, and not a
\* Ready event that waits for it.
WorkerEnds(c) ==
    /\ channel[c].worker \in {"unlisted", "listed"}
    /\ app.tx # c /\ channel[c].queue = <<>>
    /\ channel' = [channel EXCEPT ![c].worker = "ended"]
    /\ UNCHANGED <<phase, setting, entry, telling, app, attached>>

-----------------------------------------------------------------------------
(* The session takes its events, and ends. *)

\* poll_semantic_bootstrap, one event at a time
Poll ==
    /\ app.open /\ app.attaching = "no"
    /\ app.events # 0
    /\ LET c == app.events
           event == Head(channel[c].queue)
       IN  /\ channel[c].queue # <<>>
           /\ \/ /\ event = "status"
                 /\ app' = [app EXCEPT !.panel = "loading"]
                 /\ channel' = [channel EXCEPT ![c].queue = Tail(@)]
              \/ /\ event = "ready"
                 /\ app' = [app EXCEPT !.panel = "ready", !.tx = c, !.events = 0]
                 /\ channel' = Dropped(c)
              \/ /\ event = "failed"
                 /\ app' = [NoApp EXCEPT !.open = TRUE]
                 /\ channel' = Dropped(c)
    /\ UNCHANGED <<phase, setting, entry, telling, attached>>

\* run_app: the app is dropped, then the listed workers are aborted and awaited.
CloseSession ==
    /\ app.open /\ app.attaching = "no"
    /\ app' = NoApp
    /\ channel' = [c \in Channel |->
         [Dropped(app.events)[c] EXCEPT
            !.session = FALSE,
            !.worker = IF channel[c].session /\ @ = "listed" THEN "ended" ELSE @]]
    /\ UNCHANGED <<phase, setting, entry, telling, attached>>

\* The program exits, or is killed: only the files and the setting stay.
ProcessEnds ==
    /\ attached > 0
    /\ KillPreparation
    /\ entry' = NoEntry /\ telling' = Nothing /\ app' = NoApp
    /\ channel' = [c \in Channel |-> Unused]
    /\ UNCHANGED <<setting, attached>>

Next ==
    \/ OpenSession \/ CloseSession \/ AttachFind \/ AttachEntry \/ Poll
    \/ \E preference \in Enabled \union {"off"} : SaveRuntime(preference)
    \/ ReportStatus \/ PrepareEnds \/ ForwardStatus \/ Finish
    \/ \E c \in Channel : TellSubscriber(c) \/ ListWorker(c) \/ WorkerEnds(c)
    \/ ProcessEnds

\* The runtime runs its tasks, the UI loop polls, and attach returns.
Fairness ==
    /\ WF_vars(PrepareEnds) /\ WF_vars(ForwardStatus) /\ WF_vars(Finish)
    /\ WF_vars(AttachFind) /\ WF_vars(AttachEntry) /\ WF_vars(Poll)
    /\ \A c \in Channel : WF_vars(TellSubscriber(c))

Spec == Init /\ [][Next]_vars /\ Fairness

-----------------------------------------------------------------------------
(* Properties. *)

\* A session is told Ready or Failed at most once, and after every status: the
\* task awaits the forwarder before it broadcasts, and an attachment that
\* finds the entry finished is not among the subscribers the task took.
FinalEventIsLast ==
    \A c \in Channel :
        \A i \in 1 .. Len(channel[c].queue) :
            channel[c].queue[i] \in Final =>
                /\ i = Len(channel[c].queue)
                /\ telling[c] = "nothing" /\ c \notin entry.subscribers

\* The panel says ready exactly when the session holds a worker that runs.
PanelTellsTruth ==
    app.open =>
        /\ (app.panel = "ready") <=> (app.tx # 0)
        /\ app.tx # 0 => channel[app.tx].worker \in {"unlisted", "listed"}

\* A session that waits for the runtime does not wait for ever: every subscriber is
\* told, also one that attached while the task was finishing or after an
\* attachment of another session whose receiver is gone.
LoadingEnds ==
    \A c \in Channel : (app.events = c) ~> (app.events # c)
=============================================================================
