# A formal model of poqi

poqi is a terminal client for PostgreSQL. This directory holds TLA+ modules
that model the parts of it where order, failure and timing matter, the TLC
configurations that check them on small instances, and proofs, checked by TLAPS,
that the properties that matter most hold for instances of every size.

Every definition is translated from the source; `PROJECT.json` maps each to its
lines. Paths below are relative to `crates/` of the repository.

To check a run: `tlc -config MCCancellation.cfg MCCancellation`, and likewise for
the others. To check the proofs: `tlapm CancellationProofs.tla`, and likewise for
each module whose name ends in `Proofs`; `StartupProofs` and `RowsProofs` take about five
minutes each, `SqlEditorProofs` ten.

## 1. The system

Two threads of control matter most: the **event loop** (keys, mouse, a tick every
few milliseconds; all state of the interface is its own, no locks) and the
**engine worker**, a tokio task that owns the database connections. They are
joined by two unbounded FIFO channels, `EngineCommand` and `EngineResponse`. A
third party, the **semantic worker**, ranks rows; it is joined to the event loop by
channels of its own, and fed by a **bootstrap coordinator** that downloads and
loads models in the background and is shared by the sessions of a process.

| Component | State | Operations | What is hard | What makes it correct |
| --- | --- | --- | --- | --- |
| Cancelable operations, `db/src/{cancellation,client,database}.rs` | registry with one slot, a guard per operation, the pool | begin, acquire, activate, run, finish, drop, cancel_current | a cancel request names a backend, not a statement, and arrives whenever it likes; futures dropped at any await; lost connections | a late cancel request never kills another operation's statement; no client is lost; what the caller is told is true |
| Engine worker, `ui/src/engine_worker.rs` | the active task, the interrupting command, deadlines | receive, serve, cancel, settle, abort, stop | the task ends while it is being canceled; `abort()` races completion; the server never answers; the channel closes | one operation at a time; one answer per request, in order and true; interruption and shutdown end |
| Database engine, `engine/src` | none between requests | SQL, preview, update, delete, row and catalogue refresh | a request is several transactions; identity of a row read before it is used | a mutation changes the row that was shown, in that version, or nothing |
| Requests of the interface, `ui/src/app/requests` | ids, the one tracked request | send, handle each kind of answer | answers to replaced requests; follow-up requests sent from an answer | only the newest request may change what is shown, but what older ones did is not forgotten |
| Catalogue refresh, `ui/src/app/catalog_refresh.rs` | pending, delay, last request | mark, send on an idle tick, done, failed, canceled | it shares the request slot, where everything cancels it | no change of the catalogue is forgotten; it interrupts nobody |
| Results grid, `ui/src/state/results_state`, `ui/src/app/results_mutation` | rows, identities, focus, edit session, armed delete | show, move, edit, arm, delete, remove, hydrate | answers carry the index of a row in a grid that may have changed | an answer meets its row; the row that is deleted is the one that was armed |
| Semantic search, `ui/src/app/semantic` | the fetch (a request), the ranking (a job of the worker) | search, cancel, rank, show, switch off | two stages in two workers, canceled separately | an old ranking never replaces newer rows |
| Semantic bootstrap, `ui/src/{semantic_bootstrap.rs,semantic_runtime}` | one shared entry, subscribers, workers | attach, ready, failed, switch, shutdown | attach during completion; sessions that leave while it loads | every session is told once, last |
| Download, `ui/src/runtime` | partial file, final file | resume, verify, publish, retry | crash in mid-transfer; the asset changes; 416 | what is published has the right checksum |
| Semantic worker, `ui/src/semantic_worker`, `search/semantic` | embedding cache | rank, cancel between batches | the cache travels into a blocking job | a ranking is the one its rows give without a cache |
| Encrypted store, `store/src` | metadata, key in the system's key store, rows | open, create key, read, write | a crash between the key and the transaction; two processes | a store always finds its key |
| Configuration, `config/src` | config.toml, then the store | import, hydrate, scrub, save | a crash between SQLite and the file; two processes that start | the primary connection is never lost |
| Start menu and connection, `app/src` | profiles, attempts | choose, connect, save, delete, return | the menu's list is read once, and saved to after the connection | a profile changes only when its user edited it, and only after it connected |
| Completion, `search/completion` | catalogue snapshot | suggest | text and heuristics, no state | covered by unit tests |
| Editor and input, `ui/src/state`, `ui/src/app/{editor.rs,key_handling,mouse}` | text, cursor, selection, popup, borrowed overlay | edit, complete, paste, click, show and clear overlay | byte offsets in UTF-8; the overlay borrows the editor | an edit replaces the selection and nothing else; the user's text is never lost |
| Fuzzy, ranker, catalogue crawl, view, theme, diagnostics, tools, website | none that matters | pure functions, rendering, set-up | | |

Interactions, in one line each: a key makes a command with a new id (call, then
channel); any command that arrives while a task runs cancels that task first; the
answer is handled by id on a later tick and may send another command (refetch, row
refresh) from its handler; a tick without an outstanding request may send a
catalogue refresh; the answer to a search feeds the semantic worker; the worker
and the pool share the registry through the guard of the operation.

## 2. The modules

| Module | What it is | Extends |
| --- | --- | --- |
| `Cancellation` | the cancelable pool: registry, guards, clients, an external pool and server | |
| `EngineWorker` | the worker and its tasks over the pool, and the interface as its environment | `Cancellation` |
| `SingleFlight` | what the worker promises: requests answered one at a time, in order, truthfully | |
| `UiSession` | a session of the interface over `SingleFlight` | `SingleFlight` |
| `Preparation` | what preparing the semantic runtime promises: it ends, ready or failed | |
| `AssetDownload` | the preparation on disk: packages, models, resume, verify, publish, load | |
| `SemanticBootstrap` | the coordinator that shares one preparation among sessions | `Preparation` |
| `RowQueries` | statements, hidden columns, what a cell shows | |
| `RowIdentity` | the engine's operations on a table that other sessions change | `RowQueries` |
| `SemanticRanking` | the semantic worker and its cache | `RowQueries` |
| `Rows` | the grid over both: search, edit, delete, hydrate | `RowIdentity`, `SemanticRanking` |
| `ConnectionPlan` | what a connection string says before it is dialled: modes, files, errors | |
| `EncryptedStore` | the SQLite file, the keyring and their transactions | |
| `Startup` | processes from start to end: configuration, menu, connection, saving | `EncryptedStore`, `ConnectionPlan` |
| `TextInput` | the text buffer over bytes of UTF-8 | |
| `SqlEditor` | the text panels: keys, mouse, popup, preview | `TextInput` |
| `CancellationProofs`, `EngineWorkerProofs`, `UiSessionProofs`, `AssetDownloadProofs`, `SemanticBootstrapProofs`, `StartupProofs`, `RowsProofs`, `SqlEditorProofs` | theorems | the module of that name, `TLAPS` |
| `MC*` | instances for TLC | the module of that name |

The composition is by layers. `EngineWorker` extends `Cancellation`: worker and pool
step together, and a theorem says that every behaviour of the worker is a
behaviour of the pool, so everything proved of the pool holds under the worker.
`EngineWorker` implements `SingleFlight` (`ImplementsSingleFlight`, an instance with a
refinement mapping: the served request is the worker's active one, applied are the
requests with a committed statement). `UiSession` is then written against
`SingleFlight` alone. `AssetDownload` implements `Preparation`, over which
`SemanticBootstrap` is written. `Rows` and `Startup` compose by interleaving: each
extends its parts and adds the actions in which they meet.

### Cancellation

An operation (`with_client`) is a *generation*. Its stages are the points between
awaits: `acquiring` (`pool.get().await`), `acquired`, `active` (token known, transaction
under way), and how it ended (`ok`, `failed`, `canceled`, `lost`, `dropped`). `registered`
is the registry's slot; `connection` says where each physical connection is;
`server` is what PostgreSQL is doing for the generation; `inFlight` are cancel
requests on their way, which may arrive at any later time or never, and meet
whatever their backend is doing then. `Begin`, `Acquire`, `Activate`, `RefuseActivation`,
`SendStatement`, `SendCommit`, `Finish`, `Drop`, `MarkCanceled`, `WriteCancel`, `EndCancel`
are the code's critical sections and awaits; `ServerStep`, `CancelArrives`,
`LoseConnection` are external, modelled from how the code uses them.

Two deliberate simplifications. `begin` takes its number with `fetch_add` and then
writes the slot under a lock: one step here, because poqi never begins two
operations at the same time (`OneOpenOperation`, proved of the worker). The
reconnect after a failed acquisition and the opening of connections (TLS modes)
are left out; a failed acquisition is `FailAcquire`.

### EngineWorker

`worker.pc` is where the worker's future is suspended: `receive`, `serve` (select over
task and channel), `cancel` (`cancel_active_task_with`), `settle`, `abort`, `stopped`.
The cancel call is a future the worker polls: marking, writing and ending are steps
of their own, interleaved with the task. A task is a sequence of operations,
look-ups first and then the statement, which may find a stale row; it may also
refuse, or panic. The four kinds of task differ only in the payload of the answer
and are one. The interface is an environment that sends requests and cancel
commands at any time and closes the channel at shutdown.

### UiSession

`tracker` is `RequestTracker.active`; `refresh` is `CatalogRefresh`; `ranking` is
`active_semantic`; `rankings` what the semantic worker has not answered; `grid` is the
part of `ResultsState` that mutations depend on; `previewed` is a history variable:
the identity that the last first press of Delete previewed. `requests` remembers what every request asked
for. One action per user operation, per tick handler and per kind of answer.
`poll_engine` handles all the answers that have arrived in one tick; here each is a
step, which only adds interleavings: an answer may always have come a tick later.
Row identities are a row and a revision (as fetched, or as update *r* left it), since
what the properties tell apart is whose row it is and whether it is the version
that was seen. The text of the SQL editor is in `SqlEditor`, columns, values and the
details of a grid that is replaced in `Rows`; the status line is left out.

### AssetDownload

`job` is the future of `prepare_semantic_runtime`: `pc` is the await it stands at, `todo` the
packages or assets of the stage, `backend` the candidate that is tried. `disk.part` are
the archives and `*.download` files, `disk.final` what is published. A file is a number
of blocks and whether they are the first blocks of the pinned file, so that short,
long and altered files differ, and a checksum is equality with `Pinned`. The server
answers anything that HTTP allows (`Respond`: full or partial, any range and length,
any bytes), the job plans, appends and cuts as the code does; `ArchiveRangeRejected` and
`AssetRangeRejected` are the two handlings of 416; `Die` leaves the files; `Damage` is
somebody else at the directory while nothing prepares. A preparation that meets no
fault of its own (`Behaves(TRUE)`, an honest server) is *not excused*. Left out: the names
and bytes inside an archive, redirects and their hosts, two processes at once.

### SemanticBootstrap

`entry` is the one `SharedBootstrapEntry`; a *channel* is what one call of `attach` gets, with
its queue of events and the worker that Ready hands over. `AttachFind` and `AttachEntry`
are the two critical sections of `attach`; `PrepareEnds`, `ForwardStatus`, `Finish` and
`TellSubscriber` are the shared task, which takes the subscribers under the lock and tells
them after; `ListWorker` and `WorkerEnds` the workers' handles. Sessions open, switch the
setting (`SaveRuntime`), poll and close; the process may end.

### Rows: RowQueries, RowIdentity, SemanticRanking

`RowQueries` has what decides whether a result may be edited: the clauses of a statement,
its targets, the hidden columns (`tableoid`, `ctid`, `xmin` and the key), and what a cell shows
of a value, a null, a value that its decoder refuses (`Opaque`), and anything in a column whose
type has no decoder (`Undecodable`: a null looks the same there, and only the mask tells). The
type of a key in an identity is the one that its statement answered, not that of the plan. A statement is a record of what
`pg_query` reports of it.

`RowIdentity` has one relation, plain or partitioned or with children, whose rows have a
place (`ctid`), a transaction (`xmin`) and a version. `op` is the engine's operation, which
looks up the key, stops between the two transactions, and runs its statement. Between
any two steps another session may update, delete, insert, move rows, vacuum, change
the key or create the table anew. Each operation is translated with its predicate
(`SameKey`, `identity_predicate`), its check that exactly one row was hit, and its refusals.
What a result says of its rows has a `version` of each that the code does not have: the
version that was read, whether the user has typed into the row since, and whether the
key it was read by was still the table's (`keyed`; see Findings).

`SemanticRanking` has the queue of the worker and the blocking job: it takes the entry of
its data set out of the cache, embeds batch by batch, looks at the cancel flag between
two, and gives the entry back with the answer. A failed batch, a panic and the change
of DirectML to the CPU do to the cache what the code does. The neural network is the
constant `Score`.

`Rows` is the grid between them: run, search, edit, delete, hydrate, choose a title column.
A new request drops the one before (how requests replace each other is in `UiSession`).
The edit session is in `UiSession`; `SubmitEdit` here is its end, and may send any value: the
code drops one that the cell had when the edit began, which the grid may no longer show.
Left out: casts that change the text of a literal, renamed columns, privileges of
columns, progress messages.

### Startup: ConnectionPlan, EncryptedStore

`ConnectionPlan` is pure: which errors and which mode of TLS a string leads to, whether
it is a URL, several hosts (which the `url` crate cannot parse), or keywords.

In `EncryptedStore` every call opens its own connection: the schema, then an immediate
transaction that validates what is encrypted; a call that encrypts runs a second one,
in which the key comes from the process's cache, the keyring, or is created. The
keyring is not transactional: `made` keys stay after a transaction that died. A row is
a value and the key it is under.

A process of `Startup` is a *program*: the sequence of store and file calls that it
still has to make, computed at the points where the code branches. So a death
between two calls is `Die` and nothing else. The user chooses from the menu, edits,
deletes, connects, saves a setting, goes back; the database answers as it likes.

### SqlEditor: TextInput

`TextInput` is the buffer: lines of bytes, a wide character being its letter and `More`.
An operation that cuts a string inside a character panics in Rust, here `ok` turns false
and the session is over. `SqlEditor` adds one action per key, click and drag, the popup,
and the preview (`EditorOverlay`) that edits and deletes of the grid show in the editor;
`own` is a history variable: the text the user left there. What the completion service
offers (names, keywords and snippets of one line) and what the engine answers is arbitrary.
The two text panels share only the type, so a behaviour follows one of them. `MAX_QUERY_LEN`
is `Limit`, the indent of four is `IndentWidth`, and `Marks` are the punctuation marks that an
instance can type.

A completion replaces a *component* of the cursor's line. `Scan` goes over the line as
`identifier_components` does and says of each byte whether it stands in a word, in a quoted
component, or at the end of one; `Parts` forgets the difference of the last two, and
`Component` is the run of one part around a byte. A doubled quote closes and opens again and so
stays inside, and a quote that nothing closes runs to the end of the line. `InsertCompletion`
has both branches of `insert_completion_text`: a keyword at the end of a closed quoted
identifier (`AfterClosedQuote`) follows it after a space, everything else replaces. Like the
code, it knows nothing of strings, comments and identifiers that go on over lines (see
Findings). Left out: wrapped lines and scrolling (a visual row is a line), page keys, the panel
selector, keys during a drag.

## 3. The runs

| Run | Instance | Shows | States |
| --- | --- | --- | --- |
| `cancellation` | `DbSpec`, 3 operations at once, 2 connections, pool of 2 | late cancel requests, lost connections, drops: 6 properties | 2.2 million |
| `worker` | 2 requests, 2 operations, 2 connections, pool of 1 | interruption by the next request and by shutdown; refinement of `SingleFlight` | 1.3 million |
| `worker_liveness` | 2 requests, 1 cancel command, 1 operation | interrupted requests are answered, shutdown completes | 116 thousand |
| `worker_lookup` | 1 request of two operations, 1 cancel command | violated: see Findings | |
| `session` | 3 requests of the user and 2 of the interface; query, preview, search, cancel, switch off; fair | tracker, catalogue refresh (also that it is sent in the end), what is shown | 1.4 million |
| `session_grid` | 3 + 1 requests, 2 rows; query, search, edit, delete, move | mutations and deletes meet their row | 3.7 million |
| `session_preview` | 1 row | violated: see Findings | |
| `download` | files of 2 blocks, limit of 3, 2 preparations, 1 with faults, DirectML | what is loaded verifies; leftovers do no harm; refinement of `Preparation` | 267 thousand |
| `bootstrap` | 3 attachments, DirectML | told once and last; the panel is true; loading ends | 21 thousand |
| `startup` | 2 processes, 3 starts, 3 acts of users, 2 profiles, 2 strings, 2 keys | the store opens again; primary connection and profiles are kept | 0.9 million |
| `rows` | 2 columns, 2 rows, plain or partitioned, 1 transaction of others, 3 requests | mutations hit the row that was shown; rankings are exact | 2.6 million |
| `editor` | 4 bytes in 3 lines, one wide letter, the space and the quote, limit 3 | edits replace the selection, a completion the component at the cursor or it follows a quoted one; the user's text comes back | 55 thousand |

Why the bounds are enough to be interesting. Three generations: one that is
canceled, one that gets (or must not get) its connection, and one that began in
between and took the registry's slot. Two connections in a pool of two: reuse and a
fresh connection. Two requests: the second interrupts the first, follows it, and is
itself ended by shutdown; a cancel command is the same interruption with nothing
to follow and is in the liveness and the look-up runs. In `UiSession` a query, a
search and a mutation are three requests, and the one that remains is a refetch or
a refresh sent by the interface itself; two rows are needed for an index to point
at the wrong one. `MaxUserRequest` keeps a request free for what an answer sends:
a behaviour that runs out of numbers is one in which nothing more is sent.

Two blocks make a file that can be cut, and three one that is too long; the second
preparation finds what the first, which may meet faults or die, left behind. Three
attachments: one that starts the task, one that joins it, one that comes after it
finished or after a session left. Three starts of two processes: two that run
together and one that follows a death. `Startup` begins with a new store or one in
use, so that three acts reach conflicts. In `rows` one
transaction of another session may come at any point; the places of a table are three,
so that a place is used again; the cells are a text, the text `NULL`, and a null, since
those are the ones a careless key confuses; the second column is one that the engine
cannot show. In `editor` four bytes are a wide
character with a line break beside it, two line breaks, a wide identifier between quotes, a
doubled quote in one, or an open one after a word or a space; what longer texts add is left
to the proofs. A batch of
completions is empty or has a table, after which the popup opens again, and a keyword. A text that a
preview hides has one byte (`MaxHeld`): empty, a space, or a line break.

`CHECK_DEADLOCK FALSE` everywhere: a worker that has stopped, a pool nobody uses and
a user who does nothing more are proper ends. Symmetry (connections, rows) is used
in the runs of safety properties only.

Fairness. The worker and its timers are scheduled by tokio (`EngineWorker`, `Fairness`),
and code between two awaits runs to the next await. Nothing at all is assumed of the
server, the network or a task's duration: the deadline exists because they may hang.
In `UiSession` the event loop ticks, the clock runs and the engine answers in the
end; the last is an assumption on the server, which enforces the statement timeout
that each transaction sets (`engine/src/transactions.rs`) and must be reachable. The
user is never fair. In `AssetDownload` the job is fair, for connect, read and transfer
deadlines bound its every wait; in `SemanticBootstrap` the task, its forwarder, attach and
the poll of the event loop are; that the preparation ends is what `AssetDownload`
shows. Sessions, settings and processes are not.

The types of the pool are checked in `worker`: its `TypeOK` includes `DbTypeOK`.

`PendingRefreshIsSent` allows for the instance to run out of requests, which the
liveness run leaves the interface two more of than the user can take.

Each property has a mutant, defined in its module beside the definition it stands
for ("Mutant: ..."): a plausible bug of that code, with which TLC finds the property
violated.

## 4. Findings

* **A cancellation stops at the operation it met** (`worker_lookup`;
  `ui/src/engine_worker.rs:204`). The architecture document says that cancellation
  tracks the active client. A request is several operations; a cancel request that is
  delivered too late for a look-up is still `Ok(true)`, and the statement that follows
  is a new generation nobody marks. It runs until it ends or the deadline aborts the
  task. The answer is truthful in both cases.
* **A delete may differ from its preview** (`session_preview`;
  `ui/src/app/requests/handlers.rs:222`). The answer of an update of the same row,
  between the two presses, gives the row a new identity and clears the preview but not
  the armed delete; the second press deletes by an identity that was not previewed.
  The row is the same one (`DeleteConfirmsArmedRow`).

Two more differences from a document are in `SqlEditor`, without a run of their own.

* A delete may be armed with no preview on the screen
  (`ui/src/app/results_mutation/editing.rs:53`). Delete pressed while a cell is edited arms the
  delete and leaves the edit open (`EditCell`, `ArmDelete`); Enter on the unchanged cell
  (`SubmitEdit`), or Esc, then ends the edit and
  clears the preview, but not the armed delete, and the next Delete removes the row. The status
  document (`docs/current-status.md:24`) speaks of a preview and a double confirmation. The
  answer of an update that was sent before the first press does the same
  (`ui/src/app/requests/handlers.rs:239`).
* A completion may remove more than the identifier at the caret
  (`ui/src/state/editor_state/completion.rs:161`). A double quote in a string, as in
  `SELECT 'a"b', col`, counts as the quote of an identifier; with the caret at the end the
  component runs from it to the end of the line, and a completion replaces all of it. The
  status document (`docs/current-status.md:23`) says that it replaces the identifier around the
  caret. `CompletionReplacesComponent` states what does hold: the same, with the quotes of a
  line paired from its start whatever they stand in.

Other behaviour was met while modelling, about which no document says what is meant.
It is in the models, where it can be, and among the hazards; no property forbids it.

* A search that is canceled while its rows are on their way is ranked and shown all the
  same (`ui/src/app/semantic/search.rs:92`).
* A change whose outcome is unknown may be committed after the refresh that follows the
  answer (`ui/src/app/requests/handlers.rs:110`).
* Up and Down, and a click in the gutter, can leave the cursor inside a wide character;
  the completion asked for next panics (`ui/src/state/text_input/cursor.rs:35`,
  `ui/src/app/mouse/clicks.rs:142`).
* An anchor that equals the cursor survives an edit, so what is typed next is selected
  (`ui/src/state/text_input/selection.rs:33`).
* The answer that ends a preview leaves the popup that was computed for it; what is typed
  into a preview is lost; focusing another cell leaves the statement of the old one
  in the editor; a query error never clears the preview (`ui/src/app/editor.rs`,
  `ui/src/state/results_state/selection.rs:47`).
* Setting the editor's text drops an empty last line; an indent may exceed the limit of
  a query.
* A panic of the shared bootstrap task leaves its entry loading for ever
  (`ui/src/semantic_bootstrap.rs:208`); two processes that prepare at the same time share
  the `*.download` files (`ui/src/semantic_bootstrap.rs:519`).
* `config.toml` is written in place, so a death in the write tears it
  (`config/src/persistence.rs:153`); the settings window saves its changes one by one and
  applies none when one fails (`ui/src/app/settings.rs:289`).
* The plan of a query and the query are two transactions (`engine/src/lib.rs:464`). If the
  primary key is replaced between them, the rows are identified by columns that are no
  key any more. Should one transaction insert two rows that agree in these columns, the
  one that is shown be deleted, the old key restored, and `VACUUM FULL` move the other one
  to its place, then an edit of the first hits the second. It takes five transactions of
  others. `MutationHitsShownRow` says which row is hit for rows that were read by the key of
  the table (`keyed`); for the others, only that one row is hit and what becomes of it.
* An edit names its column by the name it had when it was shown
  (`engine/src/lib.rs:353`); arrays of unknown types are looked for by the suffix `[]`,
  which PostgreSQL's names for them (`_int4`) do not have (`engine/src/value_format.rs`).

## 5. What is proved

The proof modules hold for instances of every size: any number of operations, connections,
requests, rows, files' blocks, sessions, processes, profiles and connection strings, any
pool, and texts, pastes and completions of any length. They use the assumptions that the
modules name and no others: bounds are natural numbers, `NoConnection` is no connection, a
file fits into the limit (`LimitAssumption`), what `config.toml` may hold at first is a file
that some version of poqi, or nobody, wrote (`TomlAssumption`), the bytes of letters, spaces
and the newline differ from each other and the indent is not zero (`TextInputAssumption`),
pastes and previews are made of whole characters, as Rust's strings are, a quote is no letter,
and a completion is never empty and has one line (`SqlEditorAssumption`); a column without a
decoder is a column of the table (`RowQueriesAssumption`). Each rests on an inductive invariant, which TLC also
found true on the instances of section 3 (`DbInv` and `WorkerInv` through their parts).

`CancellationProofs`: the inductive invariant `DbInv`. `CancelMeetsNoLaterOperation` alone
is not inductive: it needs that a request in flight belongs to a *marked* operation
which still holds its connection or has thrown it away (`Canceling`), that a lent
connection has one borrower (`Lending`), that the token is the connection from
activation on (`Tokens`), that generations begin in order (`Aging`) and that the slot
holds the newest operation for as long as it is open (`Registry`). From it follow
`DbTypeCorrect`, `NoLateCancel`, `PoolStaysClean`, `NewestStaysCancelable`,
`OutcomeStaysTrue` and, as a property of steps, `CanceledWaitStops`. With `Lent`, that a
connection which is out has a borrower, it gives `LendingStaysExclusive`.

`EngineWorkerProofs`: `WorkerUsesDatabase` (every step of the worker is a step of the
pool or leaves it alone) gives `DbInv` under the worker. On top of it `WorkerInv`:
`Control` (what a control state implies), `Line` (requests are taken in order), `Queue`
(the channel holds exactly what was not taken), `Tasks` (only the active request has
a task, and only its operation is open), `Reports` (what became of its operations
decides what a task reports) and `Marks` (a cancellation under way has marked an
operation of the active request). From it follow `TypeCorrect`, `AnswersKeepOrder`,
`OperationsAreSerial`, `OverlapsAreAdmitted`, `CancellationsAreRequested`, `StopIsClean`
and the refinement `WorkerImplementsFlight`: initial states map to initial states and
every step to a step of `SingleFlight` or a stutter.

`UiSessionProofs`: `UiInv`. Answers come in the order of the requests (`FlightOrder`) and
every request is remembered (`RequestsKept`), so the tracked request is the newest one
exactly while an answer has not been handled. From that each part of the session has
an invariant of its own, which every action keeps: a refresh that is waited for is one,
and none is lost (`RefreshInv`); a ranking ranks rows of the newest request of the user
(`RankingInv`); the cursor and the edit session are in the grid (`GridInv`); and a mutation
that is outstanding means the row that the grid shows at its index, because nothing
else that could move rows is sent while it is (`MutationsHitTheirRow`). From it follow
`SessionTypeCorrect`, `TrackerIsTrue`, `NoRefreshIsLost`, `MutationsFindTheirRow`,
`ArmedRowIsPreviewed` and, as properties of steps, `AutoRefreshIsHarmless` and `ShownIsNewest`.

`SemanticBootstrapProofs`: `BootstrapInv` says where each channel is. It is attached once;
from then on it is a subscriber of the entry, or is being told, or its queue ends with
the final event, and it goes from one to the next (`WaitingIsRemembered`, `Waiting`,
`Attaching`); the event that says ready carries a worker that runs (`Handed`), and a
worker ends only when nobody holds its commands. From it follow `BootstrapTypeCorrect`,
`FinalEventComesLast`, `PanelStaysTrue` and `NobodyIsForgotten`, the safety half of `LoadingEnds`.

`AssetDownloadProofs`: `DownloadInv`. Nobody but the job writes while it works, and only the
file of its current item, so what has left `todo` is on disk and verifies (`TodoIsLeft`,
`Publishes`, `StagesDone`). A preparation without a fault of its own can only be misled by
a partial file from before; the first rejection removes it, and then the download is whole
(`Resumes`, `SoundSoFar`): that is why one retry is enough. From it follow `DownloadTypeCorrect`,
`OnlyPinnedFilesLoad`, `SoundPreparationsSucceed` and `DownloadRefinesPreparation`, the safety
half of `ImplementsPreparation`.

`StartupProofs` has two invariants. `BaseInv` is about keys and rows: a key is made under the
write lock, by a call that has found nothing encrypted, so there is at most one
(`OneKey`); whatever is encrypted is under it and the metadata say so (`Readable`); a
transaction belongs to a process whose call opened the store (`TxOK`, `OpenOK`). A program is
a sequence of calls, and what it may connect to or save follows from the calls that
are left in it (`ChoiceFits`). It gives `StartupTypeCorrect`, `StoreAlwaysOpens` and, as a property
of steps, `ProfilesAreKept`. `PrimaryInv` is about the one value that lives in two places:
SQLite and `config.toml` agree on it (`Agrees`), and for every process that is part way
through its start, what the rest of its program relies on is so (`Settles`: the value it
read is still the one in the file, or the row is encrypted and has the same value; it
scrubs the file only after the row was written). The calls that matter come in the
order of `Stage`, and an encrypted row is never replaced by another value, so a program
stays settled when a second process overtakes it or one dies between two calls. From
it follows `PrimaryStaysKept`.

`RowsProofs`: `RowsInv`. It says of every identity that anything carries (the grid, a
ranking that waits, an answer on its way, the operation that runs) that a row of the table
with its transaction and its key is of the version that was read (`Follows`) and, unless
the user typed into it, that the cell shows what the row has there (`Shows`, `GoodResult`,
`JobsHold`, `OpHolds`). Other sessions keep it, because what they write has a transaction
of its own, and what they move keeps its cells (`OldRowsStay`); so do the ways in which a
result changes hands: the hidden columns cut off again (`IdentifiedIsGood`), rows
ranked (`SubsetIsGood`), removed (`WithoutRowIsGood`), edited and hydrated (`WithRowIsGood`).
That an edit is sent to a row of the grid that is still there, and no ranking can move it
before the answer, is `TargetHolds`. `CacheInv` is about the cache of embeddings: an entry
holds the document that each of its keys stands for (`Truthful`), also in the hands of a
job that is canceled or fails (`WorkHolds`). From it follow, as properties of steps,
`MutationsHitShownRow` and `RankingsAreExact`. They need three facts for which there is
no induction over sequences at hand, and which are proved from a least counterexample
(`Smallest`) instead: sorting by rank takes every row once (`RanksAreTaken`), `FlattenSeq` of
targets with one column each (`FlattenSingles`), and the last of a finite set (`MaxIsTaken`).

`SqlEditorProofs`: `IInv` is `TypeOK` and `OverlayRestoresText`. It says that the buffer is
sound (`BufferOK`: at least one line, no second byte of a character without its first, the
cursor in a line) unless a slice has panicked, after which nothing happens any more. The
argument reads a buffer as one sequence of bytes. Lines are cut from it at the newlines, and
cutting loses nothing: `Text` of the lines that `Cut` makes is what was cut. A place in the
buffer then cuts the text in two, two places cut it in three (`Cut3Is`), and an edit changes
the middle part: typing and pasting put their bytes there (`InsertReplaces`), Backspace
takes the selection or one whole character (`BackspaceReplaces`, `CharStartIs`), a
completion puts them in the place of a component. What a component is has two definitions:
the scan of the code and, in the property, the parity of the quotes before a byte. That they
agree is an induction along the line (`ScanCounts`, `PartsAre`): a byte is inside quotes exactly
if it has an odd number of them before it. So a component is the widest run of bytes with the
same part (`WordIs`, `WidestIs`, `TokenIs`), a cursor has a closed identifier before it exactly
if the quotes up to it are even and the next byte is none (`ClosesIs`), and what the line loses is
what the text loses. A character counts once however many bytes it has, since one of them is
its first (`CountConcat`, `CountInBytes`): so `MAX_QUERY_LEN` is kept and a paste is cut
between characters (`LimitKept`). From it follow `OverlayRestoresTextHolds`,
`EditsReplaceSelectionHolds` and `CompletionReplacesComponentHolds`, which say in every state
what each edit and each completion would do there. Folds
over lines and bytes mean what they should for texts of every length: `Recursion` shows that
the functions behind `FlattenSeq` and `Cut` exist, and what holds of all sequences is proved
from a shortest counterexample (`Least`, `Induction`, `SeqInduction`).

Every invariant and every action property that a passing run checks is stated by a
theorem. Only model-checked are the liveness properties (`InterruptedIsAnswered`,
`ShutdownCompletes`, `PendingRefreshIsSent`, `LoadingEnds`, and the half of
`ImplementsPreparation` that says that a preparation ends): temporal reasoning with fairness
needs `ENABLED`, which the provers do not have. The safety halves of the last two are theorems.

## 6. What is left

The hazards without a property, each with its reason in `PROJECT.json`; reconnecting after
a failed acquisition; and what follows.

### Not modelled

* Completion (analyzer, collectors, validator): heuristic tokenizing and scoring of text,
  without a state of its own; nested scopes are on the program's roadmap, so there is no
  exact reference to check it against. Only its cut at the cursor is in `SqlEditor`.
* Catalogue, schema tree, table details: a fixed list of queries, a fold of their rows, a
  list with a selection.
* Fuzzy search and the neural network: numbers; cryptography, the handshake of TLS,
  SQLite, the keyring and PostgreSQL itself are external and modelled by what the code
  relies on.
* Reconnecting after a failed acquisition, and the COPY wrappers, which nothing calls.
* Rendering, themes, key names, terminal capabilities, diagnostics, the command line, test
  data, packaging and the website: no protocol.
