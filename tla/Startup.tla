------------------------------ MODULE Startup ------------------------------
(***************************************************************************)
(* A poqi process from its start to its end (crates/app runtime.rs and     *)
(* bootstrap/, crates/config persistence.rs), several of them on the same  *)
(* store, keyring and config.toml, each of which may die at any step.      *)
(*                                                                         *)
(* A process is a program: the sequence of calls it still has to make.     *)
(* The database answers as it likes.                                       *)
(***************************************************************************)
EXTENDS EncryptedStore, Sequences, ConnectionPlan

CONSTANTS UriSpec,      \* how each connection string is written
          DemoName,     \* the name the Docker demo is saved under
          SavedUris,    \* the connection strings of the profiles saved before
          Tomls,        \* the config.toml the user may have written
          MaxStarts,    \* bound: processes started
          MaxActs       \* bound: things the user does

ASSUME StartupAssumption ==
    /\ UriSpec \in [Uris -> ConnectionString]
    /\ DemoName \in Names
    /\ SavedUris \subseteq Uris
    /\ MaxStarts \in Nat /\ MaxActs \in Nat

\* A file that is absent or half written sets nothing.
TomlFile ==
    [is: {"absent", "torn"}, theme: {"unset"}, primary: {"null"}]
        \cup [is: {"whole"}, theme: {"unset", "toml"}, primary: Uris \cup {"null"}]

ASSUME TomlAssumption == Tomls \subseteq TomlFile

VARIABLES toml,         \* the file config.toml
          proc,         \* each process
          starts,       \* processes that may still be started
          acts,         \* things the user may still do
          reached       \* connection strings that connected, ever

vars == <<storeVars, toml, proc, starts, acts, reached>>

NoChoice  == [name |-> "none", uri |-> "null", save |-> FALSE, editing |-> FALSE]
NoConfig  == [imported |-> FALSE, theme |-> "default", primary |-> "null", given |-> "null",
              text |-> "unset"]
NoForm    == [is |-> "list", locked |-> FALSE, name |-> "none", uri |-> "null"]
NoProfiles == [n \in Names |-> "absent"]

\* An ended process; "todo" is its program, "open" whether the call at its
\* head has opened its connection, "listed" the profiles the menu shows.
Ended ==
    [todo |-> <<>>, open |-> FALSE, config |-> NoConfig, listed |-> NoProfiles,
     form |-> NoForm, choice |-> NoChoice, fromMainUi |-> FALSE]

(***************************************************************************)
(* Programs.                                                               *)
(***************************************************************************)
Call(d, k)      == [do |-> d, key |-> k]
Calls(d, ks)    == [i \in 1 .. Len(ks) |-> Call(d, ks[i])]
ConfigKeys      == <<"theme", "primary">>
UiSettingKeys   == <<"tick">>

\* load_or_default_with_store, after it read the import marker.
LoadConfig(imported) ==
    IF imported
    THEN Calls("ensure", ConfigKeys) \o Calls("hydrate", ConfigKeys) \o <<Call("scrub", "primary")>>
    ELSE <<Call("disk", "all")>> \o Calls("hydrate", ConfigKeys) \o <<Call("match", "primary")>>
         \o Calls("set", ConfigKeys) \o <<Call("set", "imported"), Call("scrub", "primary")>>

\* load_ui_settings
LoadUiSettings == Calls("ensure", UiSettingKeys)

Boot         == <<Call("init", "all"), Call("marker", "imported")>>
BackToMenu   == <<Call("marker", "imported")>>
AfterConfig(p) ==
    LoadUiSettings \o (IF proc[p].fromMainUi THEN <<Call("list", "all")>> ELSE <<Call("resolve", "all")>>)

Head1(p)    == Head(proc[p].todo)
Running(p)  == proc[p].todo # <<>>
At(p, d)    == Running(p) /\ Head1(p).do = d
Doing(p, d, k) == Running(p) /\ Head1(p) = Call(d, k)

\* Mutant: the next call uses the connection of the last one.
KeepsOpen(p, calls) == [proc EXCEPT ![p].todo = calls]

Rest(p)        == Tail(proc[p].todo)
Goto(p, calls) == [proc EXCEPT ![p].todo = calls, ![p].open = FALSE]
Advance(p)     == Goto(p, Rest(p))
\* The menu returns: what it listed and its form are gone.
LeaveMenu(p, calls, c) ==
    [Goto(p, calls) EXCEPT ![p].listed = NoProfiles, ![p].form = NoForm, ![p].choice = c]

\* load_or_default_with_store returns; of the configuration only the primary
\* connection matters from here on.
Loaded(p)      == [Advance(p) EXCEPT ![p].config = 
                    [NoConfig EXCEPT !.primary = proc[p].config.primary]]
Open(p)        == [proc EXCEPT ![p].open = TRUE]
OnlyProc       == UNCHANGED <<storeVars, toml, starts, acts, reached>>
Others         == UNCHANGED <<toml, starts, acts, reached>>

\* The generation thread opens a store of its own, with an empty key cache.
CacheOf(p) == IF At(p, "demo") THEN 0 ELSE cache[p]

\* An error that nothing handles ends the process.
Exit(p) ==
    /\ proc' = [proc EXCEPT ![p] = Ended]
    /\ Forget(p)
    /\ Others

\* Only a primary connection is encrypted; another setting is written plainly.
SetValue(p, k) ==
    CASE k = "imported" -> "true"
      [] k \in {"theme", "primary"} -> proc[p].config[k]
      [] OTHER -> "default"

Encrypts(p) ==
    \/ At(p, "set") /\ Head1(p).key = "primary" /\ SetValue(p, "primary") # "null"
    \/ At(p, "save")
    \/ At(p, "demo")

\* A call that encrypts opens its connection first, then runs a transaction.
OpenCall(p) ==
    /\ Encrypts(p)
    /\ ~proc[p].open
    /\ Opens(CacheOf(p))
    /\ disk' = Opened
    /\ cache' = IF At(p, "demo") THEN cache ELSE [cache EXCEPT ![p] = Cached(@)]
    /\ proc' = Open(p)
    /\ UNCHANGED <<keyring, made, tx>>
    /\ Others

Ready(p, d) == At(p, d) /\ proc[p].open

(***************************************************************************)
(* The start: run, init_store, load_configuration, load_ui_settings.       *)
(***************************************************************************)
Start(p) ==
    /\ ~Running(p)
    /\ starts > 0
    /\ starts' = starts - 1
    /\ proc' = [proc EXCEPT ![p].todo = Boot]
    /\ UNCHANGED <<storeVars, toml, acts, reached>>

InitStore(p) ==
    /\ At(p, "init")
    /\ ReadCall(p)
    /\ proc' = Advance(p)
    /\ Others

\* config_toml_import_complete, and the default configuration once imported.
ReadMarker(p) ==
    /\ At(p, "marker")
    /\ ReadCall(p)
    /\ LET imported == disk.settings["imported"] = Plain("true")
       IN  proc' = [proc EXCEPT ![p].todo = LoadConfig(imported) \o AfterConfig(p),
                                ![p].config = [NoConfig EXCEPT !.imported = imported]]
    /\ Others

(***************************************************************************)
(* What a file half written by another process, or by one that died, reads *)
(* as when it parses at all: nothing is set in it.                         *)
(***************************************************************************)
TomlTheme   == IF toml.is = "whole" THEN toml.theme ELSE "unset"
TomlPrimary == IF toml.is = "whole" THEN toml.primary ELSE "null"

\* load_from_disk, or the defaults when there is no file.
LoadFromDisk(p) ==
    /\ At(p, "disk")
    /\ proc' = [Advance(p) EXCEPT
                  ![p].config.theme = IF TomlTheme = "unset" THEN "default" ELSE TomlTheme,
                  ![p].config.primary = TomlPrimary,
                  ![p].config.given = TomlPrimary]
    /\ OnlyProc

\* ensure_setting looks first, and sets in a second call.
EnsureSetting(p) ==
    /\ At(p, "ensure")
    /\ ReadCall(p)
    /\ LET k == Head1(p).key
       IN  proc' = IF disk.settings[k] = Absent THEN Goto(p, <<Call("set", k)>> \o Rest(p)) ELSE Advance(p)
    /\ Others

\* hydrate_config_from_settings: what SQLite has replaces what TOML said.
Hydrate(p) ==
    /\ At(p, "hydrate")
    /\ ReadCall(p)
    /\ LET k   == Head1(p).key
           row == disk.settings[k]
       IN  proc' = IF row = Absent THEN Advance(p) ELSE [Advance(p) EXCEPT ![p].config[k] = row.val]
    /\ Others

\* ensure_primary_matches; a conflict ends the process (Die).
PrimaryMatches(primary, authoritative) == primary \in {"null", authoritative}

MatchPrimary(p) ==
    /\ At(p, "match")
    /\ PrimaryMatches(proc[p].config.given, proc[p].config.primary)
    /\ proc' = Advance(p)
    /\ OnlyProc

(***************************************************************************)
(* persist_config_settings and the import marker, one call for each        *)
(* setting, each with a connection of its own.                             *)
(***************************************************************************)
WriteSetting(p) ==
    /\ At(p, "set")
    /\ ~Encrypts(p)
    /\ Execute(p, SetPlain(Head1(p).key, SetValue(p, Head1(p).key)))
    /\ proc' = Advance(p)
    /\ Others

BeginWrite(p) ==
    /\ Running(p)
    /\ proc[p].open
    /\ Encrypts(p)
    /\ WriteContext(p, CacheOf(p))
    /\ UNCHANGED proc
    /\ Others

CommitPrimary(p) ==
    /\ Ready(p, "set")
    /\ InTx(p)
    /\ Commit(SealPrimary(SetValue(p, "primary")))
    /\ proc' = Advance(p)
    /\ Others

(***************************************************************************)
(* scrub_primary_from_active_toml.  fs::write truncates the file before it *)
(* writes what is left of it.                                              *)
(***************************************************************************)
\* Mutant: the file is scrubbed whatever SQLite has.
ScrubsAnything(p) == TRUE

MayScrub(p) == PrimaryMatches(TomlPrimary, proc[p].config.primary)

ScrubNothing(p) ==
    /\ At(p, "scrub")
    /\ TomlPrimary = "null"
    /\ proc' = Loaded(p)
    /\ OnlyProc

ScrubTruncates(p) ==
    /\ At(p, "scrub")
    /\ TomlPrimary # "null"
    /\ MayScrub(p)
    /\ toml' = [is |-> "torn", theme |-> "unset", primary |-> "null"]
    /\ proc' = [Goto(p, <<Call("rewrite", "primary")>> \o Rest(p)) EXCEPT ![p].config.text = toml.theme]
    /\ UNCHANGED <<storeVars, starts, acts, reached>>

\* remove_primary_from_toml keeps everything else.
ScrubWrites(p) ==
    /\ At(p, "rewrite")
    /\ toml' = [is |-> "whole", theme |-> proc[p].config.text, primary |-> "null"]
    /\ proc' = Loaded(p)
    /\ UNCHANGED <<storeVars, starts, acts, reached>>

(***************************************************************************)
(* resolve_connection_profile.  Only --check-connection takes a connection *)
(* from the command line, the environment, a saved profile or the primary; *)
(* nothing it does is saved.  Without one it is an error (Die).  How the   *)
(* process was called is left open until it matters.                       *)
(***************************************************************************)
Choice(n, u, save, editing) == [name |-> n, uri |-> u, save |-> save, editing |-> editing]

DirectChoices(p) ==
    {Choice("primary", u, FALSE, FALSE) : u \in Uris}
    \cup {Choice(n, disk.profiles[n].val, FALSE, TRUE) : n \in {m \in Names : disk.profiles[m] # Absent}}
    \cup (IF proc[p].config.primary = "null" THEN {}
          ELSE {Choice("primary", proc[p].config.primary, FALSE, FALSE)})

ResolveDirect(p) ==
    /\ At(p, "resolve")
    /\ ReadCall(p)
    /\ \E c \in DirectChoices(p) :
          proc' = [Goto(p, <<Call("check", "all")>>) EXCEPT ![p].choice = c]
    /\ Others

\* check_connection reports, and the process ends.
CheckConnection(p) == At(p, "check") /\ Exit(p)

ResolveMenu(p) ==
    /\ At(p, "resolve")
    /\ proc' = Goto(p, <<Call("list", "all")>>)
    /\ OnlyProc

(***************************************************************************)
(* select_or_create_profile_with_recovery: the profiles are read once, the *)
(* menu shows what they were then.  In recovery a list that cannot be read *)
(* is empty, otherwise the error ends the process (Die).                   *)
(***************************************************************************)
Recovering(p) == proc[p].form.is = "form"

ListProfiles(p) ==
    /\ At(p, "list")
    /\ ReadCall(p)
    /\ proc' = [Goto(p, <<Call("menu", "all")>>) EXCEPT
                  ![p].listed = [n \in Names |-> disk.profiles[n].val]]
    /\ Others

ListUnreadable(p) ==
    /\ At(p, "list")
    /\ Recovering(p)
    /\ OpenRefused(cache[p])
    /\ proc' = [Goto(p, <<Call("menu", "all")>>) EXCEPT ![p].listed = NoProfiles]
    /\ OnlyProc

(***************************************************************************)
(* The start menu, start_menu/input.rs.                                    *)
(***************************************************************************)
InMenu(p, state) == At(p, "menu") /\ proc[p].form.is = state
Listed(p)        == {n \in Names : proc[p].listed[n] # "absent"}
Form(locked, n, u) == [is |-> "form", locked |-> locked, name |-> n, uri |-> u]
Act              == acts > 0 /\ acts' = acts - 1

\* Enter on a profile: what the list showed is connected to.
ActivateSelected(p) ==
    /\ InMenu(p, "list")
    /\ Act
    /\ \E n \in Listed(p) :
          proc' = LeaveMenu(p, <<Call("connect", "all")>>, Choice(n, proc[p].listed[n], FALSE, TRUE))
    /\ UNCHANGED <<storeVars, toml, starts, reached>>

\* Enter on "new", "e" on a profile, Enter on the test data; the bound leaves
\* out a form that nobody will submit.
OpenForm(p) ==
    /\ InMenu(p, "list") /\ acts > 0
    /\ \E f \in {Form(FALSE, "none", "null"), [NoForm EXCEPT !.is = "test"]}
             \cup {Form(TRUE, n, proc[p].listed[n]) : n \in Listed(p)} :
          proc' = [proc EXCEPT ![p].form = f]
    /\ OnlyProc

\* Esc in the form or on the test data.
BackToList(p) ==
    /\ At(p, "menu")
    /\ proc[p].form.is # "list"
    /\ proc' = [proc EXCEPT ![p].form = NoForm]
    /\ OnlyProc

\* Esc in the list, unless the database UI was left for it; quit anywhere.
CancelSelection(p) == InMenu(p, "list") /\ ~proc[p].fromMainUi /\ Exit(p)
QuitSelection(p)   == At(p, "menu") /\ Exit(p)

\* Delete: the store first, then the list.
DeleteSelected(p) ==
    /\ InMenu(p, "list")
    /\ Act
    /\ \E n \in Listed(p) : proc' = Goto(p, <<Call("remove", n), Call("menu", "all")>>)
    /\ UNCHANGED <<storeVars, toml, starts, reached>>

RemoveProfile(p) ==
    /\ At(p, "remove")
    /\ Execute(p, DeleteRow(Head1(p).key))
    /\ proc' = [Advance(p) EXCEPT ![p].listed[Head1(p).key] = "absent"]
    /\ Others

(***************************************************************************)
(* ProfileForm::submit: a new name must be free in the list, the string    *)
(* must be one that can be prepared.  The name a user types is trimmed, so *)
(* it is never the demo's, which ends in a space.                          *)
(***************************************************************************)
SubmitName(p, n) ==
    IF proc[p].form.locked THEN n = proc[p].form.name
    ELSE n # DemoName /\ n \notin Listed(p)

Submit(p) ==
    /\ InMenu(p, "form")
    /\ Act
    /\ \E n \in Names, u \in Uris :
          /\ SubmitName(p, n)
          /\ Validates(UriSpec[u])
          /\ proc' = LeaveMenu(p, <<Call("connect", "all")>>, Choice(n, u, TRUE, proc[p].form.locked))
    /\ UNCHANGED <<storeVars, toml, starts, reached>>

(***************************************************************************)
(* generate_and_save_test_database: a container is started, connected to   *)
(* and filled before its profile is upserted; a failure removes the        *)
(* container and ends the process (Die).                                   *)
(***************************************************************************)
GenerateTestData(p) ==
    /\ InMenu(p, "test")
    /\ Act
    /\ \E u \in Uris :
          /\ Validates(UriSpec[u])
          /\ reached' = reached \cup {u}
          /\ proc' = LeaveMenu(p, <<Call("demo", "all"), Call("connect", "all")>>,
                              Choice(DemoName, u, FALSE, TRUE))
    /\ UNCHANGED <<storeVars, toml, starts>>

CommitDemo(p) ==
    /\ Ready(p, "demo")
    /\ InTx(p)
    /\ Commit(SealProfile(DemoName, proc[p].choice.uri))
    /\ proc' = Advance(p)
    /\ Others

(***************************************************************************)
(* connect_with_profile_recovery: Database::connect and the catalogue,     *)
(* under one timeout.  Success saves the profile before the UI starts;     *)
(* every failure reopens the menu on a form that has the choice.           *)
(***************************************************************************)
Recovered(p) ==
    LET c == proc[p].choice
    IN  [Goto(p, <<Call("list", "all")>>) EXCEPT
           ![p].form = Form(c.editing, c.name, c.uri), ![p].fromMainUi = TRUE]

Recover(p) ==
    /\ proc' = Recovered(p)
    /\ Others

Connect(p) ==
    /\ At(p, "connect")
    /\ Validates(UriSpec[proc[p].choice.uri])
    /\ reached' = reached \cup {proc[p].choice.uri}
    /\ proc' = Goto(p, IF proc[p].choice.save THEN <<Call("save", "all"), Call("ui", "all")>>
                       ELSE <<Call("ui", "all")>>)
    /\ UNCHANGED <<storeVars, toml, starts, acts>>

ConnectFails(p) ==
    /\ At(p, "connect")
    /\ UNCHANGED storeVars
    /\ Recover(p)

(***************************************************************************)
(* persist_after_success: an edited profile is upserted, a new one must    *)
(* not exist yet, whatever the list said.                                  *)
(***************************************************************************)
CommitProfile(p) ==
    /\ Ready(p, "save")
    /\ InTx(p)
    /\ LET c == proc[p].choice
       IN  /\ Writes(c.name, c.editing)
           /\ Commit(SealProfile(c.name, c.uri))
           /\ proc' = [Advance(p) EXCEPT ![p].choice = Choice(c.name, c.uri, FALSE, TRUE)]
    /\ Others

SaveConflicts(p) ==
    /\ Ready(p, "save")
    /\ InTx(p)
    /\ ~Writes(proc[p].choice.name, proc[p].choice.editing)
    /\ Rollback
    /\ Recover(p)

SaveFails(p) ==
    /\ At(p, "save")
    /\ ~InTx(p)
    /\ IF proc[p].open THEN WriteRefused(cache[p]) ELSE OpenRefused(cache[p])
    /\ UNCHANGED storeVars
    /\ Recover(p)

(***************************************************************************)
(* launch_ui.  The settings modal saves what the user chose; leaving for   *)
(* the profiles reads the configuration again.                             *)
(***************************************************************************)
ChooseSetting(p) ==
    /\ At(p, "ui")
    /\ Act
    /\ \E k \in {"theme", "tick"} : proc' = Goto(p, <<Call("settings", k), Call("ui", "all")>>)
    /\ UNCHANGED <<storeVars, toml, starts, reached>>

SaveSetting(p) ==
    /\ At(p, "settings")
    /\ Execute(p, SetPlain(Head1(p).key, "chosen"))
    /\ proc' = Advance(p)
    /\ Others

SaveSettingFails(p) ==
    /\ At(p, "settings")
    /\ OpenRefused(cache[p])
    /\ proc' = Advance(p)
    /\ OnlyProc

Quit(p) == At(p, "ui") /\ Exit(p)

BackToProfiles(p) ==
    /\ At(p, "ui")
    /\ Act
    /\ proc' = [proc EXCEPT ![p] = [Ended EXCEPT !.todo = BackToMenu, !.fromMainUi = TRUE]]
    /\ UNCHANGED <<storeVars, toml, starts, reached>>

\* The process is killed, or an error that nothing handles ends it.
Die(p) == Running(p) /\ Exit(p)

(***************************************************************************)
(* A new store, or one in use with a profile; config.toml is whatever the  *)
(* user has.  A first start that dies leaves the stores in between.        *)
(***************************************************************************)
InUse ==
    [NewStore EXCEPT !.version = 3, !.id = TRUE, !.completed = TRUE,
                     !.settings["theme"] = Plain("default"), !.settings["primary"] = Null,
                     !.settings["imported"] = Plain("true"), !.settings["tick"] = Plain("default")]
WithProfile(n, u) ==
    [InUse EXCEPT !.keyInitialized = TRUE, !.profiles[n] = Sealed(u, 1)]

InitialStores ==
    {NewStore} \cup {WithProfile(n, u) : n \in Names \ {DemoName}, u \in SavedUris}

Init ==
    /\ disk \in InitialStores
    /\ StoreInit
    /\ toml \in Tomls
    /\ proc = [p \in Procs |-> Ended]
    /\ starts = MaxStarts
    /\ acts = MaxActs
    /\ reached = {}

Next ==
    \E p \in Procs :
        \/ Start(p) \/ InitStore(p) \/ ReadMarker(p) \/ LoadFromDisk(p) \/ EnsureSetting(p)
        \/ Hydrate(p) \/ MatchPrimary(p) \/ OpenCall(p) \/ WriteSetting(p) \/ BeginWrite(p)
        \/ CommitPrimary(p) \/ ScrubNothing(p) \/ ScrubTruncates(p) \/ ScrubWrites(p)
        \/ ResolveDirect(p) \/ CheckConnection(p) \/ ResolveMenu(p)
        \/ ListProfiles(p) \/ ListUnreadable(p)
        \/ ActivateSelected(p) \/ OpenForm(p) \/ BackToList(p) \/ CancelSelection(p)
        \/ QuitSelection(p) \/ DeleteSelected(p) \/ RemoveProfile(p) \/ Submit(p)
        \/ GenerateTestData(p) \/ CommitDemo(p)
        \/ Connect(p) \/ ConnectFails(p) \/ CommitProfile(p) \/ SaveConflicts(p) \/ SaveFails(p)
        \/ ChooseSetting(p) \/ SaveSetting(p) \/ SaveSettingFails(p) \/ Quit(p) \/ BackToProfiles(p)
        \/ Die(p)

Spec == Init /\ [][Next]_vars

(***************************************************************************)
(* Properties.                                                             *)
(***************************************************************************)
\* Every variable has its type: the file, the store and each process.
StartupTypeOK ==
    /\ StoreTypeOK
    /\ toml \in TomlFile
    /\ \A p \in Procs :
          /\ proc[p].choice.uri \in Uris \cup {"null"}
          /\ proc[p].form.is \in {"list", "form", "test"}
          /\ proc[p].listed \in [Names -> Uris \cup {"absent"}]
          /\ proc[p].open => Encrypts(p)
    /\ reached \subseteq Uris

(***************************************************************************)
(* Whatever the processes did and wherever one died, the next process, its *)
(* key cache empty, opens the store: everything encrypted is under the key *)
(* that the keyring has, and the metadata says so (encryption::initialize).*)
(***************************************************************************)
StoreOpensAgain == EncryptionOK(CurrentSchema(disk), 0)

(***************************************************************************)
(* The primary connection leaves config.toml only when SQLite holds the    *)
(* same one encrypted, and SQLite never loses it to another process that   *)
(* is starting (load_or_default_with_store).                               *)
(***************************************************************************)
PrimaryIn(d)    == d.settings["primary"].val
PrimarySealed(d) == d.settings["primary"].key # 0

PrimaryKept ==
    [][ /\ toml.primary # "null" /\ toml'.primary # toml.primary
              => PrimarySealed(disk) /\ PrimaryIn(disk) = toml.primary
        /\ PrimarySealed(disk) => PrimarySealed(disk') /\ PrimaryIn(disk') = PrimaryIn(disk) ]_vars

(***************************************************************************)
(* A profile that exists changes only when a user edited that profile, and *)
(* no profile is saved before its connection succeeded, whatever another   *)
(* process saved or deleted since the menu read the list                   *)
(* (persist_after_success, insert, upsert).                                *)
(***************************************************************************)
Edits(p, n, u) ==
    proc[p].choice.name = n /\ proc[p].choice.uri = u /\ proc[p].choice.editing

ProfilesKept ==
    [][ \A n \in Names :
          LET old == disk.profiles[n].val
              new == disk'.profiles[n].val
          IN  new \notin {old, "absent"} =>
                /\ new \in reached
                /\ old # "absent" => \E p \in Procs : Edits(p, n, new) ]_vars
=============================================================================
