--------------------------- MODULE EncryptedStore ---------------------------
(***************************************************************************)
(* The encrypted store (crates/store): one SQLite file and one entry of    *)
(* the operating system's keyring, shared by every poqi process of a user. *)
(*                                                                         *)
(* Every call of the store opens its own connection: the schema is created *)
(* if the file is new, then an immediate transaction checks that whatever  *)
(* is encrypted can be read.  A call that encrypts runs a second immediate *)
(* transaction, which takes the key from the process's cache, else from    *)
(* the keyring, else creates it there: the keyring is not transactional.   *)
(*                                                                         *)
(* A row is a value and the key it is encrypted with, 0 for none.          *)
(***************************************************************************)
EXTENDS Naturals, FiniteSets

CONSTANTS Procs,        \* poqi processes
          NoProc,
          Names,        \* names of profiles
          Uris,         \* connection strings
          MaxKeys       \* bound: keys ever created

ASSUME StoreAssumption ==
    /\ NoProc \notin Procs
    /\ Uris \cap {"absent", "null"} = {}
    /\ MaxKeys \in Nat \ {0}

VARIABLES disk,         \* the SQLite file
          keyring,      \* the key the keyring has, 0 when it has none
          made,         \* keys created so far
          cache,        \* KeyManager.cached of each process, 0 for None
          tx            \* the immediate transaction that is open, and its key

storeVars == <<disk, keyring, made, cache, tx>>

(***************************************************************************)
(* Rows.                                                                   *)
(***************************************************************************)
Key         == 1 .. MaxKeys
SettingKeys == {"theme", "tick", "primary", "imported"}
Absent      == [val |-> "absent", key |-> 0]
Plain(v)    == [val |-> v, key |-> 0]
Sealed(v, k) == [val |-> v, key |-> k]
Null        == Plain("null")

NewStore ==
    [version |-> 0, id |-> FALSE, completed |-> FALSE, keyInitialized |-> FALSE,
     profiles |-> [n \in Names |-> Absent], settings |-> [k \in SettingKeys |-> Absent]]

\* schema::initialize: an empty file gets the current schema.
CurrentSchema(d) == [d EXCEPT !.version = 3]

ProfileRows(d) == {d.profiles[n] : n \in Names} \ {Absent}
PrimaryRows(d) == {d.settings["primary"]} \ {Absent, Null}

\* inspect_sensitive_state
SensitiveRows(d) == ProfileRows(d) \cup PrimaryRows(d)
HasEncrypted(d)  == \E r \in SensitiveRows(d) : r.key # 0
HasPlaintext(d)  == \E r \in SensitiveRows(d) : r.key = 0

EnsureStoreId(d)          == [d EXCEPT !.id = TRUE]
MarkEncryptionComplete(d) == [d EXCEPT !.completed = TRUE]

(***************************************************************************)
(* KeyManager::load for a process whose cache holds c.                     *)
(***************************************************************************)
Load(c)      == IF c # 0 THEN c ELSE keyring
NoTx         == [by |-> NoProc, key |-> 0]
InTx(p)      == tx.by = p

\* validate_encrypted_rows: the cipher authenticates, a wrong key is an error.
RowsDecrypt(d, k) == \A r \in SensitiveRows(d) : r.key = k

(***************************************************************************)
(* encryption::initialize: what it insists on before a call may run.       *)
(***************************************************************************)
EncryptionOK(d, c) ==
    /\ ~HasPlaintext(d)
    /\ HasEncrypted(d) => d.completed /\ d.keyInitialized
    /\ SensitiveRows(d) # {} => Load(c) # 0 /\ RowsDecrypt(d, Load(c))

Validated(d) ==
    IF SensitiveRows(d) = {} THEN MarkEncryptionComplete(EnsureStoreId(d)) ELSE EnsureStoreId(d)

(***************************************************************************)
(* Store::open_connection by a process whose cache holds c: it waits for   *)
(* the transaction of another process.                                     *)
(***************************************************************************)
Opens(c) == tx = NoTx /\ EncryptionOK(CurrentSchema(disk), c)

Opened == Validated(CurrentSchema(disk))

Cached(c) == IF SensitiveRows(disk) # {} THEN Load(c) ELSE c

\* What can make it fail: SQLite stays busy, the check, the keyring is locked.
OpenRefused(c) ==
    \/ tx # NoTx
    \/ ~EncryptionOK(CurrentSchema(disk), c)
    \/ c = 0 /\ SensitiveRows(disk) # {}

\* A call that only reads: read_context has the key that opening it loaded.
ReadCall(p) ==
    /\ Opens(cache[p])
    /\ disk' = Opened
    /\ cache' = [cache EXCEPT ![p] = Cached(@)]
    /\ UNCHANGED <<keyring, made, tx>>

(***************************************************************************)
(* A call whose write is one statement, outside a transaction of its own:  *)
(* a plain setting, a delete.  Nothing between opening and the statement   *)
(* tells whether another process ran in between.                           *)
(***************************************************************************)
SetPlain(k, v) == [Opened EXCEPT !.settings[k] = Plain(v)]
DeleteRow(n)   == [Opened EXCEPT !.profiles[n] = Absent]

Execute(p, newDisk) ==
    /\ Opens(cache[p])
    /\ disk' = newDisk
    /\ cache' = [cache EXCEPT ![p] = Cached(@)]
    /\ UNCHANGED <<keyring, made, tx>>

(***************************************************************************)
(* encryption::write_context in an immediate transaction.  The key is      *)
(* created only where nothing is encrypted yet, after the lock is taken.   *)
(***************************************************************************)
\* Mutant: a process without a key of its own creates one.
LoadCachedOnly(c) == c

LoadForWrite(c) == Load(c)

NeedsNewKey(c) == LoadForWrite(c) = 0

WriteContext(p, c) ==
    /\ tx = NoTx
    /\ IF NeedsNewKey(c)
       THEN /\ SensitiveRows(disk) = {}
            /\ made < MaxKeys
            /\ made' = made + 1
            /\ keyring' = made'
            /\ tx' = [by |-> p, key |-> made']
       ELSE /\ tx' = [by |-> p, key |-> LoadForWrite(c)]
            /\ UNCHANGED <<made, keyring>>
    /\ cache' = IF c = cache[p] THEN [cache EXCEPT ![p] = tx'.key] ELSE cache
    /\ UNCHANGED disk

WriteRefused(c) ==
    \/ tx # NoTx
    \/ c = 0
    \/ NeedsNewKey(c) /\ SensitiveRows(disk) # {}

(***************************************************************************)
(* The row is written and the transaction commits, with the flag that a    *)
(* key is in use (set_metadata_flag).                                      *)
(***************************************************************************)
Commit(newDisk) ==
    /\ disk' = [newDisk EXCEPT !.id = TRUE, !.keyInitialized = TRUE]
    /\ tx' = NoTx
    /\ UNCHANGED <<keyring, made, cache>>

\* Mutant: an insert replaces the profile that has the name.
InsertReplaces(n, replace) == TRUE

\* write_profile: ON CONFLICT(name) DO NOTHING, or DO UPDATE.
Writes(n, replace) == replace \/ disk.profiles[n] = Absent

SealProfile(n, u) == [disk EXCEPT !.profiles[n] = Sealed(u, tx.key)]
SealPrimary(u)    == [disk EXCEPT !.settings["primary"] = Sealed(u, tx.key)]

Rollback ==
    /\ tx' = NoTx
    /\ UNCHANGED <<disk, keyring, made, cache>>

\* The process ends: SQLite drops its transaction, the keyring keeps its key.
Forget(p) ==
    /\ tx' = IF InTx(p) THEN NoTx ELSE tx
    /\ cache' = [cache EXCEPT ![p] = 0]
    /\ UNCHANGED <<disk, keyring, made>>

StoreInit ==
    /\ made = (IF SensitiveRows(disk) = {} THEN 0 ELSE 1)
    /\ keyring = made
    /\ cache = [p \in Procs |-> 0]
    /\ tx = NoTx

Rows == [val: Uris \cup {"absent"}, key: 0 .. MaxKeys]
SettingRows ==
    [val: Uris \cup {"absent", "null", "default", "toml", "chosen", "true"}, key: 0 .. MaxKeys]

StoreTypeOK ==
    /\ disk \in [version: {0, 3}, id: BOOLEAN, completed: BOOLEAN, keyInitialized: BOOLEAN,
                 profiles: [Names -> Rows], settings: [SettingKeys -> SettingRows]]
    /\ keyring \in 0 .. MaxKeys
    /\ made \in 0 .. MaxKeys
    /\ cache \in [Procs -> 0 .. MaxKeys]
    /\ tx \in [by: Procs \cup {NoProc}, key: 0 .. MaxKeys]
=============================================================================
