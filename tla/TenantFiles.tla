----------------------------- MODULE TenantFiles -----------------------------
(****************************************************************************)
(* The files a deployment's data directory holds - the master key, each     *)
(* tenant's vault, the archives of both - under requests of the web         *)
(* application, CLI commands, the two resets (app.py) and kills.  app.LOCK  *)
(* serialises the requests; a CLI command takes no lock, reads the key and  *)
(* opens the vault in two steps, and keeps its handle when the file is      *)
(* renamed.                                                                 *)
(****************************************************************************)
EXTENDS Naturals, FiniteSets

CONSTANTS
    Tenants,
    Slots,       \* requests of the web application in flight at a time
    Commands,    \* CLI commands running at a time
    MaxKeys,     \* bound: keys ever generated
    MaxRows,     \* bound: rows ever committed
    MaxTime,     \* bound: clock, in seconds
    MaxKills,    \* bound: kills of the web application
    MaxResets,   \* bound: resets of either kind
    None, Torn, Lost   \* no file or value; a key file cut short; a file without a name

Keys   == 1..MaxKeys
Stamps == 0..MaxTime

\* Row [id, key, by] was committed by a web request or by a CLI command.
Row == [id : 1..MaxRows, key : Keys, by : {"web", "cli"}]

\* Paths of vault files: vault.db, vault-<stamp>.db, vault-prereset-<stamp>.db.
Live(t)        == [tenant |-> t, kind |-> "live",     stamp |-> 0]
Archived(t, s) == [tenant |-> t, kind |-> "reset",    stamp |-> s]
PreReset(t, s) == [tenant |-> t, kind |-> "prereset", stamp |-> s]
Paths == {Live(t) : t \in Tenants}
         \cup {Archived(t, s) : t \in Tenants, s \in Stamps}
         \cup {PreReset(t, s) : t \in Tenants, s \in Stamps}

\* A request in flight; a CLI command with the key it read and its handle.
\* A handle Lost is on a file whose name was taken by another.
Request == [pc     : {"idle", "writing", "stamped", "archiving", "keyArchived", "keyTruncated",
                      "keyWritten"},
            tenant : Tenants \cup {None},
            stamp  : Stamps,
            todo   : SUBSET Tenants]
Command == [pc     : {"idle", "keyRead", "open", "writing"},
            key    : Keys \cup {None},
            tenant : Tenants \cup {None},
            handle : Paths \cup {None, Lost}]
NoRequest == [pc |-> "idle", tenant |-> None, stamp |-> 0, todo |-> {}]
NoCommand == [pc |-> "idle", key |-> None, tenant |-> None, handle |-> None]

ASSUME TenantFilesAssumption ==
    /\ MaxKeys \in Nat /\ MaxRows \in Nat /\ MaxTime \in Nat /\ MaxKills \in Nat
    /\ MaxResets \in Nat
    /\ MaxKeys >= 1
    /\ None \notin Tenants \cup Slots /\ None \notin Keys \cup Stamps
    /\ None \notin Paths /\ Lost \notin Paths /\ Lost # None
    /\ \A table \in SUBSET Row : table # None
    /\ Torn \notin Keys /\ Torn # None

VARIABLES
    vaults,      \* path -> the rows of the file, or None
    keyFile,     \* master.key: a key, Torn or None
    oldKeys,     \* stamp -> the key in master-prereset-<stamp>.key, or None
    master,      \* MASTER of the web application, or None when it is down
    lock,        \* the request that holds app.LOCK, or None
    req, cmd,
    delivered,   \* the rows whose pseudonyms were given out, with their tenant
    keys, rows, kills, resets,  \* how many so far
    now,
    resetFailed, \* history: a secret reset has stopped after the key was archived
    resetsAt,    \* history: how many secret resets took a stamp
    replacedRows, replacedKeys   \* history: what was in archives that a later
                                 \* rename of the same second replaced

history == <<resetFailed, resetsAt, replacedRows, replacedKeys>>
vars == <<vaults, keyFile, oldKeys, master, lock, req, cmd, delivered, keys, rows,
          kills, resets, now, history>>

Init ==
    /\ vaults = [p \in Paths |-> None]
    /\ keyFile = 1
    /\ oldKeys = [s \in Stamps |-> None]
    /\ master = 1
    /\ lock = None
    /\ req = [r \in Slots |-> NoRequest]
    /\ cmd = [c \in Commands |-> NoCommand]
    /\ delivered = {}
    /\ keys = 1 /\ rows = 0 /\ kills = 0 /\ resets = 0
    /\ now = 0
    /\ resetFailed = FALSE
    /\ resetsAt = [s \in Stamps |-> 0]
    /\ replacedRows = {} /\ replacedKeys = {}

-------------------------------------------------------------------------------
(* Files.                                                                     *)

\* sqlite3.connect and the schema create a file that is not there.
Opened(p) == IF vaults[p] = None THEN [vaults EXCEPT ![p] = {}] ELSE vaults

\* Path.rename replaces the file of that name, and open handles follow.
Renamed(from, to) == [vaults EXCEPT ![to] = vaults[from], ![from] = None]
Followed(from, to) ==
    [c \in Commands |->
        CASE cmd[c].handle = from -> [cmd[c] EXCEPT !.handle = to]
          [] cmd[c].handle = to   -> [cmd[c] EXCEPT !.handle = Lost]
          [] OTHER                -> cmd[c]]

\* What goes when a reset with this stamp renames a vault to an archive that
\* another of the same second has made.
Replaced(to, stamp) ==
    IF vaults[to] = None \/ to.stamp # stamp THEN {} ELSE {to.tenant} \X vaults[to]

\* A command holds SQLite's write lock on the file.
Writing(p) == \E c \in Commands : cmd[c].pc = "writing" /\ cmd[c].handle = p

\* Faulty variant of VaultFiles that misses a directory.
VaultFilesButOne ==
    LET found == {t \in Tenants : vaults[Live(t)] # None}
    IN IF found = Tenants THEN found \ {CHOOSE t \in Tenants : TRUE} ELSE found

\* _all_vault_files
VaultFiles == {t \in Tenants : vaults[Live(t)] # None}

\* Faulty variant of ArchiveName without the stamp.
PlainArchiveName(t) == Archived(t, 0)

ArchiveName(t) == Archived(t, now)

-------------------------------------------------------------------------------
(* Requests that write a vault: open it under the lock, commit, deliver.      *)

OpenVault(r, t) ==
    /\ master # None /\ lock = None
    /\ req[r].pc = "idle"
    /\ vaults' = Opened(Live(t))
    /\ lock' = r
    /\ req' = [req EXCEPT ![r] = [@ EXCEPT !.pc = "writing", !.tenant = t]]
    /\ UNCHANGED <<keyFile, oldKeys, master, cmd, delivered, keys, rows, kills, now,
                   resets, history>>

\* The rows are written and committed, then the answer; or the request fails and
\* keeps nothing.
EndWrite(r) ==
    /\ req[r].pc = "writing"
    /\ LET t == req[r].tenant
           row == [id |-> rows + 1, key |-> master, by |-> "web"]
       IN \/ /\ rows < MaxRows
             /\ ~Writing(Live(t))
             /\ vaults' = [vaults EXCEPT ![Live(t)] = @ \cup {row}]
             /\ delivered' = delivered \cup {<<t, row>>}
             /\ rows' = rows + 1
          \/ UNCHANGED <<vaults, delivered, rows>>
    /\ lock' = None
    /\ req' = [req EXCEPT ![r] = NoRequest]
    /\ UNCHANGED <<keyFile, oldKeys, master, cmd, keys, kills, now, resets, history>>

\* api_admin_vault_reset: the check, the stamp and the rename under the lock.
VaultReset(t) ==
    /\ master # None /\ lock = None
    /\ vaults[Live(t)] # None
    /\ resets < MaxResets /\ resets' = resets + 1
    /\ vaults' = Renamed(Live(t), ArchiveName(t))
    /\ cmd' = Followed(Live(t), ArchiveName(t))
    /\ replacedRows' = replacedRows \cup Replaced(ArchiveName(t), now)
    /\ UNCHANGED <<keyFile, oldKeys, master, lock, req, delivered, keys, rows, kills, now,
                   resetFailed, resetsAt, replacedKeys>>

-------------------------------------------------------------------------------
(* api_admin_secret_reset.                                                    *)

\* The stamp is taken before the lock.
SecretStamp(r) ==
    /\ master # None
    /\ req[r].pc = "idle"
    /\ resets < MaxResets /\ resets' = resets + 1
    /\ req' = [req EXCEPT ![r] = [@ EXCEPT !.pc = "stamped", !.stamp = now]]
    /\ resetsAt' = [resetsAt EXCEPT ![now] = @ + 1]
    /\ UNCHANGED <<vaults, keyFile, oldKeys, master, lock, cmd, delivered, keys, rows,
                   kills, now, resetFailed, replacedRows, replacedKeys>>

SecretAcquire(r) ==
    /\ lock = None
    /\ req[r].pc = "stamped"
    /\ lock' = r
    /\ req' = [req EXCEPT ![r] = [@ EXCEPT !.pc = "archiving", !.todo = VaultFiles]]
    /\ UNCHANGED <<vaults, keyFile, oldKeys, master, cmd, delivered, keys, rows, kills,
                   now, resets, history>>

ArchiveVault(r) ==
    /\ req[r].pc = "archiving"
    /\ \E t \in req[r].todo :
           /\ vaults' = Renamed(Live(t), PreReset(t, req[r].stamp))
           /\ cmd' = Followed(Live(t), PreReset(t, req[r].stamp))
           /\ req' = [req EXCEPT ![r].todo = @ \ {t}]
           /\ replacedRows' = replacedRows \cup
                                  Replaced(PreReset(t, req[r].stamp), req[r].stamp)
    /\ UNCHANGED <<keyFile, oldKeys, master, lock, delivered, keys, rows, kills, now,
                   resets, resetFailed, resetsAt, replacedKeys>>

\* Faulty variant of VaultsArchived that lets the key go first.
KeyAnyTime(r) == TRUE

\* The key is archived after every vault.
VaultsArchived(r) == req[r].todo = {}

\* Faulty variant of KeyArchive that overwrites the key without keeping it.
NoKeyArchive(r) == oldKeys

KeyArchive(r) ==
    IF keyFile = None THEN oldKeys ELSE [oldKeys EXCEPT ![req[r].stamp] = keyFile]

ArchiveKey(r) ==
    /\ req[r].pc = "archiving" /\ VaultsArchived(r)
    /\ oldKeys' = KeyArchive(r)
    /\ keyFile' = None
    /\ replacedKeys' = IF keyFile = None THEN replacedKeys
                       ELSE replacedKeys \cup ({oldKeys[req[r].stamp]} \cap Keys)
    /\ req' = [req EXCEPT ![r].pc = "keyArchived"]
    /\ UNCHANGED <<vaults, master, lock, cmd, delivered, keys, rows, kills, now,
                   resets, resetFailed, resetsAt, replacedRows>>

\* write_text opens the file for writing, then writes it: no temporary file.
TruncateKey(r) ==
    /\ req[r].pc = "keyArchived"
    /\ keyFile' = Torn
    /\ req' = [req EXCEPT ![r].pc = "keyTruncated"]
    /\ UNCHANGED <<vaults, oldKeys, master, lock, cmd, delivered, keys, rows, kills, now,
                   resets, history>>

WriteKey(r) ==
    /\ req[r].pc = "keyTruncated"
    /\ keys < MaxKeys
    /\ keyFile' = keys + 1
    /\ keys' = keys + 1
    /\ req' = [req EXCEPT ![r].pc = "keyWritten"]
    /\ UNCHANGED <<vaults, oldKeys, master, lock, cmd, delivered, rows, kills, now,
                   resets, history>>

\* MASTER = _master()
ReloadMaster(r) ==
    /\ req[r].pc = "keyWritten"
    /\ master' = keyFile
    /\ lock' = None
    /\ req' = [req EXCEPT ![r] = NoRequest]
    /\ UNCHANGED <<vaults, keyFile, oldKeys, cmd, delivered, keys, rows, kills, now,
                   resets, history>>

\* A rename or a write raises (OSError): the steps done stay done, the lock is
\* released, MASTER is the old key.
FailReset(r) ==
    /\ req[r].pc \in {"archiving", "keyArchived", "keyTruncated"}
    /\ resetFailed' = (resetFailed \/ req[r].pc # "archiving")
    /\ lock' = None
    /\ req' = [req EXCEPT ![r] = NoRequest]
    /\ UNCHANGED <<vaults, keyFile, oldKeys, master, cmd, delivered, keys, rows, kills,
                   now, resets, resetsAt, replacedRows, replacedKeys>>

-------------------------------------------------------------------------------
(* Kills and restarts.                                                        *)

Kill ==
    /\ master # None
    /\ kills < MaxKills
    /\ kills' = kills + 1
    /\ master' = None /\ lock' = None
    /\ req' = [r \in Slots |-> NoRequest]
    /\ UNCHANGED <<vaults, keyFile, oldKeys, cmd, delivered, keys, rows, now, resets, history>>

\* Faulty variant of KeyAccepted that takes the file as it is.
AnyKeyAccepted == keyFile # None

\* _master refuses a key of another length than 32 bytes: the start fails.
KeyAccepted == keyFile \in Keys

Start ==
    /\ master = None
    /\ KeyAccepted
    /\ master' = keyFile
    /\ UNCHANGED <<vaults, keyFile, oldKeys, lock, req, cmd, delivered, keys, rows, kills,
                   now, resets, history>>

\* _master writes a key that is not there; killed meanwhile, it leaves it torn.
StartWithNewKey ==
    /\ master = None
    /\ keyFile = None
    /\ \/ /\ keys < MaxKeys
          /\ keys' = keys + 1
          /\ keyFile' = keys + 1 /\ master' = keys + 1
          /\ UNCHANGED kills
       \/ /\ kills < MaxKills
          /\ kills' = kills + 1
          /\ keyFile' = Torn
          /\ UNCHANGED <<keys, master>>
    /\ UNCHANGED <<vaults, oldKeys, lock, req, cmd, delivered, rows, now, resets, history>>

-------------------------------------------------------------------------------
(* CLI commands.                                                              *)

\* load_key exits without a key of 32 bytes.
LoadKey(c) ==
    /\ cmd[c].pc = "idle"
    /\ keyFile \in Keys
    /\ cmd' = [cmd EXCEPT ![c] = [@ EXCEPT !.pc = "keyRead", !.key = keyFile]]
    /\ UNCHANGED <<vaults, keyFile, oldKeys, master, lock, req, delivered, keys, rows,
                   kills, now, resets, history>>

CliOpen(c, t) ==
    /\ cmd[c].pc = "keyRead"
    /\ vaults' = Opened(Live(t))
    /\ cmd' = [cmd EXCEPT ![c] = [@ EXCEPT !.pc = "open", !.tenant = t, !.handle = Live(t)]]
    /\ UNCHANGED <<keyFile, oldKeys, master, lock, req, delivered, keys, rows, kills, now,
                   resets, history>>

\* The first INSERT: SQLite refuses it on a file that has been renamed.
CliInsert(c) ==
    /\ cmd[c].pc = "open" /\ cmd[c].handle = Live(cmd[c].tenant)
    /\ ~Writing(cmd[c].handle)
    /\ cmd' = [cmd EXCEPT ![c].pc = "writing"]
    /\ UNCHANGED <<vaults, keyFile, oldKeys, master, lock, req, delivered, keys, rows,
                   kills, now, resets, history>>

\* The command commits through its handle and gives its output out; a file that
\* no name refers to is gone when it is closed.
CliCommit(c) ==
    /\ cmd[c].pc = "writing"
    /\ rows < MaxRows
    /\ LET row == [id |-> rows + 1, key |-> cmd[c].key, by |-> "cli"]
       IN /\ vaults' = IF cmd[c].handle = Lost THEN vaults
                       ELSE [vaults EXCEPT ![cmd[c].handle] = @ \cup {row}]
          /\ delivered' = delivered \cup {<<cmd[c].tenant, row>>}
          /\ replacedRows' = IF cmd[c].handle = Lost
                             THEN replacedRows \cup {<<cmd[c].tenant, row>>} ELSE replacedRows
    /\ rows' = rows + 1
    /\ cmd' = [cmd EXCEPT ![c] = NoCommand]
    /\ UNCHANGED <<keyFile, oldKeys, master, lock, req, keys, kills, now,
                   resets, resetFailed, resetsAt, replacedKeys>>

\* It stops without committing: an error, the refused INSERT, a kill.
CliStop(c) ==
    /\ cmd[c].pc # "idle"
    /\ cmd' = [cmd EXCEPT ![c] = NoCommand]
    /\ UNCHANGED <<vaults, keyFile, oldKeys, master, lock, req, delivered, keys, rows,
                   kills, now, resets, history>>

Tick ==
    /\ now < MaxTime
    /\ now' = now + 1
    /\ UNCHANGED <<vaults, keyFile, oldKeys, master, lock, req, cmd, delivered, keys,
                   rows, kills, resets, history>>

SecretReset(r) ==
    \/ SecretStamp(r) \/ SecretAcquire(r) \/ ArchiveVault(r) \/ ArchiveKey(r)
    \/ TruncateKey(r) \/ WriteKey(r) \/ ReloadMaster(r) \/ FailReset(r)

Next ==
    \/ \E r \in Slots : EndWrite(r) \/ SecretReset(r) \/ \E t \in Tenants : OpenVault(r, t)
    \/ \E t \in Tenants : VaultReset(t)
    \/ \E c \in Commands :
           \/ LoadKey(c) \/ CliInsert(c) \/ CliCommit(c) \/ CliStop(c)
           \/ \E t \in Tenants : CliOpen(c, t)
    \/ Kill \/ Start \/ StartWithNewKey
    \/ Tick

Spec == Init /\ [][Next]_vars

-------------------------------------------------------------------------------
TypeOK ==
    /\ vaults \in [Paths -> (SUBSET Row) \cup {None}]
    /\ keyFile \in Keys \cup {None, Torn}
    /\ oldKeys \in [Stamps -> Keys \cup {None, Torn}]
    /\ master \in Keys \cup {None}
    /\ lock \in Slots \cup {None}
    /\ req \in [Slots -> Request]
    /\ cmd \in [Commands -> Command]
    /\ delivered \subseteq Tenants \X Row
    /\ keys \in Keys /\ rows \in 0..MaxRows /\ kills \in 0..MaxKills
    /\ resets \in 0..MaxResets
    /\ now \in Stamps
    /\ resetFailed \in BOOLEAN
    /\ resetsAt \in [Stamps -> Nat]
    /\ replacedRows \subseteq Tenants \X Row /\ replacedKeys \subseteq Keys

WebRows(p) == IF vaults[p] = None THEN {} ELSE {row \in vaults[p] : row.by = "web"}

KeysOnDisk == {keyFile} \cup {oldKeys[s] : s \in Stamps}

\* What the web application has put in the vaults it serves, it can read: a
\* secret reset leaves no vault of the old key behind, wherever it is killed,
\* and a restart reads the key they were written under.  Except after a reset
\* that failed between archiving the key and reading the new one: the
\* application goes on under the old key and a restart under another.
LiveUnderMaster ==
    master # None /\ ~resetFailed /\ lock = None
        => \A t \in Tenants : \A row \in WebRows(Live(t)) : row.key = master

\* app.py:1850, of either reset: nothing is destroyed.  What was given out has its
\* row in the tenant's vault or in an archive, and the row its key.  The code
\* breaks it: an archive's name has a resolution of one second, and a second
\* rename to the same name replaces the archive.
NothingDestroyed ==
    \A t \in Tenants, row \in Row : <<t, row>> \in delivered =>
        /\ \E p \in Paths : p.tenant = t /\ vaults[p] # None /\ row \in vaults[p]
        /\ row.key \in KeysOnDisk

\* Nothing else destroys anything: a row that was given out is in the tenant's
\* vault or in an archive, and its key is on disk, unless the archive of the one
\* or of the other was replaced by a reset of the same second - wherever resets
\* are killed or fail, and whatever commands have the files open.
Recoverable ==
    \A t \in Tenants, row \in Row : <<t, row>> \in delivered =>
        /\ \/ \E p \in Paths : p.tenant = t /\ vaults[p] # None /\ row \in vaults[p]
           \/ <<t, row>> \in replacedRows
        /\ row.key \in KeysOnDisk \cup replacedKeys

\* An archived vault and the archived key of the same stamp belong together: what
\* the web application wrote in the one was written under the other.  A reset
\* killed in between leaves no key of that stamp.  Two secret resets with one
\* stamp mix their archives; this speaks of every other stamp.
PairedArchives ==
    ~resetFailed =>
        \A t \in Tenants, s \in Stamps :
            oldKeys[s] # None /\ resetsAt[s] < 2 =>
                \A row \in WebRows(PreReset(t, s)) : row.key = oldKeys[s]
===============================================================================
