--------------------------- MODULE TenantFilesProofs ---------------------------
(****************************************************************************)
(* Theorems about TenantFiles, for any tenants, requests, commands and      *)
(* bounds allowed by TenantFilesAssumption.  BaseInv: who holds what, and   *)
(* what the web application serves; IInv adds what the archives hold.       *)
(****************************************************************************)
EXTENDS TenantFiles, TLAPS

-------------------------------------------------------------------------------
(* The inductive invariants *)

Resetting(r) == req[r].pc \in {"archiving", "keyArchived", "keyTruncated", "keyWritten"}
KeyMoving(r) == req[r].pc \in {"keyArchived", "keyTruncated", "keyWritten"}

\* Only the holder of app.LOCK is past its stamp, and only while the application
\* is up; the vaults it is about to use are there, and the key file is where
\* its steps have left it.
LockInv ==
    /\ \A r \in Slots : req[r].pc \notin {"idle", "stamped"} => lock = r
    /\ \A r \in Slots : req[r].pc # "idle" => master # None
    /\ lock # None => master # None
    /\ \A r \in Slots : req[r].pc = "writing" =>
           req[r].tenant \in Tenants /\ vaults[Live(req[r].tenant)] # None
    /\ \A r \in Slots : \A t \in req[r].todo :
           req[r].pc = "archiving" => vaults[Live(t)] # None
    /\ \A r \in Slots : KeyMoving(r) => req[r].todo = {}
    /\ \A r \in Slots :
           /\ req[r].pc = "keyArchived" => keyFile = None
           /\ req[r].pc = "keyTruncated" => keyFile = Torn
           /\ req[r].pc = "keyWritten" => keyFile \in Keys

\* A command past its first step has a key, and its handle is on a file of its
\* tenant, or on one without a name.
HandleInv ==
    \A c \in Commands :
        /\ cmd[c].pc # "idle" => cmd[c].key \in Keys
        /\ cmd[c].pc \in {"idle", "keyRead"} => cmd[c].handle = None
        /\ cmd[c].pc \in {"open", "writing"} =>
               /\ cmd[c].tenant \in Tenants
               /\ cmd[c].handle # Lost =>
                      /\ cmd[c].handle \in Paths
                      /\ cmd[c].handle.tenant = cmd[c].tenant
                      /\ vaults[cmd[c].handle] # None

\* What the web application has in a vault it serves is under the key file; a
\* reset under way leaves nothing in the vaults it has passed; and the key in
\* memory is the one on disk, but for the steps that change it.
LiveInv ==
    /\ ~resetFailed => \A t \in Tenants : \A row \in WebRows(Live(t)) : row.key = keyFile
    /\ \A r \in Slots : Resetting(r) =>
           \A t \in Tenants \ req[r].todo : WebRows(Live(t)) = {}
    /\ master # None /\ ~resetFailed /\ (\A r \in Slots : ~KeyMoving(r)) => master = keyFile

BaseInv == TypeOK /\ LockInv /\ HandleInv /\ LiveInv

Stamping(r) == req[r].pc = "stamped" \/ Resetting(r)

\* What is archived under a stamp is archived by resets that took it.  When only
\* one reset did, nothing is archived yet under it that this reset is to archive.
StampInv ==
    /\ \A s \in Stamps : oldKeys[s] # None => resetsAt[s] >= 1
    /\ \A t \in Tenants, s \in Stamps : vaults[PreReset(t, s)] # None => resetsAt[s] >= 1
    /\ \A r \in Slots : Stamping(r) => resetsAt[req[r].stamp] >= 1
    /\ \A q, r \in Slots :
           q # r /\ Stamping(q) /\ Stamping(r) /\ req[q].stamp = req[r].stamp
               => resetsAt[req[r].stamp] >= 2
    /\ \A r \in Slots :
           req[r].pc \in {"stamped", "archiving"} /\ resetsAt[req[r].stamp] < 2
               => oldKeys[req[r].stamp] = None
    /\ \A r \in Slots : \A t \in Tenants :
           /\ req[r].pc = "stamped" \/ (req[r].pc = "archiving" /\ t \in req[r].todo)
           /\ resetsAt[req[r].stamp] < 2
           => vaults[PreReset(t, req[r].stamp)] = None

\* Keys that are on disk, or that an archived key of the same second replaced.
KeysKept == KeysOnDisk \cup replacedKeys

\* Every key in use is kept, and so is what was given out.
KeptInv ==
    /\ \A c \in Commands : cmd[c].pc # "idle" => cmd[c].key \in KeysKept
    /\ master # None => master \in KeysKept
    /\ Recoverable

\* What a reset with a stamp of its own has archived so far is under the key it
\* will archive.
PairInv ==
    /\ PairedArchives
    /\ ~resetFailed => \A r \in Slots :
           req[r].pc = "archiving" /\ resetsAt[req[r].stamp] < 2 =>
               \A t \in Tenants : \A row \in WebRows(PreReset(t, req[r].stamp)) :
                   row.key = keyFile

IInv == BaseInv /\ StampInv /\ KeptInv /\ PairInv

-------------------------------------------------------------------------------
(* Paths *)

\* The three kinds of names do not meet, and each is a tenant's.
LEMMA PathFacts ==
    /\ \A t \in Tenants : Live(t) \in Paths /\ Live(t).kind = "live" /\ Live(t).tenant = t
    /\ \A t \in Tenants, s \in Stamps :
           /\ Archived(t, s) \in Paths /\ Archived(t, s).kind = "reset"
           /\ Archived(t, s).tenant = t /\ Archived(t, s).stamp = s
           /\ PreReset(t, s) \in Paths /\ PreReset(t, s).kind = "prereset"
           /\ PreReset(t, s).tenant = t /\ PreReset(t, s).stamp = s
    /\ \A p \in Paths :
           /\ p.tenant \in Tenants /\ p # None /\ p # Lost
           /\ p.kind \in {"live", "reset", "prereset"}
           /\ p.kind # "live" => p.stamp \in Stamps
           /\ p.kind = "live" => p = Live(p.tenant)
  <1>1. \A t \in Tenants : Live(t) \in Paths /\ Live(t).kind = "live" /\ Live(t).tenant = t
    BY DEF Live, Paths
  <1>2. \A t \in Tenants, s \in Stamps :
            /\ Archived(t, s) \in Paths /\ Archived(t, s).kind = "reset"
            /\ Archived(t, s).tenant = t /\ Archived(t, s).stamp = s
    BY DEF Archived, Paths
  <1>3. \A t \in Tenants, s \in Stamps :
            /\ PreReset(t, s) \in Paths /\ PreReset(t, s).kind = "prereset"
            /\ PreReset(t, s).tenant = t /\ PreReset(t, s).stamp = s
    BY DEF PreReset, Paths
  <1>4. ASSUME NEW p \in Paths
        PROVE  /\ p.tenant \in Tenants /\ p # None /\ p # Lost
               /\ p.kind \in {"live", "reset", "prereset"}
               /\ p.kind # "live" => p.stamp \in Stamps
               /\ p.kind = "live" => p = Live(p.tenant)
    <2>1. p # None /\ p # Lost
      BY TenantFilesAssumption
    <2>2. CASE \E t \in Tenants : p = Live(t)
      BY <2>1, <2>2, <1>1
    <2>3. CASE \E t \in Tenants, s \in Stamps : p = Archived(t, s)
      BY <2>1, <2>3, <1>2
    <2>4. CASE \E t \in Tenants, s \in Stamps : p = PreReset(t, s)
      BY <2>1, <2>4, <1>3
    <2>. QED
      BY <2>2, <2>3, <2>4 DEF Paths
  <1>. QED
    BY <1>1, <1>2, <1>3, <1>4

\* An empty request and an empty command are of their types.
LEMMA EmptyFacts == NoRequest \in Request /\ NoCommand \in Command
  BY TenantFilesAssumption DEF NoRequest, Request, NoCommand, Command, Stamps

\* A rename moves one file and its handles and leaves the rest.
LEMMA RenameFacts ==
    ASSUME TypeOK, HandleInv, NEW from \in Paths, NEW to \in Paths, from # to,
           vaults[from] # None, vaults' = Renamed(from, to), cmd' = Followed(from, to),
           from.tenant = to.tenant
    PROVE  /\ vaults' \in [Paths -> (SUBSET Row) \cup {None}]
           /\ vaults'[to] = vaults[from] /\ vaults'[from] = None
           /\ \A p \in Paths : p # from /\ p # to => vaults'[p] = vaults[p]
           /\ cmd' \in [Commands -> Command]
           /\ HandleInv'
           /\ \A c \in Commands :
                  /\ cmd'[c].pc = cmd[c].pc /\ cmd'[c].key = cmd[c].key
                  /\ cmd[c].handle # to /\ cmd[c].handle # Lost => cmd'[c].handle # Lost
  <1>1. /\ vaults' \in [Paths -> (SUBSET Row) \cup {None}]
        /\ vaults'[to] = vaults[from] /\ vaults'[from] = None
        /\ \A p \in Paths : p # from /\ p # to => vaults'[p] = vaults[p]
    BY DEF TypeOK, Renamed
  <1>2. ASSUME NEW c \in Commands
        PROVE  /\ cmd'[c] \in Command
               /\ cmd'[c].pc = cmd[c].pc /\ cmd'[c].key = cmd[c].key
               /\ cmd'[c].tenant = cmd[c].tenant
               /\ cmd'[c].handle = CASE cmd[c].handle = from -> to
                                     [] cmd[c].handle = to -> Lost
                                     [] OTHER -> cmd[c].handle
    <2>1. cmd[c] \in Command
      BY DEF TypeOK
    <2>2. CASE cmd[c].handle = from
      <3>1. cmd'[c] = [cmd[c] EXCEPT !.handle = to]
        BY <2>2 DEF Followed
      <3>. QED
        BY <2>1, <2>2, <3>1 DEF Command
    <2>3. CASE cmd[c].handle = to
      <3>1. cmd'[c] = [cmd[c] EXCEPT !.handle = Lost]
        BY <2>3 DEF Followed
      <3>. QED
        BY <2>1, <2>3, <3>1 DEF Command
    <2>4. CASE cmd[c].handle # from /\ cmd[c].handle # to
      <3>1. cmd'[c] = cmd[c]
        BY <2>4 DEF Followed
      <3>. QED
        BY <2>1, <2>4, <3>1
    <2>. QED
      BY <2>2, <2>3, <2>4
  <1>3. cmd' \in [Commands -> Command]
    BY <1>2 DEF Followed
  <1>4. HandleInv'
    BY <1>1, <1>2, PathFacts, TenantFilesAssumption DEF HandleInv
  <1>5. \A c \in Commands :
            cmd[c].handle # to /\ cmd[c].handle # Lost => cmd'[c].handle # Lost
    BY <1>2, PathFacts
  <1>. QED
    BY <1>1, <1>2, <1>3, <1>4, <1>5

\* What a rename replaces are rows of the tenant, all that the archive had.
LEMMA ReplacedFacts ==
    ASSUME TypeOK, NEW to \in Paths
    PROVE  /\ Replaced(to, to.stamp) \subseteq Tenants \X Row
           /\ \A row : vaults[to] # None /\ row \in vaults[to]
                  => <<to.tenant, row>> \in Replaced(to, to.stamp)
  <1>1. to.tenant \in Tenants
    BY PathFacts
  <1>. QED
    BY <1>1 DEF Replaced, TypeOK

-------------------------------------------------------------------------------
(* The first layer: who holds what, and the vaults served *)

\* A fresh data directory satisfies it.
LEMMA InitBase == Init => BaseInv
  <1> SUFFICES ASSUME Init PROVE BaseInv
    OBVIOUS
  <1> USE TenantFilesAssumption DEF Init
  <1>1. TypeOK
    <2>1. /\ vaults \in [Paths -> (SUBSET Row) \cup {None}]
          /\ oldKeys \in [Stamps -> Keys \cup {None, Torn}]
          /\ req \in [Slots -> Request] /\ cmd \in [Commands -> Command]
      BY EmptyFacts
    <2>2. /\ keyFile \in Keys /\ master \in Keys /\ keys \in Keys
          /\ rows \in 0..MaxRows /\ kills \in 0..MaxKills /\ now \in Stamps
          /\ resets \in 0..MaxResets
      BY DEF Keys, Stamps
    <2>3. /\ resetFailed \in BOOLEAN
          /\ resetsAt \in [Stamps -> Nat]
      OBVIOUS
    <2>4. replacedRows \subseteq Tenants \X Row /\ replacedKeys \subseteq Keys
      BY Zenon
    <2>. QED
      BY <2>1, <2>2, <2>3, <2>4 DEF TypeOK
  <1>2. LockInv /\ HandleInv
    BY DEF LockInv, HandleInv, NoRequest, NoCommand, KeyMoving
  <1>3. LiveInv
    BY PathFacts DEF LiveInv, WebRows, Resetting, NoRequest
  <1>. QED
    BY <1>1, <1>2, <1>3 DEF BaseInv

\* Taking a stamp preserves it: the request holds nothing yet.
LEMMA SecretStampBase ==
    ASSUME BaseInv, NEW r \in Slots, SecretStamp(r)
    PROVE  BaseInv'
  <1> USE TenantFilesAssumption DEF BaseInv, history, SecretStamp
  <1>1. TypeOK'
    <2>1. req' \in [Slots -> Request]
      BY DEF TypeOK, Request
    <2>2. resetsAt' \in [Stamps -> Nat] /\ resets' \in 0..MaxResets
      BY DEF TypeOK
    <2>. QED
      BY <2>1, <2>2 DEF TypeOK
  <1>2. LockInv'
    BY EmptyFacts DEF LockInv, TypeOK, Request, NoRequest, KeyMoving, VaultFiles, VaultsArchived
  <1>3. HandleInv'
    BY DEF HandleInv, TypeOK, Command, NoCommand
  <1>4. LiveInv'
    BY DEF LiveInv, LockInv, TypeOK, Request, NoRequest, Resetting, KeyMoving, WebRows,
           VaultFiles, VaultsArchived
  <1>. QED
    BY <1>1, <1>2, <1>3, <1>4

\* Taking the lock preserves it: the vaults to archive are those that are there.
LEMMA SecretAcquireBase ==
    ASSUME BaseInv, NEW r \in Slots, SecretAcquire(r)
    PROVE  BaseInv'
  <1> USE TenantFilesAssumption DEF BaseInv, history, SecretAcquire
  <1>1. TypeOK'
    <2>1. VaultFiles \in SUBSET Tenants
      BY DEF VaultFiles
    <2>2. req' \in [Slots -> Request]
      BY <2>1 DEF TypeOK, Request
    <2>. QED
      BY <2>1, <2>2 DEF TypeOK
  <1>2. LockInv'
    BY EmptyFacts DEF LockInv, TypeOK, Request, NoRequest, KeyMoving, VaultFiles, VaultsArchived
  <1>3. HandleInv'
    BY DEF HandleInv, TypeOK, Command, NoCommand
  <1>4. LiveInv'
    BY DEF LiveInv, LockInv, TypeOK, Request, NoRequest, Resetting, KeyMoving, WebRows,
           VaultFiles, VaultsArchived
  <1>. QED
    BY <1>1, <1>2, <1>3, <1>4

\* Archiving the key preserves it: every vault with rows of the web has gone.
LEMMA ArchiveKeyBase ==
    ASSUME BaseInv, NEW r \in Slots, ArchiveKey(r)
    PROVE  BaseInv'
  <1> USE TenantFilesAssumption DEF BaseInv, history, ArchiveKey
  <1>1. TypeOK'
    <2>1. req' \in [Slots -> Request]
      BY DEF TypeOK, Request
    <2>2. oldKeys' \in [Stamps -> Keys \cup {None, Torn}]
      BY DEF TypeOK, KeyArchive
    <2>3. replacedKeys' \subseteq Keys
      BY DEF TypeOK
    <2>. QED
      BY <2>1, <2>2, <2>3 DEF TypeOK
  <1>2. LockInv'
    BY EmptyFacts DEF LockInv, TypeOK, Request, NoRequest, KeyMoving, VaultFiles, VaultsArchived
  <1>3. HandleInv'
    BY DEF HandleInv, TypeOK, Command, NoCommand
  <1>4. LiveInv'
    BY DEF LiveInv, LockInv, TypeOK, Request, NoRequest, Resetting, KeyMoving, WebRows,
           VaultFiles, VaultsArchived
  <1>. QED
    BY <1>1, <1>2, <1>3, <1>4

\* Truncating the key file preserves it: no served vault has rows of the web.
LEMMA TruncateKeyBase ==
    ASSUME BaseInv, NEW r \in Slots, TruncateKey(r)
    PROVE  BaseInv'
  <1> USE TenantFilesAssumption DEF BaseInv, history, TruncateKey
  <1>1. TypeOK'
    <2>1. req' \in [Slots -> Request]
      BY DEF TypeOK, Request
    <2>. QED
      BY <2>1 DEF TypeOK
  <1>2. LockInv'
    BY EmptyFacts DEF LockInv, TypeOK, Request, NoRequest, KeyMoving, VaultFiles, VaultsArchived
  <1>3. HandleInv'
    BY DEF HandleInv, TypeOK, Command, NoCommand
  <1>4. LiveInv'
    BY DEF LiveInv, LockInv, TypeOK, Request, NoRequest, Resetting, KeyMoving, WebRows,
           VaultFiles, VaultsArchived
  <1>. QED
    BY <1>1, <1>2, <1>3, <1>4

\* Writing the new key preserves it.
LEMMA WriteKeyBase ==
    ASSUME BaseInv, NEW r \in Slots, WriteKey(r)
    PROVE  BaseInv'
  <1> USE TenantFilesAssumption DEF BaseInv, history, WriteKey
  <1>1. TypeOK'
    <2>1. req' \in [Slots -> Request]
      BY DEF TypeOK, Request
    <2>2. keys + 1 \in Keys
      BY DEF TypeOK, Keys
    <2>. QED
      BY <2>1, <2>2 DEF TypeOK
  <1>2. LockInv'
    BY <1>1, EmptyFacts DEF LockInv, TypeOK, Request, NoRequest, KeyMoving, VaultFiles, VaultsArchived
  <1>3. HandleInv'
    BY DEF HandleInv, TypeOK, Command, NoCommand
  <1>4. LiveInv'
    BY DEF LiveInv, LockInv, TypeOK, Request, NoRequest, Resetting, KeyMoving, WebRows,
           VaultFiles, VaultsArchived
  <1>. QED
    BY <1>1, <1>2, <1>3, <1>4

\* Reading the new key preserves it: memory and disk agree again.
LEMMA ReloadMasterBase ==
    ASSUME BaseInv, NEW r \in Slots, ReloadMaster(r)
    PROVE  BaseInv'
  <1> USE TenantFilesAssumption DEF BaseInv, history, ReloadMaster
  <1>1. TypeOK'
    BY EmptyFacts DEF TypeOK, LockInv, Request, Command, Keys, Stamps, KeyArchive, VaultFiles
  <1>2. LockInv'
    BY EmptyFacts DEF LockInv, TypeOK, Request, NoRequest, KeyMoving, VaultFiles, VaultsArchived
  <1>3. HandleInv'
    BY DEF HandleInv, TypeOK, Command, NoCommand
  <1>4. LiveInv'
    BY DEF LiveInv, LockInv, TypeOK, Request, NoRequest, Resetting, KeyMoving, WebRows,
           VaultFiles, VaultsArchived
  <1>. QED
    BY <1>1, <1>2, <1>3, <1>4

\* A reset that fails preserves it: past the key's archive it is marked as failed.
LEMMA FailResetBase ==
    ASSUME BaseInv, NEW r \in Slots, FailReset(r)
    PROVE  BaseInv'
  <1> USE TenantFilesAssumption DEF BaseInv, history, FailReset
  <1>1. TypeOK'
    BY EmptyFacts DEF TypeOK, LockInv, Request, Command, Keys, Stamps, KeyArchive, VaultFiles
  <1>2. LockInv'
    BY EmptyFacts DEF LockInv, TypeOK, Request, NoRequest, KeyMoving, VaultFiles, VaultsArchived
  <1>3. HandleInv'
    BY DEF HandleInv, TypeOK, Command, NoCommand
  <1>4. LiveInv'
    BY DEF LiveInv, LockInv, TypeOK, Request, NoRequest, Resetting, KeyMoving, WebRows,
           VaultFiles, VaultsArchived
  <1>. QED
    BY <1>1, <1>2, <1>3, <1>4

\* A kill preserves it: nothing is held any more.
LEMMA KillBase ==
    ASSUME BaseInv, Kill
    PROVE  BaseInv'
  <1> USE TenantFilesAssumption DEF BaseInv, history, Kill
  <1>1. TypeOK'
    <2>1. kills' \in 0..MaxKills
      BY DEF TypeOK
    <2>2. req' \in [Slots -> Request]
      BY EmptyFacts
    <2>. QED
      BY <2>1, <2>2 DEF TypeOK
  <1>2. LockInv'
    BY EmptyFacts DEF LockInv, TypeOK, Request, NoRequest, KeyMoving, VaultFiles, VaultsArchived
  <1>3. HandleInv'
    BY DEF HandleInv, TypeOK, Command, NoCommand
  <1>4. LiveInv'
    BY DEF LiveInv, LockInv, TypeOK, Request, NoRequest, Resetting, KeyMoving, WebRows,
           VaultFiles, VaultsArchived
  <1>. QED
    BY <1>1, <1>2, <1>3, <1>4

\* A restart preserves it: the key is read from the file.
LEMMA StartBase ==
    ASSUME BaseInv, Start
    PROVE  BaseInv'
  <1> USE TenantFilesAssumption DEF BaseInv, history, Start
  <1>1. TypeOK'
    <2>1. keyFile \in Keys
      BY DEF KeyAccepted
    <2>. QED
      BY <2>1 DEF TypeOK
  <1>2. LockInv'
    BY EmptyFacts DEF LockInv, TypeOK, Request, NoRequest, KeyMoving, VaultFiles, VaultsArchived
  <1>3. HandleInv'
    BY DEF HandleInv, TypeOK, Command, NoCommand
  <1>4. LiveInv'
    BY DEF LiveInv, LockInv, TypeOK, Request, NoRequest, Resetting, KeyMoving, WebRows,
           VaultFiles, VaultsArchived
  <1>. QED
    BY <1>1, <1>2, <1>3, <1>4

\* A start that makes a key preserves it: without a key file no served vault has
\* rows of the web.
LEMMA StartWithNewKeyBase ==
    ASSUME BaseInv, StartWithNewKey
    PROVE  BaseInv'
  <1> USE TenantFilesAssumption DEF BaseInv, history, StartWithNewKey
  <1>1. TypeOK'
    <2>1. kills' \in 0..MaxKills /\ keys' \in Keys
      BY DEF TypeOK, Keys
    <2>2. keyFile' \in Keys \cup {None, Torn} /\ master' \in Keys \cup {None}
      BY <2>1 DEF TypeOK
    <2>. QED
      BY <2>1, <2>2 DEF TypeOK
  <1>2. LockInv'
    BY EmptyFacts DEF LockInv, TypeOK, Request, NoRequest, KeyMoving, VaultFiles, VaultsArchived
  <1>3. HandleInv'
    BY DEF HandleInv, TypeOK, Command, NoCommand
  <1>4. LiveInv'
    <2>1. ~resetFailed => \A t \in Tenants : WebRows(Live(t)) = {}
      <3> SUFFICES ASSUME ~resetFailed, NEW t \in Tenants, NEW row \in WebRows(Live(t))
                   PROVE  FALSE
        OBVIOUS
      <3>1. row \in Row /\ row.key \in Keys
        BY PathFacts DEF WebRows, TypeOK, Row
      <3>2. row.key = keyFile
        BY DEF LiveInv
      <3>. QED
        BY <3>1, <3>2
    <2>2. \A t \in Tenants : WebRows(Live(t))' = WebRows(Live(t))
      BY DEF WebRows
    <2>3. \A r \in Slots : req[r].pc = "idle"
      BY DEF LockInv
    <2>. QED
      BY <2>1, <2>2, <2>3 DEF LiveInv, Resetting, TypeOK
  <1>. QED
    BY <1>1, <1>2, <1>3, <1>4

\* A command that reads the key preserves it.
LEMMA LoadKeyBase ==
    ASSUME BaseInv, NEW c \in Commands, LoadKey(c)
    PROVE  BaseInv'
  <1> USE TenantFilesAssumption DEF BaseInv, history, LoadKey
  <1>1. TypeOK'
    <2>1. cmd' \in [Commands -> Command]
      BY DEF TypeOK, Command
    <2>. QED
      BY <2>1 DEF TypeOK
  <1>2. LockInv'
    BY EmptyFacts DEF LockInv, TypeOK, Request, NoRequest, KeyMoving, VaultFiles, VaultsArchived
  <1>3. HandleInv'
    BY DEF HandleInv, TypeOK, Command, NoCommand
  <1>4. LiveInv'
    BY DEF LiveInv, LockInv, TypeOK, Request, NoRequest, Resetting, KeyMoving, WebRows,
           VaultFiles, VaultsArchived
  <1>. QED
    BY <1>1, <1>2, <1>3, <1>4

\* A command's first INSERT preserves it.
LEMMA CliInsertBase ==
    ASSUME BaseInv, NEW c \in Commands, CliInsert(c)
    PROVE  BaseInv'
  <1> USE TenantFilesAssumption DEF BaseInv, history, CliInsert
  <1>1. TypeOK'
    <2>1. cmd' \in [Commands -> Command]
      BY DEF TypeOK, Command
    <2>. QED
      BY <2>1 DEF TypeOK
  <1>2. LockInv'
    BY EmptyFacts DEF LockInv, TypeOK, Request, NoRequest, KeyMoving, VaultFiles, VaultsArchived
  <1>3. HandleInv'
    BY DEF HandleInv, TypeOK, Command, NoCommand
  <1>4. LiveInv'
    BY DEF LiveInv, LockInv, TypeOK, Request, NoRequest, Resetting, KeyMoving, WebRows,
           VaultFiles, VaultsArchived
  <1>. QED
    BY <1>1, <1>2, <1>3, <1>4

\* A command that stops preserves it.
LEMMA CliStopBase ==
    ASSUME BaseInv, NEW c \in Commands, CliStop(c)
    PROVE  BaseInv'
  <1> USE TenantFilesAssumption DEF BaseInv, history, CliStop
  <1>1. TypeOK'
    BY EmptyFacts DEF TypeOK, LockInv, Request, Command, Keys, Stamps, KeyArchive, VaultFiles
  <1>2. LockInv'
    BY EmptyFacts DEF LockInv, TypeOK, Request, NoRequest, KeyMoving, VaultFiles, VaultsArchived
  <1>3. HandleInv'
    BY DEF HandleInv, TypeOK, Command, NoCommand
  <1>4. LiveInv'
    BY DEF LiveInv, LockInv, TypeOK, Request, NoRequest, Resetting, KeyMoving, WebRows,
           VaultFiles, VaultsArchived
  <1>. QED
    BY <1>1, <1>2, <1>3, <1>4

\* Time passing preserves it.
LEMMA TickBase ==
    ASSUME BaseInv, Tick
    PROVE  BaseInv'
  <1> USE TenantFilesAssumption DEF BaseInv, history, Tick
  <1>1. TypeOK'
    BY EmptyFacts DEF TypeOK, LockInv, Request, Command, Keys, Stamps, KeyArchive, VaultFiles
  <1>2. LockInv'
    BY EmptyFacts DEF LockInv, TypeOK, Request, NoRequest, KeyMoving, VaultFiles, VaultsArchived
  <1>3. HandleInv'
    BY DEF HandleInv, TypeOK, Command, NoCommand
  <1>4. LiveInv'
    BY DEF LiveInv, LockInv, TypeOK, Request, NoRequest, Resetting, KeyMoving, WebRows,
           VaultFiles, VaultsArchived
  <1>. QED
    BY <1>1, <1>2, <1>3, <1>4

\* Opening a vault at most adds an empty file.
LEMMA OpenedFacts ==
    ASSUME TypeOK, NEW t \in Tenants, vaults' = Opened(Live(t))
    PROVE  /\ vaults' \in [Paths -> (SUBSET Row) \cup {None}]
           /\ vaults'[Live(t)] # None
           /\ \A p \in Paths : vaults[p] # None => vaults'[p] = vaults[p]
           /\ \A p \in Paths : p # Live(t) => vaults'[p] = vaults[p]
           /\ \A p \in Paths : WebRows(p)' = WebRows(p)
  <1>1. Live(t) \in Paths /\ {} # None
    BY PathFacts, TenantFilesAssumption
  <1>2. /\ vaults' \in [Paths -> (SUBSET Row) \cup {None}]
        /\ vaults'[Live(t)] # None
        /\ \A p \in Paths : vaults[p] # None => vaults'[p] = vaults[p]
        /\ \A p \in Paths : p # Live(t) => vaults'[p] = vaults[p]
        /\ vaults[Live(t)] = None => vaults'[Live(t)] = {}
    BY <1>1 DEF TypeOK, Opened
  <1>3. ASSUME NEW p \in Paths PROVE WebRows(p)' = WebRows(p)
    <2>1. CASE vaults'[p] = vaults[p]
      BY <2>1 DEF WebRows
    <2>2. CASE vaults[p] = None /\ vaults'[p] = {}
      BY <2>2, <1>1 DEF WebRows
    <2>. QED
      BY <2>1, <2>2, <1>2
  <1>. QED
    BY <1>2, <1>3

\* A request that opens its vault preserves it.
LEMMA OpenVaultBase ==
    ASSUME BaseInv, NEW r \in Slots, NEW t \in Tenants, OpenVault(r, t)
    PROVE  BaseInv'
  <1> USE DEF BaseInv, history
  <1>1. /\ master # None /\ lock = None /\ req[r].pc = "idle" /\ lock' = r
        /\ vaults' = Opened(Live(t))
        /\ req' = [req EXCEPT ![r] = [@ EXCEPT !.pc = "writing", !.tenant = t]]
        /\ UNCHANGED <<keyFile, oldKeys, master, cmd, delivered, keys, rows, kills, now,
                       resets, history>>
    BY DEF OpenVault
  <1>2. /\ vaults' \in [Paths -> (SUBSET Row) \cup {None}]
        /\ vaults'[Live(t)] # None
        /\ \A p \in Paths : vaults[p] # None => vaults'[p] = vaults[p]
        /\ \A p \in Paths : WebRows(p)' = WebRows(p)
    BY <1>1, OpenedFacts
  <1>3. /\ req' \in [Slots -> Request]
        /\ req'[r].pc = "writing" /\ req'[r].tenant = t
        /\ \A q \in Slots : q # r => req'[q] = req[q]
    BY <1>1 DEF TypeOK, Request
  <1>4. TypeOK'
    BY <1>1, <1>2, <1>3 DEF TypeOK
  <1>5. \A q \in Slots : q # r => req[q].pc \in {"idle", "stamped"}
    BY <1>1, TenantFilesAssumption DEF LockInv
  <1>6. LockInv'
    BY <1>1, <1>2, <1>3, <1>5 DEF LockInv, KeyMoving
  <1>7. HandleInv'
    BY <1>1, <1>2 DEF HandleInv
  <1>8. LiveInv'
    <2>1. \A q \in Slots : ~Resetting(q)' /\ ~KeyMoving(q)' /\ ~KeyMoving(q)
      BY <1>1, <1>3, <1>5 DEF Resetting, KeyMoving
    <2>. QED
      BY <1>1, <1>2, <2>1, PathFacts DEF LiveInv
  <1>. QED
    BY <1>4, <1>6, <1>7, <1>8

\* What a request does before it is over: it gives back the lock, and perhaps
\* commits a row under the key in memory.
LEMMA EndWriteBase ==
    ASSUME BaseInv, NEW r \in Slots, EndWrite(r)
    PROVE  BaseInv'
  <1> USE DEF BaseInv, history
  <1> DEFINE t == req[r].tenant
             row == [id |-> rows + 1, key |-> master, by |-> "web"]
  <1>1. /\ req[r].pc = "writing" /\ lock' = None
        /\ req' = [req EXCEPT ![r] = NoRequest]
        /\ UNCHANGED <<keyFile, oldKeys, master, cmd, keys, kills, now, resets, history>>
        /\ \/ /\ rows < MaxRows
              /\ vaults' = [vaults EXCEPT ![Live(t)] = @ \cup {row}]
              /\ delivered' = delivered \cup {<<t, row>>}
              /\ rows' = rows + 1
           \/ UNCHANGED <<vaults, delivered, rows>>
    BY DEF EndWrite
  <1>2. /\ lock = r /\ master \in Keys /\ t \in Tenants /\ Live(t) \in Paths
        /\ vaults[Live(t)] # None
        /\ \A q \in Slots : q # r => req[q].pc \in {"idle", "stamped"}
    BY <1>1, PathFacts DEF LockInv, TypeOK
  <1>3. /\ req' \in [Slots -> Request] /\ req'[r].pc = "idle"
        /\ \A q \in Slots : q # r => req'[q] = req[q]
    BY <1>1, EmptyFacts DEF TypeOK, NoRequest
  <1>4. rows < MaxRows => row \in Row /\ rows + 1 \in 0..MaxRows
    BY <1>2, TenantFilesAssumption DEF Row, TypeOK
  <1>5. /\ row.key = master /\ row.by = "web"
        /\ ~resetFailed => master = keyFile
    BY <1>1, <1>2, TenantFilesAssumption DEF LiveInv, KeyMoving
  <1> HIDE DEF row
  <1>6. /\ vaults' \in [Paths -> (SUBSET Row) \cup {None}]
        /\ \A p \in Paths : vaults[p] # None => vaults'[p] # None
        /\ \A p \in Paths : WebRows(p)' \subseteq WebRows(p) \cup {row}
    <2>1. CASE UNCHANGED vaults
      BY <2>1 DEF TypeOK, WebRows
    <2>2. CASE rows < MaxRows /\ vaults' = [vaults EXCEPT ![Live(t)] = @ \cup {row}]
      <3>1. vaults[Live(t)] \cup {row} \in SUBSET Row
        BY <2>2, <1>2, <1>4 DEF TypeOK
      <3>2. vaults[Live(t)] \cup {row} # None
        BY <3>1, TenantFilesAssumption
      <3>. QED
        BY <2>2, <1>2, <3>1, <3>2 DEF TypeOK, WebRows
    <2>. QED
      BY <1>1, <2>1, <2>2
  <1>7. delivered' \subseteq Tenants \X Row /\ rows' \in 0..MaxRows
    BY <1>1, <1>2, <1>4 DEF TypeOK
  <1>8. TypeOK'
    BY <1>1, <1>3, <1>6, <1>7 DEF TypeOK
  <1>9. LockInv'
    BY <1>1, <1>2, <1>3, TenantFilesAssumption DEF LockInv, KeyMoving
  <1>10. HandleInv'
    BY <1>1, <1>6 DEF HandleInv
  <1>11. LiveInv'
    <2>1. \A q \in Slots : ~Resetting(q)' /\ ~KeyMoving(q)'
      BY <1>2, <1>3 DEF Resetting, KeyMoving
    <2>. QED
      BY <1>1, <1>5, <1>6, <2>1, PathFacts DEF LiveInv
  <1>. QED
    BY <1>8, <1>9, <1>10, <1>11

\* A vault reset preserves it: the vault it renames is there, and nothing holds
\* the lock.
LEMMA VaultResetBase ==
    ASSUME BaseInv, NEW t \in Tenants, VaultReset(t)
    PROVE  BaseInv'
  <1> USE DEF BaseInv, history
  <1> DEFINE from == Live(t)
             to == ArchiveName(t)
  <1>1. /\ master # None /\ lock = None /\ vaults[from] # None
        /\ vaults' = Renamed(from, to) /\ cmd' = Followed(from, to)
        /\ resets < MaxResets /\ resets' = resets + 1
        /\ replacedRows' = replacedRows \cup Replaced(to, now)
        /\ UNCHANGED <<keyFile, oldKeys, master, lock, req, delivered, keys, rows, kills,
                       now, resetFailed, resetsAt, replacedKeys>>
    BY DEF VaultReset
  <1>2. /\ from \in Paths /\ to \in Paths /\ from # to /\ from.tenant = to.tenant
        /\ \A u \in Tenants : Live(u) # to
        /\ to.stamp = now
    BY PathFacts DEF ArchiveName, TypeOK
  <1> HIDE DEF from, to
  <1>3. /\ vaults' \in [Paths -> (SUBSET Row) \cup {None}]
        /\ vaults'[from] = None
        /\ \A p \in Paths : p # from /\ p # to => vaults'[p] = vaults[p]
        /\ cmd' \in [Commands -> Command]
        /\ HandleInv'
    BY <1>1, <1>2, RenameFacts
  <1>4. TypeOK'
    <2>1. replacedRows' \subseteq Tenants \X Row
      BY <1>1, <1>2, ReplacedFacts DEF TypeOK
    <2>2. resets' \in 0..MaxResets
      BY <1>1, TenantFilesAssumption DEF TypeOK
    <2>. QED
      BY <1>1, <1>3, <2>1, <2>2 DEF TypeOK
  <1>5. \A q \in Slots : req[q].pc \in {"idle", "stamped"}
    BY <1>1, TenantFilesAssumption DEF LockInv
  <1>6. LockInv'
    BY <1>1, <1>5 DEF LockInv, KeyMoving
  <1>7. \A u \in Tenants : WebRows(Live(u))' \subseteq WebRows(Live(u))
    BY <1>2, <1>3, PathFacts DEF WebRows
  <1>8. LiveInv'
    BY <1>1, <1>5, <1>7 DEF LiveInv, Resetting, KeyMoving
  <1>. QED
    BY <1>3, <1>4, <1>6, <1>8

\* Archiving one vault of a secret reset preserves it.
LEMMA ArchiveVaultBase ==
    ASSUME BaseInv, NEW r \in Slots, ArchiveVault(r)
    PROVE  BaseInv'
  <1> USE DEF BaseInv, history
  <1>1. PICK t \in req[r].todo :
            /\ vaults' = Renamed(Live(t), PreReset(t, req[r].stamp))
            /\ cmd' = Followed(Live(t), PreReset(t, req[r].stamp))
            /\ req' = [req EXCEPT ![r].todo = @ \ {t}]
            /\ replacedRows' = replacedRows \cup
                                   Replaced(PreReset(t, req[r].stamp), req[r].stamp)
    BY DEF ArchiveVault
  <1> DEFINE from == Live(t)
             to == PreReset(t, req[r].stamp)
  <1>2. /\ req[r].pc = "archiving"
        /\ UNCHANGED <<keyFile, oldKeys, master, lock, delivered, keys, rows, kills, now,
                       resets, resetFailed, resetsAt, replacedKeys>>
    BY DEF ArchiveVault
  <1>3. /\ t \in Tenants /\ req[r].todo \subseteq Tenants /\ req[r].stamp \in Stamps
        /\ vaults[from] # None
    BY <1>2 DEF TypeOK, Request, LockInv
  <1>4. /\ from \in Paths /\ to \in Paths /\ from # to /\ from.tenant = to.tenant
        /\ \A u \in Tenants : Live(u) # to /\ (Live(u) = from => u = t)
        /\ to.stamp = req[r].stamp
    BY <1>3, PathFacts
  <1>5. /\ vaults' = Renamed(from, to) /\ cmd' = Followed(from, to)
        /\ replacedRows' = replacedRows \cup Replaced(to, req[r].stamp)
    BY <1>1
  <1> HIDE DEF from, to
  <1>6. /\ vaults' \in [Paths -> (SUBSET Row) \cup {None}]
        /\ vaults'[from] = None
        /\ \A p \in Paths : p # from /\ p # to => vaults'[p] = vaults[p]
        /\ cmd' \in [Commands -> Command]
        /\ HandleInv'
    BY <1>3, <1>4, <1>5, RenameFacts
  <1>7. /\ req' \in [Slots -> Request] /\ req'[r].pc = "archiving"
        /\ req'[r].todo = req[r].todo \ {t}
        /\ \A q \in Slots : q # r => req'[q] = req[q]
    BY <1>1, <1>2, <1>3 DEF TypeOK, Request
  <1>8. TypeOK'
    <2>1. replacedRows' \subseteq Tenants \X Row
      BY <1>4, <1>5, ReplacedFacts DEF TypeOK
    <2>. QED
      BY <1>2, <1>6, <1>7, <2>1 DEF TypeOK
  <1>9. lock = r /\ \A q \in Slots : q # r => req[q].pc \in {"idle", "stamped"}
    BY <1>2 DEF LockInv
  <1>10. \A u \in Tenants : u # t => vaults'[Live(u)] = vaults[Live(u)]
    BY <1>4, <1>6, PathFacts
  <1>11. LockInv'
    BY <1>2, <1>3, <1>7, <1>9, <1>10 DEF LockInv, KeyMoving
  <1>12. /\ WebRows(Live(t))' = {}
         /\ \A u \in Tenants : u # t => WebRows(Live(u))' = WebRows(Live(u))
    BY <1>6, <1>10 DEF WebRows, from
  <1>13. LiveInv'
    BY <1>2, <1>3, <1>7, <1>9, <1>12 DEF LiveInv, Resetting, KeyMoving
  <1>. QED
    BY <1>6, <1>8, <1>11, <1>13

\* A command that opens a vault preserves it.
LEMMA CliOpenBase ==
    ASSUME BaseInv, NEW c \in Commands, NEW t \in Tenants, CliOpen(c, t)
    PROVE  BaseInv'
  <1> USE DEF BaseInv, history
  <1>1. /\ cmd[c].pc = "keyRead"
        /\ vaults' = Opened(Live(t))
        /\ cmd' = [cmd EXCEPT ![c] = [@ EXCEPT !.pc = "open", !.tenant = t,
                                               !.handle = Live(t)]]
        /\ UNCHANGED <<keyFile, oldKeys, master, lock, req, delivered, keys, rows, kills,
                       now, resets, history>>
    BY DEF CliOpen
  <1>2. /\ vaults' \in [Paths -> (SUBSET Row) \cup {None}]
        /\ vaults'[Live(t)] # None
        /\ \A p \in Paths : vaults[p] # None => vaults'[p] = vaults[p]
        /\ \A p \in Paths : WebRows(p)' = WebRows(p)
    BY <1>1, OpenedFacts
  <1>3. Live(t) \in Paths /\ Live(t).tenant = t
    BY PathFacts
  <1>4. /\ cmd' \in [Commands -> Command]
        /\ cmd'[c].pc = "open" /\ cmd'[c].tenant = t /\ cmd'[c].handle = Live(t)
        /\ cmd'[c].key = cmd[c].key
        /\ \A d \in Commands : d # c => cmd'[d] = cmd[d]
    BY <1>1, <1>3 DEF TypeOK, Command
  <1>5. TypeOK'
    BY <1>1, <1>2, <1>4 DEF TypeOK
  <1>6. LockInv'
    BY <1>1, <1>2, PathFacts DEF LockInv, KeyMoving, TypeOK, Request
  <1>7. HandleInv'
    BY <1>1, <1>2, <1>3, <1>4 DEF HandleInv
  <1>8. LiveInv'
    BY <1>1, <1>2, PathFacts DEF LiveInv, Resetting, KeyMoving
  <1>. QED
    BY <1>5, <1>6, <1>7, <1>8

\* A command that commits preserves it: its row is not the web's.
LEMMA CliCommitBase ==
    ASSUME BaseInv, NEW c \in Commands, CliCommit(c)
    PROVE  BaseInv'
  <1> USE DEF BaseInv, history
  <1> DEFINE row == [id |-> rows + 1, key |-> cmd[c].key, by |-> "cli"]
             h == cmd[c].handle
  <1>1. /\ cmd[c].pc = "writing" /\ rows < MaxRows
        /\ vaults' = IF h = Lost THEN vaults ELSE [vaults EXCEPT ![h] = @ \cup {row}]
        /\ delivered' = delivered \cup {<<cmd[c].tenant, row>>}
        /\ rows' = rows + 1
        /\ cmd' = [cmd EXCEPT ![c] = NoCommand]
        /\ replacedRows' = IF h = Lost THEN replacedRows \cup {<<cmd[c].tenant, row>>}
                           ELSE replacedRows
        /\ UNCHANGED <<keyFile, oldKeys, master, lock, req, keys, kills, now, resets,
                       resetFailed, resetsAt, replacedKeys>>
    BY DEF CliCommit
  <1>2. /\ cmd[c].key \in Keys /\ cmd[c].tenant \in Tenants
        /\ h # Lost => h \in Paths /\ vaults[h] # None
    BY <1>1 DEF HandleInv
  <1>3. row \in Row /\ rows + 1 \in 0..MaxRows /\ row.by = "cli"
    BY <1>1, <1>2, TenantFilesAssumption DEF Row, TypeOK
  <1> HIDE DEF row, h
  <1>4. /\ vaults' \in [Paths -> (SUBSET Row) \cup {None}]
        /\ \A p \in Paths : vaults[p] # None => vaults'[p] # None
        /\ \A p \in Paths : vaults[p] = None => vaults'[p] = None
        /\ \A p \in Paths : WebRows(p)' = WebRows(p)
    <2>1. CASE h = Lost
      BY <1>1, <2>1 DEF TypeOK, WebRows
    <2>2. CASE h # Lost
      <3>1. vaults[h] \cup {row} \in SUBSET Row
        BY <2>2, <1>2, <1>3 DEF TypeOK
      <3>2. vaults[h] \cup {row} # None
        BY <3>1, TenantFilesAssumption
      <3>3. /\ vaults' \in [Paths -> (SUBSET Row) \cup {None}]
            /\ vaults'[h] = vaults[h] \cup {row}
            /\ \A p \in Paths : p # h => vaults'[p] = vaults[p]
        BY <2>2, <1>1, <1>2, <3>1 DEF TypeOK
      <3>4. ASSUME NEW p \in Paths PROVE WebRows(p)' = WebRows(p)
        <4>1. CASE p # h
          BY <4>1, <3>3 DEF WebRows
        <4>2. CASE p = h
          BY <4>2, <1>2, <1>3, <2>2, <3>2, <3>3 DEF WebRows
        <4>. QED
          BY <4>1, <4>2
      <3>. QED
        BY <1>2, <2>2, <3>2, <3>3, <3>4
    <2>. QED
      BY <2>1, <2>2
  <1>5. /\ cmd' \in [Commands -> Command] /\ cmd'[c] = NoCommand
        /\ \A d \in Commands : d # c => cmd'[d] = cmd[d]
    BY <1>1, EmptyFacts DEF TypeOK
  <1>6. TypeOK'
    BY <1>1, <1>2, <1>3, <1>4, <1>5 DEF TypeOK
  <1>7. LockInv'
    BY <1>1, <1>4, PathFacts DEF LockInv, KeyMoving, TypeOK, Request
  <1>8. HandleInv'
    BY <1>1, <1>4, <1>5 DEF HandleInv, NoCommand
  <1>9. LiveInv'
    BY <1>1, <1>4, PathFacts DEF LiveInv, Resetting, KeyMoving
  <1>. QED
    BY <1>6, <1>7, <1>8, <1>9

\* Every step of the system preserves it.
LEMMA NextBase == BaseInv /\ [Next]_vars => BaseInv'
  <1> SUFFICES ASSUME BaseInv, [Next]_vars PROVE BaseInv'
    OBVIOUS
  <1>1. CASE UNCHANGED vars
    BY <1>1 DEF vars, history, BaseInv, TypeOK, LockInv, HandleInv, LiveInv, Resetting, KeyMoving,
               WebRows
  <1>2. ASSUME NEW r \in Slots, SecretReset(r) PROVE BaseInv'
    BY <1>2, SecretStampBase, SecretAcquireBase, ArchiveVaultBase, ArchiveKeyBase,
       TruncateKeyBase, WriteKeyBase, ReloadMasterBase, FailResetBase DEF SecretReset
  <1>3. ASSUME NEW r \in Slots, EndWrite(r) \/ \E t \in Tenants : OpenVault(r, t)
        PROVE  BaseInv'
    BY <1>3, EndWriteBase, OpenVaultBase
  <1>4. ASSUME NEW t \in Tenants, VaultReset(t) PROVE BaseInv'
    BY <1>4, VaultResetBase
  <1>5. ASSUME NEW c \in Commands,
               \/ LoadKey(c) \/ CliInsert(c) \/ CliCommit(c) \/ CliStop(c)
               \/ \E t \in Tenants : CliOpen(c, t)
        PROVE  BaseInv'
    BY <1>5, LoadKeyBase, CliInsertBase, CliCommitBase, CliStopBase, CliOpenBase
  <1>6. CASE Kill \/ Start \/ StartWithNewKey \/ Tick
    BY <1>6, KillBase, StartBase, StartWithNewKeyBase, TickBase
  <1>. QED
    BY <1>1, <1>2, <1>3, <1>4, <1>5, <1>6 DEF Next

\* The first layer holds throughout.
THEOREM BaseInvariance == Spec => []BaseInv
  BY InitBase, NextBase, PTL DEF Spec

\* Files, requests and commands keep their types; so no row is written to a
\* vault file that is not there.
THEOREM TypesHold == Spec => []TypeOK
  BY BaseInvariance, PTL DEF BaseInv

\* While nothing holds app.LOCK and no secret reset has failed halfway, the web
\* application can read every row it has put into the vaults it serves.
THEOREM ServedVaultsReadable == Spec => []LiveUnderMaster
  <1>1. BaseInv => LiveUnderMaster
    BY TenantFilesAssumption
       DEF BaseInv, LiveInv, LockInv, LiveUnderMaster, KeyMoving, TypeOK
  <1>. QED
    BY <1>1, BaseInvariance, PTL

-------------------------------------------------------------------------------
(* The second layer: the archives                                             *)

\* Nothing is archived under a stamp that no reset has taken before.
LEMMA SecretStampKept ==
    ASSUME IInv, NEW r \in Slots, SecretStamp(r)
    PROVE  StampInv' /\ KeptInv' /\ PairInv'
  <1> USE TenantFilesAssumption DEF IInv, BaseInv, history, SecretStamp
  <1>1. StampInv'
    <2>1. /\ req[r].pc = "idle" /\ now \in Stamps
          /\ UNCHANGED <<vaults, oldKeys>>
          /\ \A q \in Slots : req[q].stamp \in Stamps
      BY DEF TypeOK, Request
    <2>2. /\ req'[r].pc = "stamped" /\ req'[r].stamp = now
          /\ \A q \in Slots : q # r => req'[q] = req[q]
      BY DEF TypeOK, Request
    <2>3. /\ resetsAt'[now] = resetsAt[now] + 1 /\ resetsAt[now] \in Nat
          /\ \A s \in Stamps : /\ resetsAt[s] \in Nat /\ resetsAt'[s] \in Nat
                               /\ resetsAt[s] <= resetsAt'[s]
                               /\ s # now => resetsAt'[s] = resetsAt[s]
      BY <2>1 DEF TypeOK
    <2>4. \A s \in Stamps : /\ resetsAt[s] >= 1 => resetsAt'[s] >= 1
                            /\ resetsAt[s] >= 2 => resetsAt'[s] >= 2
                            /\ resetsAt'[s] < 2 => resetsAt[s] < 2
      BY <2>3
    <2>5. /\ resetsAt'[now] >= 1
          /\ resetsAt[now] >= 1 => resetsAt'[now] >= 2
          /\ resetsAt'[now] < 2 => ~(resetsAt[now] >= 1)
          /\ resetsAt'[now] >= 2 => ~(resetsAt'[now] < 2)
      BY <2>3
    <2>6. resetsAt'[now] < 2 =>
              oldKeys[now] = None /\ \A t \in Tenants : vaults[PreReset(t, now)] = None
      BY <2>1, <2>5 DEF StampInv
    <2>7. /\ ~Resetting(r)' /\ Stamping(r)'
          /\ \A q \in Slots : q # r => (Stamping(q)' <=> Stamping(q))
      BY <2>2 DEF Stamping, Resetting
    <2>8. /\ \A s \in Stamps : oldKeys'[s] # None => resetsAt'[s] >= 1
          /\ \A t \in Tenants, s \in Stamps :
                 vaults'[PreReset(t, s)] # None => resetsAt'[s] >= 1
          /\ \A q \in Slots : Stamping(q)' => resetsAt'[req'[q].stamp] >= 1
      BY <2>1, <2>2, <2>4, <2>5, <2>7 DEF StampInv
    <2>9. ASSUME NEW q \in Slots, NEW x \in Slots, q # x, Stamping(q)', Stamping(x)',
                 req'[q].stamp = req'[x].stamp
          PROVE  resetsAt'[req'[x].stamp] >= 2
      <3>1. CASE q # r /\ x # r
        BY <2>1, <2>2, <2>4, <2>7, <2>9, <3>1 DEF StampInv
      <3>2. CASE x = r
        BY <2>1, <2>2, <2>5, <2>7, <2>9, <3>2 DEF StampInv
      <3>3. CASE q = r
        BY <2>1, <2>2, <2>5, <2>7, <2>9, <3>3 DEF StampInv
      <3>. QED
        BY <3>1, <3>2, <3>3
    <2>10. \A q \in Slots :
               req'[q].pc \in {"stamped", "archiving"} /\ resetsAt'[req'[q].stamp] < 2
                   => oldKeys'[req'[q].stamp] = None
      BY <2>1, <2>2, <2>4, <2>6 DEF StampInv
    <2>11. \A q \in Slots : \A t \in Tenants :
               /\ req'[q].pc = "stamped" \/ (req'[q].pc = "archiving" /\ t \in req'[q].todo)
               /\ resetsAt'[req'[q].stamp] < 2
               => vaults'[PreReset(t, req'[q].stamp)] = None
      BY <2>1, <2>2, <2>4, <2>6 DEF StampInv
    <2>. QED
      BY <2>8, <2>9, <2>10, <2>11 DEF StampInv
  <1>2. \A k \in Keys : k \in KeysKept => k \in KeysKept'
    BY DEF KeysKept, KeysOnDisk, TypeOK, Request, LockInv, KeyArchive
  <1>3. KeptInv'
    BY <1>2 DEF KeptInv, Recoverable, TypeOK, Command, NoCommand, LockInv, HandleInv,
                KeysKept, KeysOnDisk, Row, KeyAccepted
  <1>4. PairInv'
    <2>1. /\ req'[r].pc = "stamped"
          /\ \A q \in Slots : q # r => req'[q] = req[q]
          /\ \A q \in Slots : req[q].stamp \in Stamps
      BY DEF TypeOK, Request
    <2>2. \A s \in Stamps : resetsAt'[s] < 2 => resetsAt[s] < 2
      BY DEF TypeOK
    <2>3. \A p \in Paths : WebRows(p)' = WebRows(p)
      BY DEF WebRows
    <2>4. \A t \in Tenants, s \in Stamps : PreReset(t, s) \in Paths
      BY PathFacts
    <2>5. PairedArchives'
      BY <2>2, <2>3, <2>4 DEF PairInv, PairedArchives
    <2>. QED
      BY <2>1, <2>2, <2>3, <2>4, <2>5 DEF PairInv
  <1>. QED
    BY <1>1, <1>3, <1>4

\* Taking the lock keeps the stamp, under which nothing is archived yet.
LEMMA SecretAcquireKept ==
    ASSUME IInv, NEW r \in Slots, SecretAcquire(r)
    PROVE  StampInv' /\ KeptInv' /\ PairInv'
  <1> USE TenantFilesAssumption DEF IInv, BaseInv, history, SecretAcquire
  <1>1. StampInv'
    BY DEF StampInv, TypeOK, Request, NoRequest, Resetting, LockInv, Stamping, Stamps,
           KeyArchive
  <1>2. \A k \in Keys : k \in KeysKept => k \in KeysKept'
    BY DEF KeysKept, KeysOnDisk, TypeOK, Request, LockInv, KeyArchive
  <1>3. KeptInv'
    BY <1>2 DEF KeptInv, Recoverable, TypeOK, Command, NoCommand, LockInv, HandleInv,
                KeysKept, KeysOnDisk, Row, KeyAccepted
  <1>4. PairInv'
    BY DEF PairInv, PairedArchives, WebRows, TypeOK, Request, NoRequest, LockInv, StampInv,
           LiveInv, Stamping, Resetting, KeyMoving, KeyArchive
  <1>. QED
    BY <1>1, <1>3, <1>4

\* Archiving the key keeps every key, the one it replaces among those replaced.
LEMMA ArchiveKeyKept ==
    ASSUME IInv, NEW r \in Slots, ArchiveKey(r)
    PROVE  StampInv' /\ KeptInv' /\ PairInv'
  <1> USE TenantFilesAssumption DEF IInv, BaseInv, history, ArchiveKey
  <1>1. StampInv'
    BY DEF StampInv, TypeOK, Request, NoRequest, Resetting, LockInv, Stamping, Stamps,
           KeyArchive
  <1>2. \A k \in Keys : k \in KeysKept => k \in KeysKept'
    BY DEF KeysKept, KeysOnDisk, TypeOK, Request, LockInv, KeyArchive
  <1>3. KeptInv'
    BY <1>2 DEF KeptInv, Recoverable, TypeOK, Command, NoCommand, LockInv, HandleInv,
                KeysKept, KeysOnDisk, Row, KeyAccepted
  <1>4. PairInv'
    BY DEF PairInv, PairedArchives, WebRows, TypeOK, Request, NoRequest, LockInv, StampInv,
           LiveInv, Stamping, Resetting, KeyMoving, KeyArchive
  <1>. QED
    BY <1>1, <1>3, <1>4

\* Truncating the key file loses no key: it has been archived.
LEMMA TruncateKeyKept ==
    ASSUME IInv, NEW r \in Slots, TruncateKey(r)
    PROVE  StampInv' /\ KeptInv' /\ PairInv'
  <1> USE TenantFilesAssumption DEF IInv, BaseInv, history, TruncateKey
  <1>1. StampInv'
    BY DEF StampInv, TypeOK, Request, NoRequest, Resetting, LockInv, Stamping, Stamps,
           KeyArchive
  <1>2. \A k \in Keys : k \in KeysKept => k \in KeysKept'
    BY DEF KeysKept, KeysOnDisk, TypeOK, Request, LockInv, KeyArchive
  <1>3. KeptInv'
    BY <1>2 DEF KeptInv, Recoverable, TypeOK, Command, NoCommand, LockInv, HandleInv,
                KeysKept, KeysOnDisk, Row, KeyAccepted
  <1>4. PairInv'
    BY DEF PairInv, PairedArchives, WebRows, TypeOK, Request, NoRequest, LockInv, StampInv,
           LiveInv, Stamping, Resetting, KeyMoving, KeyArchive
  <1>. QED
    BY <1>1, <1>3, <1>4

\* Writing the new key loses none: the file was cut short.
LEMMA WriteKeyKept ==
    ASSUME IInv, NEW r \in Slots, WriteKey(r)
    PROVE  StampInv' /\ KeptInv' /\ PairInv'
  <1> USE TenantFilesAssumption DEF IInv, BaseInv, history, WriteKey
  <1>1. StampInv'
    BY DEF StampInv, TypeOK, Request, NoRequest, Resetting, LockInv, Stamping, Stamps,
           KeyArchive
  <1>2. \A k \in Keys : k \in KeysKept => k \in KeysKept'
    BY DEF KeysKept, KeysOnDisk, TypeOK, Request, LockInv, KeyArchive
  <1>3. KeptInv'
    BY <1>2 DEF KeptInv, Recoverable, TypeOK, Command, NoCommand, LockInv, HandleInv,
                KeysKept, KeysOnDisk, Row, KeyAccepted
  <1>4. PairInv'
    BY DEF PairInv, PairedArchives, WebRows, TypeOK, Request, NoRequest, LockInv, StampInv,
           LiveInv, Stamping, Resetting, KeyMoving, KeyArchive
  <1>. QED
    BY <1>1, <1>3, <1>4

\* The key read into memory is on disk.
LEMMA ReloadMasterKept ==
    ASSUME IInv, NEW r \in Slots, ReloadMaster(r)
    PROVE  StampInv' /\ KeptInv' /\ PairInv'
  <1> USE TenantFilesAssumption DEF IInv, BaseInv, history, ReloadMaster
  <1>1. StampInv'
    BY DEF StampInv, TypeOK, Request, NoRequest, Resetting, LockInv, Stamping, Stamps,
           KeyArchive
  <1>2. \A k \in Keys : k \in KeysKept => k \in KeysKept'
    BY DEF KeysKept, KeysOnDisk, TypeOK, Request, LockInv, KeyArchive
  <1>3. KeptInv'
    BY <1>2 DEF KeptInv, Recoverable, TypeOK, Command, NoCommand, LockInv, HandleInv,
                KeysKept, KeysOnDisk, Row, KeyAccepted
  <1>4. PairInv'
    BY DEF PairInv, PairedArchives, WebRows, TypeOK, Request, NoRequest, LockInv, StampInv,
           LiveInv, Stamping, Resetting, KeyMoving, KeyArchive
  <1>. QED
    BY <1>1, <1>3, <1>4

\* A reset that fails leaves keys and archives.
LEMMA FailResetKept ==
    ASSUME IInv, NEW r \in Slots, FailReset(r)
    PROVE  StampInv' /\ KeptInv' /\ PairInv'
  <1> USE TenantFilesAssumption DEF IInv, BaseInv, history, FailReset
  <1>1. StampInv'
    BY DEF StampInv, TypeOK, Request, NoRequest, Resetting, LockInv, Stamping, Stamps,
           KeyArchive
  <1>2. \A k \in Keys : k \in KeysKept => k \in KeysKept'
    BY DEF KeysKept, KeysOnDisk, TypeOK, Request, LockInv, KeyArchive
  <1>3. KeptInv'
    BY <1>2 DEF KeptInv, Recoverable, TypeOK, Command, NoCommand, LockInv, HandleInv,
                KeysKept, KeysOnDisk, Row, KeyAccepted
  <1>4. PairInv'
    BY DEF PairInv, PairedArchives, WebRows, TypeOK, Request, NoRequest, LockInv, StampInv,
           LiveInv, Stamping, Resetting, KeyMoving, KeyArchive
  <1>. QED
    BY <1>1, <1>3, <1>4

\* A kill leaves keys and archives.
LEMMA KillKept ==
    ASSUME IInv, Kill
    PROVE  StampInv' /\ KeptInv' /\ PairInv'
  <1> USE TenantFilesAssumption DEF IInv, BaseInv, history, Kill
  <1>1. StampInv'
    BY DEF StampInv, TypeOK, Request, NoRequest, Resetting, LockInv, Stamping, Stamps,
           KeyArchive
  <1>2. \A k \in Keys : k \in KeysKept => k \in KeysKept'
    BY DEF KeysKept, KeysOnDisk, TypeOK, Request, LockInv, KeyArchive
  <1>3. KeptInv'
    BY <1>2 DEF KeptInv, Recoverable, TypeOK, Command, NoCommand, LockInv, HandleInv,
                KeysKept, KeysOnDisk, Row, KeyAccepted
  <1>4. PairInv'
    BY DEF PairInv, PairedArchives, WebRows, TypeOK, Request, NoRequest, LockInv, StampInv,
           LiveInv, Stamping, Resetting, KeyMoving, KeyArchive
  <1>. QED
    BY <1>1, <1>3, <1>4

\* A restart takes the key on disk.
LEMMA StartKept ==
    ASSUME IInv, Start
    PROVE  StampInv' /\ KeptInv' /\ PairInv'
  <1> USE TenantFilesAssumption DEF IInv, BaseInv, history, Start
  <1>1. StampInv'
    BY DEF StampInv, TypeOK, Request, NoRequest, Resetting, LockInv, Stamping, Stamps,
           KeyArchive
  <1>2. \A k \in Keys : k \in KeysKept => k \in KeysKept'
    BY DEF KeysKept, KeysOnDisk, TypeOK, Request, LockInv, KeyArchive
  <1>3. KeptInv'
    BY <1>2 DEF KeptInv, Recoverable, TypeOK, Command, NoCommand, LockInv, HandleInv,
                KeysKept, KeysOnDisk, Row, KeyAccepted
  <1>4. PairInv'
    BY DEF PairInv, PairedArchives, WebRows, TypeOK, Request, NoRequest, LockInv, StampInv,
           LiveInv, Stamping, Resetting, KeyMoving, KeyArchive
  <1>. QED
    BY <1>1, <1>3, <1>4

\* A start that makes a key replaces none.
LEMMA StartWithNewKeyKept ==
    ASSUME IInv, StartWithNewKey
    PROVE  StampInv' /\ KeptInv' /\ PairInv'
  <1> USE TenantFilesAssumption DEF IInv, BaseInv, history, StartWithNewKey
  <1>1. StampInv'
    BY DEF StampInv, TypeOK, Request, NoRequest, Resetting, LockInv, Stamping, Stamps,
           KeyArchive
  <1>2. \A k \in Keys : k \in KeysKept => k \in KeysKept'
    BY DEF KeysKept, KeysOnDisk, TypeOK, Request, LockInv, KeyArchive
  <1>3. KeptInv'
    BY <1>2 DEF KeptInv, Recoverable, TypeOK, Command, NoCommand, LockInv, HandleInv,
                KeysKept, KeysOnDisk, Row, KeyAccepted
  <1>4. PairInv'
    BY DEF PairInv, PairedArchives, WebRows, TypeOK, Request, NoRequest, LockInv, StampInv,
           LiveInv, Stamping, Resetting, KeyMoving, KeyArchive
  <1>. QED
    BY <1>1, <1>3, <1>4

\* The key a command reads is on disk.
LEMMA LoadKeyKept ==
    ASSUME IInv, NEW c \in Commands, LoadKey(c)
    PROVE  StampInv' /\ KeptInv' /\ PairInv'
  <1> USE TenantFilesAssumption DEF IInv, BaseInv, history, LoadKey
  <1>1. StampInv'
    BY DEF StampInv, TypeOK, Request, NoRequest, Resetting, LockInv, Stamping, Stamps,
           KeyArchive
  <1>2. \A k \in Keys : k \in KeysKept => k \in KeysKept'
    BY DEF KeysKept, KeysOnDisk, TypeOK, Request, LockInv, KeyArchive
  <1>3. KeptInv'
    BY <1>2 DEF KeptInv, Recoverable, TypeOK, Command, NoCommand, LockInv, HandleInv,
                KeysKept, KeysOnDisk, Row, KeyAccepted
  <1>4. PairInv'
    BY DEF PairInv, PairedArchives, WebRows, TypeOK, Request, NoRequest, LockInv, StampInv,
           LiveInv, Stamping, Resetting, KeyMoving, KeyArchive
  <1>. QED
    BY <1>1, <1>3, <1>4

\* A command's first INSERT leaves keys and archives.
LEMMA CliInsertKept ==
    ASSUME IInv, NEW c \in Commands, CliInsert(c)
    PROVE  StampInv' /\ KeptInv' /\ PairInv'
  <1> USE TenantFilesAssumption DEF IInv, BaseInv, history, CliInsert
  <1>1. StampInv'
    BY DEF StampInv, TypeOK, Request, NoRequest, Resetting, LockInv, Stamping, Stamps,
           KeyArchive
  <1>2. \A k \in Keys : k \in KeysKept => k \in KeysKept'
    BY DEF KeysKept, KeysOnDisk, TypeOK, Request, LockInv, KeyArchive
  <1>3. KeptInv'
    BY <1>2 DEF KeptInv, Recoverable, TypeOK, Command, NoCommand, LockInv, HandleInv,
                KeysKept, KeysOnDisk, Row, KeyAccepted
  <1>4. PairInv'
    BY DEF PairInv, PairedArchives, WebRows, TypeOK, Request, NoRequest, LockInv, StampInv,
           LiveInv, Stamping, Resetting, KeyMoving, KeyArchive
  <1>. QED
    BY <1>1, <1>3, <1>4

\* A command that stops leaves keys and archives.
LEMMA CliStopKept ==
    ASSUME IInv, NEW c \in Commands, CliStop(c)
    PROVE  StampInv' /\ KeptInv' /\ PairInv'
  <1> USE TenantFilesAssumption DEF IInv, BaseInv, history, CliStop
  <1>1. StampInv'
    BY DEF StampInv, TypeOK, Request, NoRequest, Resetting, LockInv, Stamping, Stamps,
           KeyArchive
  <1>2. \A k \in Keys : k \in KeysKept => k \in KeysKept'
    BY DEF KeysKept, KeysOnDisk, TypeOK, Request, LockInv, KeyArchive
  <1>3. KeptInv'
    BY <1>2 DEF KeptInv, Recoverable, TypeOK, Command, NoCommand, LockInv, HandleInv,
                KeysKept, KeysOnDisk, Row, KeyAccepted
  <1>4. PairInv'
    BY DEF PairInv, PairedArchives, WebRows, TypeOK, Request, NoRequest, LockInv, StampInv,
           LiveInv, Stamping, Resetting, KeyMoving, KeyArchive
  <1>. QED
    BY <1>1, <1>3, <1>4

\* Time passing leaves keys and archives.
LEMMA TickKept ==
    ASSUME IInv, Tick
    PROVE  StampInv' /\ KeptInv' /\ PairInv'
  <1> USE TenantFilesAssumption DEF IInv, BaseInv, history, Tick
  <1>1. StampInv'
    BY DEF StampInv, TypeOK, Request, NoRequest, Resetting, LockInv, Stamping, Stamps,
           KeyArchive
  <1>2. \A k \in Keys : k \in KeysKept => k \in KeysKept'
    BY DEF KeysKept, KeysOnDisk, TypeOK, Request, LockInv, KeyArchive
  <1>3. KeptInv'
    BY <1>2 DEF KeptInv, Recoverable, TypeOK, Command, NoCommand, LockInv, HandleInv,
                KeysKept, KeysOnDisk, Row, KeyAccepted
  <1>4. PairInv'
    BY DEF PairInv, PairedArchives, WebRows, TypeOK, Request, NoRequest, LockInv, StampInv,
           LiveInv, Stamping, Resetting, KeyMoving, KeyArchive
  <1>. QED
    BY <1>1, <1>3, <1>4

\* A request that opens its vault touches no archive.
LEMMA OpenVaultKept ==
    ASSUME IInv, NEW r \in Slots, NEW t \in Tenants, OpenVault(r, t)
    PROVE  StampInv' /\ KeptInv' /\ PairInv'
  <1> USE DEF IInv, BaseInv, history
  <1>1. /\ req[r].pc = "idle" /\ vaults' = Opened(Live(t))
        /\ req' = [req EXCEPT ![r] = [@ EXCEPT !.pc = "writing", !.tenant = t]]
        /\ UNCHANGED <<keyFile, oldKeys, master, cmd, delivered, keys, rows, kills, now,
                       resets, history>>
    BY DEF OpenVault
  <1>2. /\ \A p \in Paths : vaults[p] # None => vaults'[p] = vaults[p]
        /\ \A p \in Paths : p # Live(t) => vaults'[p] = vaults[p]
        /\ \A p \in Paths : WebRows(p)' = WebRows(p)
    BY <1>1, OpenedFacts
  <1>3. /\ req'[r].pc = "writing"
        /\ \A q \in Slots : q # r => req'[q] = req[q]
    BY <1>1 DEF TypeOK, Request
  <1>4. StampInv'
    <2>1. \A q \in Slots : Stamping(q)' => q # r /\ Stamping(q) /\ req'[q] = req[q]
      BY <1>3 DEF Stamping, Resetting
    <2>2. \A p \in Paths : p.kind # "live" => vaults'[p] = vaults[p]
      BY <1>2, PathFacts
    <2>3. \A u \in Tenants, s \in Stamps : vaults'[PreReset(u, s)] = vaults[PreReset(u, s)]
      BY <2>2, PathFacts
    <2>4. \A q \in Slots : req[q].stamp \in Stamps
      BY DEF TypeOK, Request
    <2>. QED
      BY <1>1, <1>3, <2>1, <2>2, <2>3, <2>4 DEF StampInv
  <1>5. KeptInv'
    BY <1>1, <1>2 DEF KeptInv, Recoverable, KeysKept, KeysOnDisk
  <1>6. PairInv'
    BY <1>1, <1>2, <1>3, PathFacts DEF PairInv, PairedArchives, TypeOK, Request
  <1>. QED
    BY <1>4, <1>5, <1>6

\* A row a request commits goes to its tenant's vault under the key in memory.
LEMMA EndWriteKept ==
    ASSUME IInv, NEW r \in Slots, EndWrite(r)
    PROVE  StampInv' /\ KeptInv' /\ PairInv'
  <1> USE DEF IInv, BaseInv, history
  <1> DEFINE t == req[r].tenant
             row == [id |-> rows + 1, key |-> master, by |-> "web"]
  <1>1. /\ req[r].pc = "writing"
        /\ req' = [req EXCEPT ![r] = NoRequest]
        /\ UNCHANGED <<keyFile, oldKeys, master, cmd, keys, kills, now, resets, history>>
        /\ \/ /\ vaults' = [vaults EXCEPT ![Live(t)] = @ \cup {row}]
              /\ rows < MaxRows
              /\ delivered' = delivered \cup {<<t, row>>}
           \/ UNCHANGED <<vaults, delivered>>
    BY DEF EndWrite
  <1>2. /\ master \in Keys /\ master # None /\ t \in Tenants
        /\ Live(t) \in Paths /\ Live(t).tenant = t /\ vaults[Live(t)] # None
    BY <1>1, PathFacts, TenantFilesAssumption DEF LockInv, TypeOK
  <1>3. /\ req'[r].pc = "idle"
        /\ \A q \in Slots : q # r => req'[q] = req[q]
    BY <1>1, EmptyFacts DEF TypeOK, NoRequest
  <1>4. row.key = master /\ (rows < MaxRows => row \in Row)
    BY <1>2, TenantFilesAssumption DEF Row, TypeOK
  <1> HIDE DEF row
  <1>5. /\ \A p \in Paths : p # Live(t) => vaults'[p] = vaults[p]
        /\ vaults'[Live(t)] # None /\ vaults[Live(t)] \subseteq vaults'[Live(t)]
        /\ UNCHANGED delivered
           \/ (row \in vaults'[Live(t)] /\ delivered' = delivered \cup {<<t, row>>})
    <2>1. CASE UNCHANGED <<vaults, delivered>>
      BY <2>1, <1>2
    <2>2. CASE /\ vaults' = [vaults EXCEPT ![Live(t)] = @ \cup {row}]
               /\ rows < MaxRows
               /\ delivered' = delivered \cup {<<t, row>>}
      <3>1. vaults[Live(t)] \cup {row} \in SUBSET Row
        BY <2>2, <1>2, <1>4 DEF TypeOK
      <3>2. vaults[Live(t)] \cup {row} # None
        BY <3>1, TenantFilesAssumption
      <3>. QED
        BY <2>2, <1>2, <3>2 DEF TypeOK
    <2>. QED
      BY <1>1, <2>1, <2>2
  <1>6. StampInv'
    <2>1. \A q \in Slots : Stamping(q)' => q # r /\ Stamping(q) /\ req'[q] = req[q]
      BY <1>3 DEF Stamping, Resetting
    <2>2. \A p \in Paths : p.kind # "live" => vaults'[p] = vaults[p]
      BY <1>2, <1>5, PathFacts
    <2>3. \A u \in Tenants, s \in Stamps : vaults'[PreReset(u, s)] = vaults[PreReset(u, s)]
      BY <2>2, PathFacts
    <2>4. \A q \in Slots : req[q].stamp \in Stamps
      BY DEF TypeOK, Request
    <2>. QED
      BY <1>1, <1>3, <2>1, <2>2, <2>3, <2>4 DEF StampInv
  <1>7. KeptInv'
    <2>1. master \in KeysKept /\ KeysKept' = KeysKept
      BY <1>1, <1>2 DEF KeptInv, KeysKept, KeysOnDisk
    <2>2. ASSUME NEW u \in Tenants, NEW x \in Row, <<u, x>> \in delivered'
          PROVE  /\ \/ \E p \in Paths : p.tenant = u /\ vaults'[p] # None /\ x \in vaults'[p]
                    \/ <<u, x>> \in replacedRows
                 /\ x.key \in KeysKept'
      <3>1. CASE <<u, x>> \in delivered
        <4>1. \A p \in Paths : vaults[p] # None /\ x \in vaults[p]
                                   => vaults'[p] # None /\ x \in vaults'[p]
          BY <1>5
        <4>. QED
          BY <3>1, <4>1, <2>1 DEF KeptInv, Recoverable, KeysKept
      <3>2. CASE u = t /\ x = row /\ row \in vaults'[Live(t)]
        BY <3>2, <1>2, <1>4, <1>5, <2>1
      <3>. QED
        BY <2>2, <3>1, <3>2, <1>5
    <2>. QED
      BY <1>1, <2>1, <2>2 DEF KeptInv, Recoverable, KeysKept
  <1>8. PairInv'
    <2>1. \A p \in Paths : p # Live(t) => WebRows(p)' = WebRows(p)
      BY <1>5 DEF WebRows
    <2>2. \A u \in Tenants, s \in Stamps :
              PreReset(u, s) \in Paths /\ PreReset(u, s) # Live(t)
      BY <1>2, PathFacts
    <2>. QED
      BY <1>1, <1>3, <2>1, <2>2 DEF PairInv, PairedArchives, TypeOK, Request
  <1>. QED
    BY <1>6, <1>7, <1>8

\* A command that opens a vault touches no archive.
LEMMA CliOpenKept ==
    ASSUME IInv, NEW c \in Commands, NEW t \in Tenants, CliOpen(c, t)
    PROVE  StampInv' /\ KeptInv' /\ PairInv'
  <1> USE DEF IInv, BaseInv, history
  <1>1. /\ cmd[c].pc = "keyRead" /\ vaults' = Opened(Live(t))
        /\ cmd' = [cmd EXCEPT ![c] = [@ EXCEPT !.pc = "open", !.tenant = t,
                                               !.handle = Live(t)]]
        /\ UNCHANGED <<keyFile, oldKeys, master, lock, req, delivered, keys, rows, kills,
                       now, resets, history>>
    BY DEF CliOpen
  <1>2. /\ \A p \in Paths : vaults[p] # None => vaults'[p] = vaults[p]
        /\ \A p \in Paths : p # Live(t) => vaults'[p] = vaults[p]
        /\ \A p \in Paths : WebRows(p)' = WebRows(p)
    BY <1>1, OpenedFacts
  <1>3. /\ cmd'[c].key = cmd[c].key
        /\ \A d \in Commands : d # c => cmd'[d] = cmd[d]
    BY <1>1, PathFacts DEF TypeOK, Command
  <1>4. StampInv'
    <2>1. \A p \in Paths : p.kind # "live" => vaults'[p] = vaults[p]
      BY <1>2, PathFacts
    <2>2. \A u \in Tenants, s \in Stamps : vaults'[PreReset(u, s)] = vaults[PreReset(u, s)]
      BY <2>1, PathFacts
    <2>3. \A q \in Slots : req[q].stamp \in Stamps
      BY DEF TypeOK, Request
    <2>. QED
      BY <1>1, <2>1, <2>2, <2>3 DEF StampInv, Stamping, Resetting
  <1>5. KeptInv'
    BY <1>1, <1>2, <1>3 DEF KeptInv, Recoverable, KeysKept, KeysOnDisk
  <1>6. PairInv'
    BY <1>1, <1>2, PathFacts DEF PairInv, PairedArchives, TypeOK, Request
  <1>. QED
    BY <1>4, <1>5, <1>6

\* A row a command commits goes to a file of its tenant, under the key it read.
LEMMA CliCommitKept ==
    ASSUME IInv, NEW c \in Commands, CliCommit(c)
    PROVE  StampInv' /\ KeptInv' /\ PairInv'
  <1> USE DEF IInv, BaseInv, history
  <1> DEFINE row == [id |-> rows + 1, key |-> cmd[c].key, by |-> "cli"]
             h == cmd[c].handle
             t == cmd[c].tenant
  <1>1. /\ cmd[c].pc = "writing" /\ rows < MaxRows
        /\ h # Lost => vaults' = [vaults EXCEPT ![h] = @ \cup {row}]
        /\ h = Lost => vaults' = vaults
        /\ delivered' = delivered \cup {<<t, row>>}
        /\ cmd' = [cmd EXCEPT ![c] = NoCommand]
        /\ replacedRows \subseteq replacedRows'
        /\ h = Lost => <<t, row>> \in replacedRows'
        /\ UNCHANGED <<keyFile, oldKeys, master, lock, req, keys, kills, now, resets,
                       resetFailed, resetsAt, replacedKeys>>
    BY DEF CliCommit
  <1>2. /\ cmd[c].key \in Keys /\ t \in Tenants
        /\ h # Lost => h \in Paths /\ vaults[h] # None /\ h.tenant = t
    BY <1>1 DEF HandleInv
  <1>3. row \in Row /\ row.by = "cli" /\ row.key = cmd[c].key /\ cmd[c].key \in KeysKept
    BY <1>1, <1>2, TenantFilesAssumption DEF Row, TypeOK, KeptInv
  <1> HIDE DEF row, h
  <1>4. h # Lost => vaults[h] \cup {row} \in SUBSET Row /\ vaults[h] \cup {row} # None
    BY <1>2, <1>3, TenantFilesAssumption DEF TypeOK
  <1>5. /\ h # Lost => vaults'[h] = vaults[h] \cup {row}
        /\ \A p \in Paths : p # h => vaults'[p] = vaults[p]
    BY <1>1, <1>2 DEF TypeOK
  <1>6. \A p \in Paths : WebRows(p)' = WebRows(p)
    <2>1. CASE h = Lost
      BY <1>1, <2>1 DEF WebRows
    <2>2. CASE h # Lost
      BY <1>2, <1>3, <1>4, <1>5, <2>2 DEF WebRows
    <2>. QED
      BY <2>1, <2>2
  <1>7. cmd'[c] = NoCommand /\ \A d \in Commands : d # c => cmd'[d] = cmd[d]
    BY <1>1 DEF TypeOK
  <1>8. StampInv'
    <2>1. \A p \in Paths : vaults[p] = None <=> vaults'[p] = None
      BY <1>1, <1>2, <1>4, <1>5
    <2>2. \A u \in Tenants, q \in Slots : PreReset(u, req[q].stamp) \in Paths
      BY PathFacts DEF TypeOK, Request
    <2>. QED
      BY <1>1, <2>1, <2>2, PathFacts DEF StampInv, Stamping, Resetting
  <1>9. KeptInv'
    <2>1. KeysKept' = KeysKept
      BY <1>1 DEF KeysKept, KeysOnDisk
    <2>2. ASSUME NEW u \in Tenants, NEW x \in Row, <<u, x>> \in delivered'
          PROVE  /\ \/ \E p \in Paths : p.tenant = u /\ vaults'[p] # None /\ x \in vaults'[p]
                    \/ <<u, x>> \in replacedRows'
                 /\ x.key \in KeysKept'
      <3>1. CASE <<u, x>> \in delivered
        <4>1. \A p \in Paths : vaults[p] # None /\ x \in vaults[p]
                                   => vaults'[p] # None /\ x \in vaults'[p]
          BY <1>1, <1>2, <1>4, <1>5
        <4>. QED
          BY <1>1, <3>1, <4>1, <2>1 DEF KeptInv, Recoverable, KeysKept
      <3>2. CASE u = t /\ x = row
        BY <3>2, <1>1, <1>2, <1>3, <1>4, <1>5, <2>1
      <3>. QED
        BY <2>2, <3>1, <3>2, <1>1
    <2>3. \A d \in Commands : cmd'[d].pc # "idle" => cmd'[d].key \in KeysKept
      BY <1>7 DEF NoCommand, KeptInv
    <2>. QED
      BY <1>1, <2>1, <2>2, <2>3 DEF KeptInv, Recoverable, KeysKept
  <1>10. PairInv'
    BY <1>1, <1>6, PathFacts DEF PairInv, PairedArchives, TypeOK, Request
  <1>. QED
    BY <1>8, <1>9, <1>10

\* A rename loses no row but those of the archive it replaces, and no key.
LEMMA RenameKeeps ==
    ASSUME IInv, NEW from \in Paths, NEW to \in Paths, from # to, vaults[from] # None,
           vaults' = Renamed(from, to), cmd' = Followed(from, to),
           from.tenant = to.tenant,
           replacedRows' = replacedRows \cup Replaced(to, to.stamp),
           UNCHANGED <<keyFile, oldKeys, master, delivered, replacedKeys>>
    PROVE  KeptInv'
  <1>1. /\ vaults'[to] = vaults[from]
        /\ \A p \in Paths : p # from /\ p # to => vaults'[p] = vaults[p]
        /\ \A c \in Commands : cmd'[c].pc = cmd[c].pc /\ cmd'[c].key = cmd[c].key
    BY RenameFacts DEF IInv, BaseInv
  <1>2. KeysKept' = KeysKept
    BY DEF KeysKept, KeysOnDisk
  <1>3. ASSUME NEW p \in Paths, NEW x \in Row, vaults[p] # None, x \in vaults[p]
        PROVE  \/ \E q \in Paths : q.tenant = p.tenant /\ vaults'[q] # None /\ x \in vaults'[q]
               \/ <<p.tenant, x>> \in replacedRows'
    <2>1. CASE p = from
      BY <1>1, <1>3, <2>1
    <2>2. CASE p = to
      BY <1>3, <2>2, ReplacedFacts DEF IInv, BaseInv
    <2>3. CASE p # from /\ p # to
      BY <1>1, <1>3, <2>3
    <2>. QED
      BY <2>1, <2>2, <2>3
  <1>4. Recoverable'
    <2> SUFFICES ASSUME NEW u \in Tenants, NEW x \in Row, <<u, x>> \in delivered
                 PROVE  /\ \/ \E p \in Paths :
                                  p.tenant = u /\ vaults'[p] # None /\ x \in vaults'[p]
                           \/ <<u, x>> \in replacedRows'
                        /\ x.key \in KeysKept'
      BY DEF Recoverable, KeysKept
    <2>1. /\ \/ \E p \in Paths : p.tenant = u /\ vaults[p] # None /\ x \in vaults[p]
             \/ <<u, x>> \in replacedRows
          /\ x.key \in KeysKept
      BY DEF IInv, KeptInv, Recoverable, KeysKept
    <2>. QED
      BY <1>2, <1>3, <2>1
  <1>. QED
    BY <1>1, <1>2, <1>4 DEF IInv, KeptInv

\* A vault reset does not touch what a secret reset has archived.
LEMMA VaultResetKept ==
    ASSUME IInv, NEW t \in Tenants, VaultReset(t)
    PROVE  StampInv' /\ KeptInv' /\ PairInv'
  <1> DEFINE from == Live(t)
             to == ArchiveName(t)
  <1>1. /\ vaults[from] # None
        /\ vaults' = Renamed(from, to) /\ cmd' = Followed(from, to)
        /\ replacedRows' = replacedRows \cup Replaced(to, now)
        /\ UNCHANGED <<keyFile, oldKeys, master, req, delivered, resetFailed, resetsAt,
                       replacedKeys>>
    BY DEF VaultReset
  <1>2. /\ from \in Paths /\ to \in Paths /\ from # to /\ from.tenant = to.tenant
        /\ to.kind = "reset" /\ to.stamp = now /\ from.kind = "live"
    BY PathFacts DEF ArchiveName, IInv, BaseInv, TypeOK
  <1> HIDE DEF from, to
  <1>3. \A p \in Paths : p # from /\ p # to => vaults'[p] = vaults[p]
    BY <1>1, <1>2, RenameFacts DEF IInv, BaseInv
  <1>4. KeptInv'
    BY <1>1, <1>2, RenameKeeps
  <1>5. \A u \in Tenants, s \in Stamps : vaults'[PreReset(u, s)] = vaults[PreReset(u, s)]
    BY <1>2, <1>3, PathFacts
  <1>6. \A q \in Slots : req[q].stamp \in Stamps
    BY DEF IInv, BaseInv, TypeOK, Request
  <1>7. StampInv'
    BY <1>1, <1>5, <1>6 DEF IInv, StampInv, Stamping, Resetting
  <1>8. PairInv'
    BY <1>1, <1>5, <1>6 DEF IInv, PairInv, PairedArchives, WebRows
  <1>. QED
    BY <1>4, <1>7, <1>8

\* Archiving a vault in a secret reset: what the web wrote in it is under the key
\* that will be archived with it.
LEMMA ArchiveVaultKept ==
    ASSUME IInv, NEW r \in Slots, ArchiveVault(r)
    PROVE  StampInv' /\ KeptInv' /\ PairInv'
  <1>1. PICK t \in req[r].todo :
            /\ vaults' = Renamed(Live(t), PreReset(t, req[r].stamp))
            /\ cmd' = Followed(Live(t), PreReset(t, req[r].stamp))
            /\ req' = [req EXCEPT ![r].todo = @ \ {t}]
            /\ replacedRows' = replacedRows \cup
                                   Replaced(PreReset(t, req[r].stamp), req[r].stamp)
    BY DEF ArchiveVault
  <1>0. PICK st \in Stamps : st = req[r].stamp
    BY DEF IInv, BaseInv, TypeOK, Request
  <1> DEFINE from == Live(t)
             to == PreReset(t, st)
  <1>2. /\ req[r].pc = "archiving"
        /\ UNCHANGED <<keyFile, oldKeys, master, lock, delivered, keys, rows, kills, now,
                       resets, resetFailed, resetsAt, replacedKeys>>
    BY DEF ArchiveVault
  <1>3. /\ t \in Tenants /\ req[r].todo \subseteq Tenants /\ req[r].stamp \in Stamps
        /\ vaults[from] # None
    BY <1>0, <1>2 DEF IInv, BaseInv, TypeOK, Request, LockInv
  <1>4. /\ from \in Paths /\ to \in Paths /\ from # to /\ from.tenant = to.tenant
        /\ from.kind = "live" /\ to.kind = "prereset" /\ to.stamp = st
        /\ to.tenant = t
    BY <1>3, PathFacts
  <1>5. /\ vaults' = Renamed(from, to) /\ cmd' = Followed(from, to)
        /\ replacedRows' = replacedRows \cup Replaced(to, st)
    BY <1>0, <1>1
  <1>6. \A u \in Tenants, s \in Stamps :
            PreReset(u, s) = to => u = t /\ s = st
    BY <1>4, PathFacts
  <1> HIDE DEF from, to
  <1>7. /\ vaults'[to] = vaults[from] /\ vaults'[from] = None
        /\ \A p \in Paths : p # from /\ p # to => vaults'[p] = vaults[p]
    BY <1>3, <1>4, <1>5, RenameFacts DEF IInv, BaseInv
  <1>8. /\ req'[r].pc = "archiving" /\ req'[r].stamp = st
        /\ req'[r].todo = req[r].todo \ {t}
        /\ \A q \in Slots : q # r => req'[q] = req[q]
    BY <1>0, <1>1, <1>2, <1>3 DEF IInv, BaseInv, TypeOK, Request
  <1>9. KeptInv'
    BY <1>2, <1>3, <1>4, <1>5, RenameKeeps
  <1>10. \A u \in Tenants, s \in Stamps :
             /\ PreReset(u, s) \in Paths /\ PreReset(u, s) # from
             /\ PreReset(u, s) # to => vaults'[PreReset(u, s)] = vaults[PreReset(u, s)]
    BY <1>4, <1>7, PathFacts
  <1>11. StampInv'
    <2>1. \A q \in Slots : /\ req'[q].pc = req[q].pc /\ req'[q].stamp = req[q].stamp
                           /\ req[q].stamp \in Stamps
                           /\ req'[q].todo \subseteq req[q].todo
      BY <1>0, <1>2, <1>8 DEF IInv, BaseInv, TypeOK, Request
    <2>2. \A q \in Slots : Stamping(q)' <=> Stamping(q)
      BY <2>1 DEF Stamping, Resetting
    <2>3. \A u \in Tenants, s \in Stamps :
              vaults'[PreReset(u, s)] # None => resetsAt[s] >= 1
      <3>1. resetsAt[st] >= 1
        BY <1>0, <1>2 DEF IInv, StampInv, Stamping, Resetting
      <3>. QED
        BY <3>1, <1>6, <1>10 DEF IInv, StampInv
    <2>4. ASSUME NEW q \in Slots, NEW u \in Tenants,
                 req'[q].pc = "stamped" \/ (req'[q].pc = "archiving" /\ u \in req'[q].todo),
                 resetsAt[req[q].stamp] < 2
          PROVE  vaults'[PreReset(u, req'[q].stamp)] = None
      <3>1. vaults[PreReset(u, req[q].stamp)] = None
        BY <2>1, <2>4 DEF IInv, StampInv
      <3>2. PreReset(u, req[q].stamp) # to
        <4>1. SUFFICES ASSUME u = t, req[q].stamp = st PROVE FALSE
          BY <1>6, <2>1
        <4>2. Stamping(q) /\ Stamping(r)
          BY <1>2, <2>1, <2>4 DEF Stamping, Resetting
        <4>3. ~(resetsAt[st] >= 2)
          BY <1>0, <2>4, <4>1 DEF IInv, BaseInv, TypeOK
        <4>4. q = r
          BY <1>0, <4>1, <4>2, <4>3 DEF IInv, StampInv
        <4>. QED
          BY <1>8, <2>4, <4>1, <4>4
      <3>. QED
        BY <1>10, <2>1, <3>1, <3>2
    <2>. QED
      BY <1>2, <2>1, <2>2, <2>3, <2>4 DEF IInv, StampInv
  <1>12. WebRows(to)' = WebRows(from)
    BY <1>3, <1>7 DEF WebRows
  <1>13. PairInv'
    <2>1. /\ resetsAt[st] < 2 => oldKeys[st] = None
          /\ \A q \in Slots : req[q].pc = "archiving" => q = r
      BY <1>0, <1>2 DEF IInv, BaseInv, LockInv, StampInv
    <2>2. \A u \in Tenants, s \in Stamps : PreReset(u, s) # to =>
              WebRows(PreReset(u, s))' = WebRows(PreReset(u, s))
      BY <1>10 DEF WebRows
    <2>3. ~resetFailed => \A row \in WebRows(to)' : row.key = keyFile
      BY <1>3, <1>12 DEF IInv, BaseInv, LiveInv, from
    <2>4. PairedArchives'
      BY <1>2, <1>6, <2>1, <2>2 DEF IInv, PairInv, PairedArchives
    <2>5. ~resetFailed /\ resetsAt[st] < 2 => \A u \in Tenants : \A row \in WebRows(PreReset(u, st))' :
              row.key = keyFile
      <3> SUFFICES ASSUME ~resetFailed, resetsAt[st] < 2, NEW u \in Tenants,
                          NEW row \in WebRows(PreReset(u, st))'
                   PROVE  row.key = keyFile
        OBVIOUS
      <3>1. CASE PreReset(u, st) = to
        BY <2>3, <3>1
      <3>2. CASE PreReset(u, st) # to
        BY <1>0, <1>2, <2>2, <3>2 DEF IInv, PairInv
      <3>. QED
        BY <3>1, <3>2
    <2>. QED
      BY <1>2, <1>8, <2>1, <2>4, <2>5 DEF PairInv
  <1>. QED
    BY <1>9, <1>11, <1>13

\* A fresh data directory has no archives.
LEMMA InitIInv == Init => IInv
  <1> SUFFICES ASSUME Init PROVE IInv
    OBVIOUS
  <1>1. BaseInv
    BY InitBase
  <1>2. StampInv
    BY PathFacts DEF Init, StampInv, NoRequest, Stamping, Resetting
  <1>3. KeptInv
    BY TenantFilesAssumption DEF Init, KeptInv, Recoverable, NoCommand, KeysKept, KeysOnDisk
  <1>4. PairInv
    BY DEF Init, PairInv, PairedArchives, NoRequest
  <1>. QED
    BY <1>1, <1>2, <1>3, <1>4 DEF IInv

\* Every step preserves both layers.
LEMMA NextIInv == IInv /\ [Next]_vars => IInv'
  <1> SUFFICES ASSUME IInv, [Next]_vars PROVE IInv'
    OBVIOUS
  <1>0. BaseInv'
    BY NextBase DEF IInv
  <1> DEFINE Goal == StampInv' /\ KeptInv' /\ PairInv'
  <1>1. ASSUME UNCHANGED vars PROVE Goal
    <2>1. StampInv'
      BY <1>1 DEF vars, history, IInv, StampInv, Stamping, Resetting
    <2>2. KeptInv'
      BY <1>1 DEF vars, history, IInv, KeptInv, Recoverable, KeysKept, KeysOnDisk
    <2>3. PairInv'
      BY <1>1 DEF vars, history, IInv, PairInv, PairedArchives, WebRows
    <2>. QED
      BY <2>1, <2>2, <2>3
  <1>2. ASSUME NEW r \in Slots, SecretReset(r) PROVE Goal
    BY <1>2, SecretStampKept, SecretAcquireKept, ArchiveVaultKept, ArchiveKeyKept,
       TruncateKeyKept, WriteKeyKept, ReloadMasterKept, FailResetKept DEF SecretReset
  <1>3. ASSUME NEW r \in Slots, EndWrite(r) \/ \E t \in Tenants : OpenVault(r, t)
        PROVE  Goal
    BY <1>3, EndWriteKept, OpenVaultKept
  <1>4. ASSUME NEW t \in Tenants, VaultReset(t) PROVE Goal
    BY <1>4, VaultResetKept
  <1>5. ASSUME NEW c \in Commands,
               \/ LoadKey(c) \/ CliInsert(c) \/ CliCommit(c) \/ CliStop(c)
               \/ \E t \in Tenants : CliOpen(c, t)
        PROVE  Goal
    BY <1>5, LoadKeyKept, CliInsertKept, CliCommitKept, CliStopKept, CliOpenKept
  <1>6. ASSUME Kill \/ Start \/ StartWithNewKey \/ Tick PROVE Goal
    BY <1>6, KillKept, StartKept, StartWithNewKeyKept, TickKept
  <1>7. Goal
    BY <1>1, <1>2, <1>3, <1>4, <1>5, <1>6 DEF Next
  <1>. QED
    BY <1>0, <1>7 DEF IInv

\* Both layers hold throughout.
THEOREM Invariance == Spec => []IInv
  <1>1. IInv /\ [Next]_vars => IInv'
    BY NextIInv
  <1>. QED
    BY <1>1, InitIInv, PTL DEF Spec

\* Whatever was given out can be reversed, through resets, kills, failures and
\* commands that hold old handles: its row and its key are somewhere on disk,
\* unless a reset replaced an archive of the same second that held them.
THEOREM NothingLost == Spec => []Recoverable
  <1>1. IInv => Recoverable
    BY DEF IInv, KeptInv
  <1>. QED
    BY <1>1, Invariance, PTL

\* The archived key of a stamp that one secret reset took is the key of what the
\* web application wrote in the vaults archived under that stamp.
THEOREM ArchivesMatch == Spec => []PairedArchives
  <1>1. IInv => PairedArchives
    BY DEF IInv, PairInv
  <1>. QED
    BY <1>1, Invariance, PTL

===============================================================================
