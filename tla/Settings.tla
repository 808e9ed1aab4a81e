------------------------------ MODULE Settings ------------------------------
(***************************************************************************)
(* The configuration that the application reloads while it runs: the keep  *)
(* list and the field overrides, each a file with a cache keyed by its     *)
(* modification time (app.py), and the registry of vendor kits, rebuilt    *)
(* when the directory of user kits changes (vendor_kits.py).               *)
(*                                                                         *)
(* Worker is the request that holds app.LOCK; Admins are the threads that  *)
(* serve the administration endpoints, which do not take it.  Each thread  *)
(* is a small program whose steps interleave with the others' at every     *)
(* file operation and at every store to a module global.                   *)
(*                                                                         *)
(* A body is what a file says of each field: Unset when it says nothing.   *)
(* Time is counted in ticks of the file system's clock.                    *)
(***************************************************************************)
EXTENDS Naturals

CONSTANTS
    Worker,      \* the request that holds LOCK
    Admins,      \* threads of the administration endpoints
    Fields,      \* the field names that configuration speaks of
    KitBodies,   \* the rules an administrator may give the user kit
    Updates,     \* the changes made to the files: a field and its new action
    NoKit,       \* no such kit
    Torn,        \* a file truncated and not written yet
    Never,       \* no modification time recorded
    MaxTime,     \* bound on clock ticks
    MaxEdits     \* bound on changes to the files

Unset == "auto"
OverrideActions == {"keep", "mask", "redact"}
Actions == OverrideActions \cup {"text", "drop", Unset}
Bodies == [Fields -> Actions]
Empty == [f \in Fields |-> Unset]
Files == {"keep_fields", "field_overrides"}

\* What a file says of a field once it is loaded: the keep list only keeps, and
\* overrides with another action are left out.
Sayable(f) == [Fields -> {Unset} \cup IF f = "keep_fields" THEN {"keep"} ELSE OverrideActions]

Threads == Admins \cup {Worker}

ASSUME SettingsAssumption ==
    /\ Worker \notin Admins
    /\ Updates \subseteq Fields \X (OverrideActions \cup {Unset})
    /\ KitBodies \subseteq Bodies
    /\ NoKit \notin Bodies /\ Torn \notin Bodies /\ Torn # NoKit
    /\ Never \notin Nat
    /\ MaxTime \in Nat \ {0} /\ MaxEdits \in Nat

VARIABLES
    clock,        \* the file system's clock
    disk,         \* file -> its mtime (Never: absent) and body
    cache,        \* file -> the mtime and body a loader last stored
    inForce,      \* file -> the global that resolve_field reads
    kitDisk,      \* mtime of the user kits and the rules of the one kit
    kitsMtime,    \* _KITS_MTIME
    kits,         \* KITS: the rules of the user kit, or NoKit
    aliases,      \* ALIASES: whether it knows the user kit
    op,           \* what each thread is doing
    edits,        \* how many times a file changed
    versions,     \* history: file -> what it has said at its present mtime, as far
                  \* as a cache may still hold it
    kitVersions,  \* history: what the user kits have said at their present mtime
    overlapped,   \* history: whether another thread was rebuilding the registry
    rivals        \* when _KITS_MTIME was last recorded, and what such threads
                  \* had read by then

files == <<clock, disk, kitDisk, edits, versions, kitVersions>>
registry == <<kitsMtime, kits, aliases, overlapped, rivals>>
svars == <<files, registry, cache, inForce, op>>

Idle == [job |-> "none", pc |-> "idle", file |-> "keep_fields",
         seen |-> Never, got |-> Empty]
At(t, pc) == op[t].pc = pc
Goto(t, pc) == op' = [op EXCEPT ![t] = [@ EXCEPT !.pc = pc]]
Begin(t, job, pc, file) ==
    /\ At(t, "idle")
    /\ op' = [op EXCEPT ![t] = [Idle EXCEPT !.job = job, !.pc = pc, !.file = file]]

BuilderSteps == {"build", "store_kits", "store_aliases"}
Building(t) == op[t].pc \in BuilderSteps

SettingsInit(bodies, kit) ==
    /\ clock = 1
    /\ disk = [f \in Files |-> [mtime |-> IF bodies[f] = Empty THEN Never ELSE 1,
                                body |-> bodies[f]]]
    /\ cache = [f \in Files |-> [mtime |-> Never, body |-> Empty]]
    /\ inForce = [f \in Files |-> Empty]
    /\ kitDisk = [mtime |-> IF kit = NoKit THEN 0 ELSE 1, body |-> kit]
    /\ kitsMtime = Never
    /\ kits = kit
    /\ aliases = (kit # NoKit)
    /\ op = [t \in Threads |-> Idle]
    /\ edits = 0
    /\ versions = [f \in Files |-> {bodies[f]}]
    /\ kitVersions = {kit}
    /\ overlapped = FALSE /\ rivals = {}

-----------------------------------------------------------------------------
(* Files.                                                                  *)

Tick ==
    /\ clock < MaxTime
    /\ clock' = clock + 1
    /\ UNCHANGED <<disk, kitDisk, edits, versions, kitVersions, registry, cache, inForce, op>>

\* A torn file is not JSON, or has no lines: it reads as nothing.
Reading(body) == IF body = Torn THEN Empty ELSE body

\* A kit that does not parse is skipped.
KitReading(body) == IF body = Torn THEN NoKit ELSE body

WriteFile(f, body) ==
    /\ disk' = [disk EXCEPT ![f] = [mtime |-> clock, body |-> body]]
    /\ versions' = [versions EXCEPT ![f] =
                       {Reading(body)} \cup IF disk[f].mtime = clock THEN @ ELSE {}]
    /\ UNCHANGED <<clock, kitDisk, kitVersions>>

WriteKits(body) ==
    /\ kitDisk' = [mtime |-> clock, body |-> body]
    /\ kitVersions' = {KitReading(body)} \cup IF kitDisk.mtime = clock THEN kitVersions ELSE {}
    /\ UNCHANGED <<clock, disk, versions>>

Edited == edits < MaxEdits /\ edits' = edits + 1

\* An operator edits the keep list on the host.
HandEdit ==
    /\ Edited
    /\ \E u \in Updates :
         /\ u[2] \in {"keep", Unset}
         /\ WriteFile("keep_fields", [disk["keep_fields"].body EXCEPT ![u[1]] = u[2]])
    /\ UNCHANGED <<registry, cache, inForce, op>>

-----------------------------------------------------------------------------
(* load_keep_fields and load_field_overrides: stat, compare with the       *)
(* cache, read, store, and return whatever the cache holds by then.        *)

\* Where a load takes its caller.
Loaded(t, body) ==
    /\ inForce' = IF op[t].job \in {"request", "post"}
                  THEN [inForce EXCEPT ![op[t].file] = body] ELSE inForce
    /\ op' = [op EXCEPT ![t] =
                IF op[t].job # "request" THEN Idle
                ELSE IF op[t].file = "keep_fields"
                     THEN [@ EXCEPT !.pc = "stat", !.file = "field_overrides"]
                     ELSE [@ EXCEPT !.pc = "loaded"]]

LoadStat(t) ==
    LET f == op[t].file IN
    /\ At(t, "stat")
    /\ \/ disk[f].mtime = Never /\ Loaded(t, Empty)
       \/ /\ disk[f].mtime # Never /\ disk[f].mtime = cache[f].mtime
          /\ Goto(t, "return") /\ UNCHANGED inForce
       \/ /\ disk[f].mtime \notin {Never, cache[f].mtime}
          /\ op' = [op EXCEPT ![t] = [@ EXCEPT !.pc = "read", !.seen = disk[f].mtime]]
          /\ UNCHANGED inForce
    /\ UNCHANGED <<files, registry, cache>>

LoadRead(t) ==
    /\ At(t, "read")
    /\ op' = [op EXCEPT ![t] = [@ EXCEPT !.pc = "store",
                                         !.got = Reading(disk[op[t].file].body)]]
    /\ UNCHANGED <<files, registry, cache, inForce>>

LoadStore(t) ==
    /\ At(t, "store")
    /\ cache' = [cache EXCEPT ![op[t].file] = [mtime |-> op[t].seen, body |-> op[t].got]]
    /\ Goto(t, "return")
    /\ UNCHANGED <<files, registry, inForce>>

LoadReturn(t) ==
    /\ At(t, "return")
    /\ Loaded(t, cache[op[t].file].body)
    /\ UNCHANGED <<files, registry, cache>>

Load(t) == LoadStat(t) \/ LoadRead(t) \/ LoadStore(t) \/ LoadReturn(t)

\* GET /api/field-overrides.
GetOverrides(t) ==
    /\ Begin(t, "get", "stat", "field_overrides")
    /\ UNCHANGED <<files, registry, cache, inForce>>

-----------------------------------------------------------------------------
(* POST /api/field-overrides: save_field_overrides, then a load that is    *)
(* published to logmask.FIELD_OVERRIDES without LOCK.                      *)

\* Reads the file and folds the update in; what does not parse counts as empty.
PostOverride(t) ==
    LET current == Reading(disk["field_overrides"].body)
    IN  /\ Edited
        /\ At(t, "idle")
        /\ \E u \in Updates :
             op' = [op EXCEPT ![t] = [Idle EXCEPT !.job = "post", !.pc = "truncate",
                                                  !.file = "field_overrides",
                                                  !.got = [current EXCEPT ![u[1]] = u[2]]]]
        /\ UNCHANGED <<clock, disk, kitDisk, versions, kitVersions, registry, cache, inForce>>

SaveTruncate(t) ==
    /\ At(t, "truncate")
    /\ WriteFile("field_overrides", Torn)
    /\ Goto(t, "write")
    /\ UNCHANGED <<edits, registry, cache, inForce>>

SaveWrite(t) ==
    /\ At(t, "write")
    /\ WriteFile("field_overrides", op[t].got)
    /\ Goto(t, "reset")
    /\ UNCHANGED <<edits, registry, cache, inForce>>

\* The loaders about to store what they read at the file's present mtime.
InHand(f) == {u \in Threads : At(u, "store") /\ op[u].file = f /\ op[u].seen = disk[f].mtime}

\* Faulty variant of NoCache: the cache stays as it is.
CacheStays(f) == cache[f]

\* _overrides_cache is emptied: the next load reads the file whatever its mtime.
NoCache(f) == [mtime |-> Never, body |-> Empty]

SaveReset(t) ==
    LET f == "field_overrides" IN
    /\ At(t, "reset")
    /\ cache' = [cache EXCEPT ![f] = NoCache(f)]
    /\ versions' = [versions EXCEPT ![f] =
                       {Reading(disk[f].body)} \cup {op[u].got : u \in InHand(f)}]
    /\ Goto(t, "stat")
    /\ UNCHANGED <<clock, disk, kitDisk, edits, kitVersions, registry, inForce>>

Save(t) == SaveTruncate(t) \/ SaveWrite(t) \/ SaveReset(t)

-----------------------------------------------------------------------------
(* Vendor kits.                                                            *)

\* _KITS_MTIME is taken before the directory is read.
KitStat(t, always) ==
    /\ At(t, "kit_stat")
    /\ \/ /\ ~always /\ kitDisk.mtime = kitsMtime
          /\ Goto(t, "kits_ready")
          /\ UNCHANGED <<kitsMtime, overlapped, rivals>>
       \/ /\ always \/ kitDisk.mtime # kitsMtime
          /\ kitsMtime' = kitDisk.mtime
          /\ overlapped' = (\E u \in Threads : Building(u))
          /\ rivals' = {op[u].got : u \in {v \in Threads : At(v, "store_kits")}}
          /\ Goto(t, "build")
    /\ UNCHANGED <<kits, aliases>>

BuildRegistry(t) ==
    /\ At(t, "build")
    /\ op' = [op EXCEPT ![t] = [@ EXCEPT !.pc = "store_kits",
                                         !.got = KitReading(kitDisk.body)]]
    /\ UNCHANGED registry

\* KITS, ALIASES = ...: two stores, in that order.
StoreKits(t) ==
    /\ At(t, "store_kits")
    /\ kits' = op[t].got
    /\ Goto(t, "store_aliases")
    /\ UNCHANGED <<kitsMtime, aliases, overlapped, rivals>>

\* Faulty variant: the time is taken again after the rebuild.
StoreAliasesStamped(t) ==
    /\ At(t, "store_aliases")
    /\ aliases' = (op[t].got # NoKit)
    /\ kitsMtime' = kitDisk.mtime
    /\ Goto(t, "kits_ready")
    /\ UNCHANGED <<kits, overlapped, rivals>>

StoreAliases(t) ==
    /\ At(t, "store_aliases")
    /\ aliases' = (op[t].got # NoKit)
    /\ Goto(t, "kits_ready")
    /\ UNCHANGED <<kitsMtime, kits, overlapped, rivals>>

\* reload_kits_if_changed for a request or a listing, force_reload after a write.
Reload(t) ==
    /\ \/ KitStat(t, op[t].job \in {"put", "delete"})
       \/ BuildRegistry(t) \/ StoreKits(t) \/ StoreAliases(t)
    /\ UNCHANGED <<files, cache, inForce>>

ListKits(t) ==
    /\ Begin(t, "list", "kit_stat", "keep_fields")
    /\ UNCHANGED <<files, registry, cache, inForce>>

\* PUT truncates the file, then writes it.
PutKit(t) ==
    /\ Edited
    /\ At(t, "idle")
    /\ \E body \in KitBodies :
         op' = [op EXCEPT ![t] = [Idle EXCEPT !.job = "put", !.pc = "put", !.got = body]]
    /\ WriteKits(Torn)
    /\ UNCHANGED <<registry, cache, inForce>>

PutKitWrite(t) ==
    /\ At(t, "put")
    /\ WriteKits(op[t].got)
    /\ Goto(t, "kit_stat")
    /\ UNCHANGED <<edits, registry, cache, inForce>>

DeleteKit(t) ==
    /\ Edited
    /\ kitDisk.body # NoKit
    /\ Begin(t, "delete", "kit_stat", "keep_fields")
    /\ WriteKits(NoKit)
    /\ UNCHANGED <<registry, cache, inForce>>

ReloadDone(t) ==
    /\ At(t, "kits_ready")
    /\ op' = [op EXCEPT ![t] = Idle]
    /\ UNCHANGED <<files, registry, cache, inForce>>

-----------------------------------------------------------------------------
(* Properties.                                                             *)

SettingsTypeOK ==
    /\ clock \in 1..MaxTime
    /\ disk \in [Files -> [mtime : 1..MaxTime \cup {Never}, body : Bodies \cup {Torn}]]
    /\ cache \in [Files -> [mtime : 1..MaxTime \cup {Never}, body : Bodies]]
    /\ inForce \in [Files -> Bodies]
    /\ kitDisk \in [mtime : 0..MaxTime, body : Bodies \cup {NoKit, Torn}]
    /\ kitsMtime \in 0..MaxTime \cup {Never}
    /\ kits \in Bodies \cup {NoKit}
    /\ aliases \in BOOLEAN
    /\ op \in [Threads -> [job : {"none", "request", "get", "post", "list", "put", "delete"},
                           pc : {"idle", "stat", "read", "store", "return", "loaded",
                                 "truncate", "write", "reset", "put", "kit_stat",
                                 "build", "store_kits", "store_aliases", "kits_ready"},
                           file : Files,
                           seen : 0..MaxTime \cup {Never},
                           got : Bodies \cup {NoKit}]]
    /\ edits \in 0..MaxEdits
    /\ versions \in [Files -> SUBSET Bodies] /\ kitVersions \subseteq Bodies \cup {NoKit}
    /\ overlapped \in BOOLEAN /\ rivals \subseteq Bodies \cup {NoKit}

\* A cache that carries its file's modification time holds what the file has
\* said since it has that time: loaders and savers interleave as they like, and
\* no later change stays unseen but one of the same tick.  A save through the
\* application does not even leave that behind: it empties the cache, and what
\* the file said before then comes back only with a loader that had read it and
\* not stored it yet.
CacheCurrent ==
    \A f \in Files : cache[f].mtime = disk[f].mtime /\ disk[f].mtime # Never
                       => cache[f].body \in versions[f]

\* Whenever nobody is rebuilding it: a registry whose recorded time is that of
\* the user kits holds what they have said since they have that time, or what a
\* thread had in hand that was rebuilding when the time was recorded; and
\* ALIASES agrees with KITS, if no such thread was about.  (Nothing in the code
\* keeps an administrator's force_reload and a request's rebuild apart.)
KitsCurrent ==
    (\A t \in Threads : ~Building(t))
      => /\ kitsMtime = kitDisk.mtime => kits \in kitVersions \cup rivals
         /\ ~overlapped => aliases = (kits # NoKit) /\ rivals = {}

=============================================================================
