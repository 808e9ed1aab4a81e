---------------------------- MODULE SettingsProofs -----------------------------
(****************************************************************************)
(* Every step of module Settings preserves that a cache with its file's     *)
(* time holds what the file has said at that time, and that a registry with *)
(* the time of the user kits holds what they, or a rival rebuild, have said *)
(* -- for any number of threads, fields, edits and ticks.  Module           *)
(* DocumentsProofs turns these steps into theorems of the specification     *)
(* that takes them.                                                         *)
(*                                                                          *)
(* A load takes its time before it reads, and a rebuild of the registry     *)
(* too; and times never run backwards (TimesOrdered, KitTimes).  So what a  *)
(* thread is about to store has been said since the file has the time it    *)
(* saw, whenever it still has that time (StoresCurrent, KitsKnown).         *)
(****************************************************************************)
EXTENDS Settings, TLAPS

Op == [job : {"none", "request", "get", "post", "list", "put", "delete"},
       pc : {"idle", "stat", "read", "store", "return", "loaded",
             "truncate", "write", "reset", "put", "kit_stat",
             "build", "store_kits", "store_aliases", "kits_ready"},
       file : Files,
       seen : 0..MaxTime \cup {Never},
       got : Bodies \cup {NoKit}]

\* What a thread holds at each of its steps.
Holds(r) ==
    /\ r.pc \in {"read", "store"} => r.seen \in 1..MaxTime
    /\ r.pc = "store" => r.got \in Sayable(r.file)
    /\ r.pc \in {"truncate", "write"} => r.file = "field_overrides" /\ r.got \in Sayable(r.file)
    /\ r.pc = "put" => r.got \in KitBodies

\* Each file, its cache and its global say only what such a file may say.
Said ==
    /\ disk["keep_fields"].body # Torn
    /\ \A f \in Files : /\ disk[f].body \in Sayable(f) \cup {Torn}
                        /\ cache[f].body \in Sayable(f)
                        /\ inForce[f] \in Sayable(f)

Loaders == {"read", "store"}

\* No cache and no loader knows a later time than the file's.
TimesOrdered ==
    /\ \A f \in Files :
         /\ disk[f].mtime # Never => disk[f].mtime <= clock
         /\ cache[f].mtime # Never => disk[f].mtime # Never /\ cache[f].mtime <= disk[f].mtime
    /\ \A t \in Threads : op[t].pc \in Loaders =>
         /\ disk[op[t].file].mtime # Never
         /\ op[t].seen <= disk[op[t].file].mtime

\* What a file says now is among what it has said.
VersionsHold == \A f \in Files : Reading(disk[f].body) \in versions[f]

\* A loader that saw the file's present time holds what the file has said.
StoresCurrent ==
    \A t \in Threads :
        op[t].pc = "store" /\ op[t].seen = disk[op[t].file].mtime
        => op[t].got \in versions[op[t].file]

CacheInv == TimesOrdered /\ VersionsHold /\ CacheCurrent /\ StoresCurrent

\* _KITS_MTIME is no later than the time of the user kits.
KitTimes ==
    /\ kitDisk.mtime <= clock
    /\ kitsMtime # Never => kitsMtime <= kitDisk.mtime
    /\ KitReading(kitDisk.body) \in kitVersions

\* When they are the same, KITS and whatever will be stored to it come from the
\* kits as they were at that time, or from a rival.
KitsKnown ==
    kitsMtime = kitDisk.mtime
    => /\ \A t \in Threads : op[t].pc = "store_kits" => op[t].got \in kitVersions \cup rivals
       /\ \/ kits \in kitVersions \cup rivals
          \/ \E t \in Threads : op[t].pc \in {"build", "store_kits"}

\* Without a rival, one thread at a time rebuilds the registry, and ALIASES
\* agrees with KITS when none does.
OneBuilder ==
    ~overlapped
    => /\ rivals = {}
       /\ \A t, u \in Threads : Building(t) /\ Building(u) => t = u
       /\ \A t \in Threads : op[t].pc = "store_aliases" => kits = op[t].got
       /\ (\A t \in Threads : ~Building(t)) => aliases = (kits # NoKit)

KitInv == KitTimes /\ KitsKnown /\ OneBuilder

SettingsInv ==
    /\ SettingsTypeOK
    /\ \A t \in Threads : Holds(op[t])
    /\ Said
    /\ CacheInv
    /\ KitInv

-------------------------------------------------------------------------------
(* Bodies and operations *)

LEMMA SayableFacts ==
    /\ \A f \in Files : Sayable(f) \subseteq Bodies /\ Empty \in Sayable(f)
    /\ Empty \in Bodies
    /\ \A f \in Files : Torn \notin Sayable(f)
    /\ "keep_fields" \in Files /\ "field_overrides" \in Files
  <1>1. \A f \in Files : Sayable(f) \subseteq Bodies /\ Empty \in Sayable(f)
    <2> SUFFICES ASSUME NEW f \in Files
                 PROVE  Sayable(f) \subseteq Bodies /\ Empty \in Sayable(f)
      OBVIOUS
    <2> DEFINE says == {Unset} \cup IF f = "keep_fields" THEN {"keep"} ELSE OverrideActions
    <2>1. says \subseteq Actions /\ Unset \in says
      BY DEF Actions, OverrideActions
    <2>2. Sayable(f) = [Fields -> says]
      BY DEF Sayable
    <2> HIDE DEF says
    <2>. QED
      BY <2>1, <2>2 DEF Bodies, Empty
  <1>2. Empty \in Bodies
    BY DEF Bodies, Empty, Actions
  <1>. QED
    BY <1>1, <1>2, SettingsAssumption DEF Files

\* An update leaves a body one that its file may say.
LEMMA UpdateSayable ==
    ASSUME NEW f \in Files, NEW body \in Sayable(f), NEW u \in Updates,
           f = "keep_fields" => u[2] \in {"keep", Unset}
    PROVE  [body EXCEPT ![u[1]] = u[2]] \in Sayable(f)
  <1>1. u[1] \in Fields /\ u[2] \in OverrideActions \cup {Unset}
    <2>1. u \in Fields \X (OverrideActions \cup {Unset})
      BY SettingsAssumption
    <2>. QED
      BY <2>1
  <1> DEFINE says == {Unset} \cup IF f = "keep_fields" THEN {"keep"} ELSE OverrideActions
  <1>2. u[2] \in says
    BY <1>1
  <1>3. Sayable(f) = [Fields -> says]
    BY DEF Sayable
  <1> HIDE DEF says
  <1>. QED
    BY <1>1, <1>2, <1>3

\* The operations of every thread are well typed after a step.
OpSound == op' \in [Threads -> Op] /\ \A t \in Threads : Holds(op'[t])

\* The step neither starts a load, nor starts or ends a rebuild.
NoStore == \A t \in Threads : op'[t].pc \in Loaders => op'[t] = op[t]
NoBuild == \A t \in Threads : op'[t].pc \in BuilderSteps \/ op[t].pc \in BuilderSteps
                                  => op'[t] = op[t]

LEMMA OpStep ==
    ASSUME SettingsInv, NEW t \in Threads, NEW r \in Op, Holds(r),
           op' = [op EXCEPT ![t] = r]
    PROVE  /\ OpSound
           /\ r.pc \notin Loaders => NoStore
           /\ r.pc \notin BuilderSteps /\ op[t].pc \notin BuilderSteps => NoBuild
           /\ op'[t] = r /\ \A u \in Threads \ {t} : op'[u] = op[u]
  <1>1. op \in [Threads -> Op] /\ \A u \in Threads : Holds(op[u])
    BY DEF SettingsInv, SettingsTypeOK, Op
  <1>2. op' \in [Threads -> Op] /\ op'[t] = r /\ \A u \in Threads \ {t} : op'[u] = op[u]
    BY <1>1
  <1>3. OpSound
    BY <1>1, <1>2 DEF OpSound
  <1>. QED
    BY <1>2, <1>3 DEF NoStore, NoBuild

LEMMA OpSame ==
    ASSUME SettingsInv, op' = op
    PROVE  OpSound /\ NoStore /\ NoBuild
  BY DEF SettingsInv, SettingsTypeOK, Op, OpSound, NoStore, NoBuild

\* A thread that only moves on.
LEMMA Moves ==
    ASSUME SettingsInv, NEW t \in Threads, NEW pc, Goto(t, pc),
           pc \in {"idle", "return", "loaded", "write", "reset", "kit_stat", "kits_ready", "stat"},
           pc = "write" => op[t].pc = "truncate"
    PROVE  /\ OpSound /\ NoStore
           /\ op[t].pc \notin BuilderSteps => NoBuild
           /\ \A u \in Threads \ {t} : op'[u] = op[u]
           /\ op'[t].pc = pc
  <1> DEFINE r == [op[t] EXCEPT !.pc = pc]
  <1>1. op[t] \in Op /\ Holds(op[t]) /\ op \in [Threads -> Op]
    BY DEF SettingsInv, SettingsTypeOK, Op
  <1>2. /\ r \in Op /\ r.pc = pc /\ r.got = op[t].got /\ r.file = op[t].file
        /\ r.seen = op[t].seen
    BY <1>1 DEF Op
  <1>3. op' = [op EXCEPT ![t] = r]
    BY <1>1 DEF Goto
  <1> HIDE DEF r
  <1>4. Holds(r)
    BY <1>1, <1>2 DEF Holds, BuilderSteps, Loaders
  <1>5. r.pc \notin Loaders /\ r.pc \notin BuilderSteps
    BY <1>2 DEF BuilderSteps, Loaders
  <1>. QED
    BY <1>2, <1>3, <1>4, <1>5, OpStep

\* A thread that is idle, or goes idle.
LEMMA IdleFacts == Idle \in Op /\ Holds(Idle) /\ Idle.pc = "idle"
  <1>1. Idle \in Op
    BY SayableFacts DEF Idle, Op
  <1>2. Idle.pc = "idle" /\ Holds(Idle)
    BY DEF Idle, Holds, BuilderSteps
  <1>. QED
    BY <1>1, <1>2

\* An idle thread begins.
LEMMA Begins ==
    ASSUME SettingsInv, NEW t \in Threads,
           NEW job \in {"none", "request", "get", "post", "list", "put", "delete"},
           NEW pc \in {"stat", "loaded", "kit_stat"}, NEW file \in Files,
           Begin(t, job, pc, file)
    PROVE  OpSound /\ NoStore /\ NoBuild
  <1> DEFINE r == [Idle EXCEPT !.job = job, !.pc = pc, !.file = file]
  <1>1. op' = [op EXCEPT ![t] = r] /\ op[t].pc = "idle"
    BY DEF Begin, At
  <1>2. r \in Op /\ r.pc = pc
    BY IdleFacts DEF Op
  <1> HIDE DEF r
  <1>3. Holds(r)
    BY <1>2 DEF Holds, BuilderSteps, Loaders
  <1>. QED
    BY <1>1, <1>2, <1>3, OpStep DEF BuilderSteps, Loaders

-------------------------------------------------------------------------------
(* The two halves of the invariant, under steps that do not concern them *)

LEMMA CacheUntouched ==
    ASSUME SettingsInv, OpSound, NoStore, UNCHANGED <<disk, cache, versions>>,
           clock' = clock \/ clock' = clock + 1
    PROVE  CacheInv'
  <1>1. CacheInv /\ clock \in Nat /\ \A f \in Files : disk[f].mtime \in Nat \cup {Never}
    BY SettingsAssumption DEF SettingsInv, SettingsTypeOK
  <1>2. TimesOrdered'
    <2>1. \A f \in Files : disk[f].mtime # Never => disk[f].mtime <= clock'
      BY <1>1 DEF CacheInv, TimesOrdered
    <2>. QED
      BY <1>1, <2>1 DEF CacheInv, TimesOrdered, NoStore
  <1>3. VersionsHold' /\ CacheCurrent'
    BY <1>1 DEF CacheInv, VersionsHold, CacheCurrent
  <1>4. StoresCurrent'
    BY <1>1 DEF CacheInv, StoresCurrent, NoStore, Loaders
  <1>. QED
    BY <1>2, <1>3, <1>4 DEF CacheInv

LEMMA KitsUntouched ==
    ASSUME SettingsInv, OpSound, NoBuild, UNCHANGED <<kitDisk, kitVersions, registry>>,
           clock' = clock \/ clock' = clock + 1
    PROVE  KitInv'
  <1>1. UNCHANGED <<kitsMtime, kits, aliases, overlapped, rivals>>
    BY DEF registry
  <1>2. KitInv /\ clock \in Nat /\ kitDisk.mtime \in Nat
    BY SettingsAssumption DEF SettingsInv, SettingsTypeOK
  <1>3. \A t \in Threads : /\ (op'[t].pc \in BuilderSteps) = (op[t].pc \in BuilderSteps)
                           /\ op'[t].pc \in BuilderSteps => op'[t] = op[t]
    BY DEF NoBuild
  <1>4. KitTimes'
    BY <1>1, <1>2 DEF KitInv, KitTimes
  <1>5. KitsKnown'
    BY <1>1, <1>2 DEF KitInv, KitsKnown, NoBuild, BuilderSteps
  <1>6. OneBuilder'
    <2> SUFFICES ASSUME ~overlapped PROVE OneBuilder'
      BY <1>1 DEF OneBuilder
    <2>1. \A t \in Threads : (op'[t].pc = "store_aliases" => op'[t] = op[t])
      BY <1>3 DEF BuilderSteps
    <2>. QED
      BY <1>1, <1>2, <1>3, <2>1 DEF KitInv, OneBuilder, Building
  <1>. QED
    BY <1>4, <1>5, <1>6 DEF KitInv

\* A file that is written either keeps its time, and then has said one thing
\* more, or gets one that no cache carries and no loader has seen.
LEMMA FileWritten ==
    ASSUME SettingsInv, NEW f \in Files, NEW body \in Bodies \cup {Torn}, OpSound, NoStore,
           WriteFile(f, body), cache' = cache
    PROVE  CacheInv'
  <1> DEFINE said == {Reading(body)} \cup IF disk[f].mtime = clock THEN versions[f] ELSE {}
  <1>1. /\ disk' = [disk EXCEPT ![f] = [mtime |-> clock, body |-> body]]
        /\ versions' = [versions EXCEPT ![f] = said] /\ clock' = clock
    BY DEF WriteFile
  <1>2. /\ CacheInv /\ clock \in Nat
        /\ \A g \in Files : /\ disk[g].mtime \in Nat \cup {Never}
                            /\ cache[g].mtime \in Nat \cup {Never}
    BY SettingsAssumption DEF SettingsInv, SettingsTypeOK
  <1>3. /\ disk'[f].mtime = clock /\ disk'[f].body = body /\ versions'[f] = said
        /\ \A g \in Files : g # f => disk'[g] = disk[g] /\ versions'[g] = versions[g]
    BY <1>1 DEF SettingsInv, SettingsTypeOK
  <1>4. clock # Never /\ (disk[f].mtime # clock => disk[f].mtime = Never \/ disk[f].mtime < clock)
    BY <1>2, SettingsAssumption DEF CacheInv, TimesOrdered
  <1>5. \A t \in Threads : op'[t].pc \in Loaders =>
            op'[t] = op[t] /\ op[t].file \in Files /\ op[t].seen \in Nat
    BY SettingsAssumption DEF NoStore, SettingsInv, SettingsTypeOK, Holds, Loaders
  <1>6. TimesOrdered'
    <2>1. \A g \in Files : disk[g].mtime # Never => disk[g].mtime <= disk'[g].mtime /\ disk'[g].mtime # Never
      BY <1>2, <1>3, <1>4 DEF CacheInv, TimesOrdered
    <2>2. \A g \in Files : disk'[g].mtime \in Nat \cup {Never}
                           /\ (disk'[g].mtime # Never => disk'[g].mtime <= clock')
      BY <1>1, <1>2, <1>3 DEF CacheInv, TimesOrdered
    <2>3. \A g \in Files : cache'[g].mtime # Never =>
              disk'[g].mtime # Never /\ cache'[g].mtime <= disk'[g].mtime
      BY <1>2, <2>1, <2>2, SettingsAssumption DEF CacheInv, TimesOrdered
    <2>4. ASSUME NEW t \in Threads, op'[t].pc \in Loaders
          PROVE  disk'[op'[t].file].mtime # Never /\ op'[t].seen <= disk'[op'[t].file].mtime
      <3>1. /\ op'[t] = op[t] /\ op[t].file \in Files /\ op[t].seen \in Nat
            /\ disk[op[t].file].mtime # Never /\ op[t].seen <= disk[op[t].file].mtime
        BY <1>2, <1>5, <2>4 DEF CacheInv, TimesOrdered
      <3>2. disk[op[t].file].mtime \in Nat /\ disk'[op[t].file].mtime \in Nat
        BY <1>2, <2>1, <2>2, <3>1
      <3>. QED
        BY <2>1, <3>1, <3>2
    <2>. QED
      BY <2>2, <2>3, <2>4 DEF TimesOrdered
  <1>7. VersionsHold'
    BY <1>2, <1>3 DEF CacheInv, VersionsHold, Reading
  <1>8. CacheCurrent'
    <2>1. CASE disk[f].mtime = clock
      BY <1>2, <1>3, <2>1, <1>4 DEF CacheInv, CacheCurrent
    <2>2. CASE disk[f].mtime # clock
      <3>1. cache[f].mtime # clock
        BY <1>2, <1>4, <2>2, SettingsAssumption DEF CacheInv, TimesOrdered
      <3>. QED
        BY <1>2, <1>3, <3>1 DEF CacheInv, CacheCurrent
    <2>. QED
      BY <2>1, <2>2
  <1>9. StoresCurrent'
    <2> SUFFICES ASSUME NEW t \in Threads, op'[t].pc = "store",
                        op'[t].seen = disk'[op'[t].file].mtime
                 PROVE  op'[t].got \in versions'[op'[t].file]
      BY DEF StoresCurrent
    <2>1. /\ op'[t] = op[t] /\ op[t].file \in Files /\ op[t].seen \in Nat
          /\ op[t].pc \in Loaders
      BY <1>5 DEF Loaders
    <2>2. CASE op[t].file # f
      BY <1>2, <1>3, <2>1, <2>2 DEF CacheInv, StoresCurrent
    <2>3. CASE op[t].file = f
      <3>1. op[t].seen = clock /\ disk[f].mtime # Never /\ op[t].seen <= disk[f].mtime
        BY <1>2, <1>3, <2>1, <2>3 DEF CacheInv, TimesOrdered
      <3>2. disk[f].mtime = clock
        BY <1>2, <1>4, <3>1
      <3>. QED
        BY <1>2, <1>3, <2>1, <2>3, <3>1, <3>2 DEF CacheInv, StoresCurrent
    <2>. QED
      BY <2>2, <2>3
  <1>. QED
    BY <1>6, <1>7, <1>8, <1>9 DEF CacheInv

LEMMA KitsWritten ==
    ASSUME SettingsInv, NEW body \in Bodies \cup {NoKit, Torn}, OpSound, NoBuild,
           WriteKits(body), UNCHANGED registry
    PROVE  KitInv'
  <1>1. /\ kitDisk' = [mtime |-> clock, body |-> body] /\ clock' = clock
        /\ kitVersions' = {KitReading(body)} \cup
                              IF kitDisk.mtime = clock THEN kitVersions ELSE {}
        /\ UNCHANGED <<kitsMtime, kits, aliases, overlapped, rivals>>
    BY DEF WriteKits, registry
  <1>2. /\ KitInv /\ clock \in Nat /\ kitDisk.mtime \in Nat /\ kitsMtime \in Nat \cup {Never}
    BY SettingsAssumption DEF SettingsInv, SettingsTypeOK
  <1>3. kitDisk.mtime <= clock /\ (kitsMtime # Never => kitsMtime <= kitDisk.mtime)
    BY <1>2 DEF KitInv, KitTimes
  <1>4. \A t \in Threads : /\ (op'[t].pc \in BuilderSteps) = (op[t].pc \in BuilderSteps)
                           /\ op'[t].pc \in BuilderSteps => op'[t] = op[t]
    BY DEF NoBuild
  <1>5. KitTimes'
    <2>1. kitsMtime # Never => kitsMtime <= clock
      BY <1>2, <1>3
    <2>. QED
      BY <1>1, <1>2, <2>1 DEF KitTimes, KitReading
  <1>6. KitsKnown'
    <2>1. CASE kitDisk.mtime = clock
      <3>1. kitVersions \subseteq kitVersions' /\ kitDisk'.mtime = kitDisk.mtime
        BY <1>1, <2>1
      <3>. QED
        BY <1>1, <1>2, <3>1 DEF KitInv, KitsKnown, NoBuild, BuilderSteps
    <2>2. CASE kitDisk.mtime # clock
      <3>1. kitsMtime # clock
        BY <1>2, <1>3, <2>2, SettingsAssumption
      <3>. QED
        BY <1>1, <3>1 DEF KitsKnown
    <2>. QED
      BY <2>1, <2>2
  <1>7. OneBuilder'
    <2> SUFFICES ASSUME ~overlapped PROVE OneBuilder'
      BY <1>1 DEF OneBuilder
    <2>1. \A t \in Threads : (op'[t].pc = "store_aliases" => op'[t] = op[t])
      BY <1>4 DEF BuilderSteps
    <2>. QED
      BY <1>1, <1>2, <1>4, <2>1 DEF KitInv, OneBuilder, Building
  <1>. QED
    BY <1>5, <1>6, <1>7 DEF KitInv

-------------------------------------------------------------------------------
(* The steps *)

\* What remains to show of a step once its operations are sound.
LEMMA Assembled ==
    ASSUME SettingsInv, OpSound, CacheInv', KitInv', Said',
           clock' \in 1..MaxTime, edits' \in 0..MaxEdits,
           \/ disk' = disk
           \/ disk' \in [Files -> [mtime : 1..MaxTime \cup {Never}, body : Bodies \cup {Torn}]],
           \/ cache' = cache
           \/ cache' \in [Files -> [mtime : 1..MaxTime \cup {Never}, body : Bodies]],
           inForce' = inForce \/ inForce' \in [Files -> Bodies],
           \/ kitDisk' = kitDisk
           \/ kitDisk' \in [mtime : 0..MaxTime, body : Bodies \cup {NoKit, Torn}],
           versions' = versions \/ versions' \in [Files -> SUBSET Bodies],
           kitVersions' = kitVersions \/ kitVersions' \subseteq Bodies \cup {NoKit},
           \/ UNCHANGED registry
           \/ /\ kitsMtime' \in 0..MaxTime \cup {Never} /\ kits' \in Bodies \cup {NoKit}
              /\ aliases' \in BOOLEAN /\ overlapped' \in BOOLEAN
              /\ rivals' \subseteq Bodies \cup {NoKit}
    PROVE  SettingsInv'
  <1>1. SettingsTypeOK'
    BY DEF SettingsInv, SettingsTypeOK, OpSound, Op, registry
  <1>. QED
    BY <1>1 DEF SettingsInv, OpSound

\* Steps that only move threads, and may put a body in force.
LEMMA OnlyMoves ==
    ASSUME SettingsInv, OpSound, NoStore, NoBuild,
           UNCHANGED <<clock, disk, kitDisk, versions, kitVersions, registry, cache>>,
           edits' \in 0..MaxEdits,
           \/ inForce' = inForce
           \/ \E f \in Files : \E body \in Sayable(f) : inForce' = [inForce EXCEPT ![f] = body]
    PROVE  SettingsInv'
  <1>1. CacheInv' /\ KitInv'
    BY CacheUntouched, KitsUntouched
  <1>2. /\ inForce' = inForce \/ inForce' \in [Files -> Bodies]
        /\ \A f \in Files : inForce'[f] \in Sayable(f)
    <2>1. inForce \in [Files -> Bodies] /\ \A f \in Files : inForce[f] \in Sayable(f)
      BY DEF SettingsInv, SettingsTypeOK, Said
    <2>2. ASSUME NEW f \in Files, NEW body \in Sayable(f),
                 inForce' = [inForce EXCEPT ![f] = body]
          PROVE  inForce' \in [Files -> Bodies] /\ \A g \in Files : inForce'[g] \in Sayable(g)
      <3>1. body \in Bodies
        BY SayableFacts
      <3>2. inForce' \in [Files -> Bodies]
        BY <2>1, <2>2, <3>1
      <3>3. inForce'[f] = body /\ \A g \in Files : g # f => inForce'[g] = inForce[g]
        BY <2>1, <2>2
      <3>. QED
        BY <2>1, <3>2, <3>3
    <2>. QED
      BY <2>1, <2>2
  <1>3. Said'
    BY <1>2 DEF Said, SettingsInv
  <1>4. clock' \in 1..MaxTime
    BY DEF SettingsInv, SettingsTypeOK
  <1>. QED
    BY <1>1, <1>2, <1>3, <1>4, Assembled

LEMMA TickKeeps == ASSUME SettingsInv, Tick PROVE SettingsInv'
  <1>1. /\ clock' = clock + 1 /\ clock < MaxTime
        /\ UNCHANGED <<disk, kitDisk, edits, versions, kitVersions, registry, cache, inForce, op>>
    BY DEF Tick
  <1>2. clock' \in 1..MaxTime /\ edits' \in 0..MaxEdits
    BY <1>1, SettingsAssumption DEF SettingsInv, SettingsTypeOK
  <1>3. OpSound /\ NoStore /\ NoBuild
    BY <1>1, OpSame
  <1>4. CacheInv' /\ KitInv'
    BY <1>1, <1>3, CacheUntouched, KitsUntouched
  <1>5. Said'
    BY <1>1 DEF SettingsInv, Said
  <1>. QED
    BY <1>1, <1>2, <1>3, <1>4, <1>5, Assembled

\* A file is written by a thread that stores nothing and rebuilds nothing.
LEMMA WriteFileKeeps ==
    ASSUME SettingsInv, OpSound, NoStore, NoBuild, NEW f \in Files,
           NEW body \in Sayable(f) \cup {Torn}, f = "keep_fields" => body # Torn,
           WriteFile(f, body), edits' \in 0..MaxEdits, UNCHANGED <<registry, cache, inForce>>
    PROVE  SettingsInv'
  <1> DEFINE said == {Reading(body)} \cup IF disk[f].mtime = clock THEN versions[f] ELSE {}
  <1>1. /\ disk' = [disk EXCEPT ![f] = [mtime |-> clock, body |-> body]]
        /\ versions' = [versions EXCEPT ![f] = said]
        /\ UNCHANGED <<clock, kitDisk, kitVersions>>
    BY DEF WriteFile
  <1>2. body \in Bodies \cup {Torn} /\ Reading(body) \in Bodies
    BY SayableFacts DEF Reading
  <1>3. clock \in 1..MaxTime /\ versions \in [Files -> SUBSET Bodies]
    BY DEF SettingsInv, SettingsTypeOK
  <1>4. versions' \in [Files -> SUBSET Bodies]
    <2>1. said \subseteq Bodies
      BY <1>2, <1>3
    <2> HIDE DEF said
    <2>. QED
      BY <1>1, <1>3, <2>1
  <1>5. CacheInv' /\ KitInv'
    BY <1>1, <1>2, FileWritten, KitsUntouched
  <1>6. /\ disk' \in [Files -> [mtime : 1..MaxTime \cup {Never}, body : Bodies \cup {Torn}]]
        /\ disk'[f].body = body /\ \A g \in Files : g # f => disk'[g] = disk[g]
    BY <1>1, <1>2, <1>3 DEF SettingsInv, SettingsTypeOK
  <1>7. Said'
    BY <1>6, SayableFacts DEF SettingsInv, Said
  <1>. QED
    BY <1>1, <1>3, <1>4, <1>5, <1>6, <1>7, Assembled

\* The kits are written by a thread that stores nothing and rebuilds nothing.
LEMMA WriteKitsKeeps ==
    ASSUME SettingsInv, OpSound, NoStore, NoBuild,
           NEW body \in Bodies \cup {NoKit, Torn},
           WriteKits(body), edits' \in 0..MaxEdits, UNCHANGED <<registry, cache, inForce>>
    PROVE  SettingsInv'
  <1>1. /\ kitDisk' = [mtime |-> clock, body |-> body]
        /\ kitVersions' = {KitReading(body)} \cup
                              IF kitDisk.mtime = clock THEN kitVersions ELSE {}
        /\ UNCHANGED <<clock, disk, versions>>
    BY DEF WriteKits
  <1>2. clock \in 1..MaxTime /\ kitVersions \subseteq Bodies \cup {NoKit}
    BY DEF SettingsInv, SettingsTypeOK
  <1>3. kitVersions' \subseteq Bodies \cup {NoKit}
    BY <1>1, <1>2 DEF KitReading
  <1>4. CacheInv' /\ KitInv'
    BY <1>1, CacheUntouched, KitsWritten
  <1>5. kitDisk' \in [mtime : 0..MaxTime, body : Bodies \cup {NoKit, Torn}]
    BY <1>1, <1>2, SettingsAssumption
  <1>6. Said'
    BY <1>1 DEF SettingsInv, Said
  <1>. QED
    BY <1>1, <1>2, <1>3, <1>4, <1>5, <1>6, Assembled

LEMMA EditedFact ==
    ASSUME SettingsInv, Edited
    PROVE  edits' \in 0..MaxEdits
  BY SettingsAssumption DEF SettingsInv, SettingsTypeOK, Edited

LEMMA HandEditKeeps == ASSUME SettingsInv, HandEdit PROVE SettingsInv'
  <1> DEFINE f == "keep_fields"
  <1>1. PICK u \in Updates : /\ u[2] \in {"keep", Unset}
                             /\ WriteFile(f, [disk[f].body EXCEPT ![u[1]] = u[2]])
    BY DEF HandEdit
  <1>2. UNCHANGED <<registry, cache, inForce, op>> /\ edits' \in 0..MaxEdits
    BY EditedFact DEF HandEdit
  <1>3. f \in Files /\ disk[f].body \in Sayable(f)
    BY SayableFacts DEF SettingsInv, Said
  <1>4. PICK body : body = [disk[f].body EXCEPT ![u[1]] = u[2]]
    OBVIOUS
  <1>5. body \in Sayable(f)
    BY <1>1, <1>3, <1>4, UpdateSayable
  <1>6. body # Torn
    BY <1>3, <1>5, SayableFacts
  <1>7. WriteFile(f, body)
    BY <1>1, <1>4
  <1>. QED
    BY <1>2, <1>3, <1>5, <1>6, <1>7, OpSame, WriteFileKeeps

-------------------------------------------------------------------------------
(* Loads *)

\* A load that returns a sayable body leaves the thread idle, or loading the
\* next file, or loaded.
LEMMA LoadedMoves ==
    ASSUME SettingsInv, NEW t \in Threads, NEW body \in Sayable(op[t].file), Loaded(t, body),
           op[t].pc \notin BuilderSteps
    PROVE  /\ OpSound /\ NoStore /\ NoBuild
           /\ \/ inForce' = inForce
              \/ \E f \in Files : \E b \in Sayable(f) : inForce' = [inForce EXCEPT ![f] = b]
  <1>1. op[t] \in Op /\ Holds(op[t]) /\ op \in [Threads -> Op] /\ op[t].file \in Files
    BY DEF SettingsInv, SettingsTypeOK, Op
  <1>2. inForce' = inForce \/ inForce' = [inForce EXCEPT ![op[t].file] = body]
    BY DEF Loaded
  <1>3. PICK r : /\ op' = [op EXCEPT ![t] = r]
                 /\ \/ r = Idle
                    \/ r = [op[t] EXCEPT !.pc = "stat", !.file = "field_overrides"]
                    \/ r = [op[t] EXCEPT !.pc = "loaded"]
    BY <1>1 DEF Loaded
  <1>4. r \in Op /\ r.pc \in {"idle", "stat", "loaded"}
    <2>1. CASE r = Idle
      BY <2>1, IdleFacts
    <2>2. CASE r = [op[t] EXCEPT !.pc = "stat", !.file = "field_overrides"]
      BY <1>1, <2>2, SayableFacts DEF Op
    <2>3. CASE r = [op[t] EXCEPT !.pc = "loaded"]
      BY <1>1, <2>3 DEF Op
    <2>. QED
      BY <1>3, <2>1, <2>2, <2>3
  <1>5. Holds(r) /\ r.pc \notin Loaders /\ r.pc \notin BuilderSteps
    BY <1>4 DEF Holds, BuilderSteps, Loaders
  <1>6. OpSound /\ NoStore /\ NoBuild
    BY <1>3, <1>4, <1>5, OpStep
  <1>. QED
    BY <1>1, <1>2, <1>6

LEMMA FilesFacts ==
    ASSUME SettingsInv, UNCHANGED files
    PROVE  /\ UNCHANGED <<clock, disk, kitDisk, versions, kitVersions>>
           /\ edits' \in 0..MaxEdits /\ clock' \in 1..MaxTime
  BY DEF files, SettingsInv, SettingsTypeOK

LEMMA LoadStatKeeps ==
    ASSUME SettingsInv, NEW t \in Threads, LoadStat(t)
    PROVE  SettingsInv'
  <1> DEFINE f == op[t].file
  <1>1. op[t] \in Op /\ op \in [Threads -> Op] /\ f \in Files /\ op[t].pc = "stat"
    BY DEF SettingsInv, SettingsTypeOK, Op, LoadStat, At
  <1>2. UNCHANGED <<files, registry, cache>> /\ op[t].pc \notin BuilderSteps
    BY <1>1 DEF LoadStat, BuilderSteps
  <1>3. CASE Loaded(t, Empty)
    <2>1. Empty \in Sayable(op[t].file)
      BY <1>1, SayableFacts
    <2>. QED
      BY <1>2, <1>3, <2>1, LoadedMoves, FilesFacts, OnlyMoves
  <1>4. CASE Goto(t, "return") /\ inForce' = inForce
    <2>1. OpSound /\ NoStore /\ NoBuild
      BY <1>2, <1>4, Moves
    <2>. QED
      BY <1>2, <1>4, <2>1, FilesFacts, OnlyMoves
  <1>5. CASE /\ disk[f].mtime # Never /\ inForce' = inForce
             /\ op' = [op EXCEPT ![t] = [@ EXCEPT !.pc = "read", !.seen = disk[f].mtime]]
    <2> DEFINE r == [op[t] EXCEPT !.pc = "read", !.seen = disk[f].mtime]
    <2>1. disk[f].mtime \in 1..MaxTime
      BY <1>1, <1>5 DEF SettingsInv, SettingsTypeOK
    <2>2. disk[f].mtime \in 0..MaxTime \cup {Never}
      BY <2>1, SettingsAssumption
    <2>3. r \in Op /\ r.pc = "read" /\ r.seen = disk[f].mtime /\ op' = [op EXCEPT ![t] = r]
      BY <1>1, <1>5, <2>2 DEF Op
    <2> HIDE DEF r
    <2>4. Holds(r) /\ r.pc \notin BuilderSteps /\ r.file = f
      BY <1>1, <2>1, <2>3 DEF Holds, BuilderSteps, r
    <2>5. OpSound /\ NoBuild /\ op'[t] = r /\ \A u \in Threads \ {t} : op'[u] = op[u]
      BY <1>2, <2>3, <2>4, OpStep
    <2>6. UNCHANGED <<clock, disk, kitDisk, versions, kitVersions>>
      BY <1>2, FilesFacts
    <2>7. KitInv'
      BY <1>2, <2>5, <2>6, KitsUntouched
    <2>8. CacheInv'
      <3>1. CacheInv
        BY DEF SettingsInv
      <3>2. TimesOrdered'
        BY <1>1, <1>2, <1>5, <2>1, <2>3, <2>4, <2>5, <2>6, <3>1 DEF CacheInv, TimesOrdered
      <3>3. VersionsHold' /\ CacheCurrent'
        BY <1>2, <2>6, <3>1 DEF CacheInv, VersionsHold, CacheCurrent
      <3>4. StoresCurrent'
        BY <2>3, <2>5, <2>6, <3>1 DEF CacheInv, StoresCurrent
      <3>. QED
        BY <3>2, <3>3, <3>4 DEF CacheInv
    <2>9. Said'
      BY <1>2, <1>5, <2>6 DEF SettingsInv, Said
    <2>. QED
      BY <1>2, <1>5, <2>5, <2>6, <2>7, <2>8, <2>9, FilesFacts, Assembled
  <1>. QED
    BY <1>3, <1>4, <1>5 DEF LoadStat

\* What a loader reads is the file's content at this moment.
LEMMA LoadReadKeeps ==
    ASSUME SettingsInv, NEW t \in Threads, LoadRead(t)
    PROVE  SettingsInv'
  <1> DEFINE f == op[t].file
             got == Reading(disk[f].body)
             r == [op[t] EXCEPT !.pc = "store", !.got = got]
  <1>1. op[t] \in Op /\ Holds(op[t]) /\ op \in [Threads -> Op] /\ f \in Files
    BY DEF SettingsInv, SettingsTypeOK, Op
  <1>2. /\ op[t].pc = "read" /\ op[t].pc \notin BuilderSteps
        /\ UNCHANGED <<files, registry, cache, inForce>>
        /\ op' = [op EXCEPT ![t] = r]
    BY <1>1 DEF LoadRead, At, BuilderSteps
  <1>3. got \in Sayable(f) /\ got \in Bodies
    BY <1>1, SayableFacts DEF SettingsInv, Said, Reading
  <1>4. /\ r \in Op /\ r.pc = "store" /\ r.got = got /\ r.file = f /\ r.seen = op[t].seen
        /\ got \in versions[f]
    BY <1>1, <1>3 DEF Op, SettingsInv, CacheInv, VersionsHold
  <1> HIDE DEF r, got
  <1>5. Holds(r) /\ r.pc \notin BuilderSteps
    BY <1>1, <1>2, <1>3, <1>4 DEF Holds, BuilderSteps, Loaders
  <1>6. OpSound /\ NoBuild /\ op'[t] = r /\ \A u \in Threads \ {t} : op'[u] = op[u]
    BY <1>2, <1>4, <1>5, OpStep
  <1>7. UNCHANGED <<clock, disk, kitDisk, versions, kitVersions>> /\ edits' \in 0..MaxEdits
    BY <1>2, FilesFacts
  <1>8. KitInv'
    BY <1>2, <1>6, <1>7, KitsUntouched
  <1>9. CacheInv'
    <2>1. CacheInv
      BY DEF SettingsInv
    <2>2. TimesOrdered'
      BY <1>2, <1>4, <1>6, <1>7, <2>1 DEF CacheInv, TimesOrdered, Loaders
    <2>3. VersionsHold' /\ CacheCurrent'
      BY <1>2, <1>7, <2>1 DEF CacheInv, VersionsHold, CacheCurrent
    <2>4. StoresCurrent'
      BY <1>4, <1>6, <1>7, <2>1 DEF CacheInv, StoresCurrent
    <2>. QED
      BY <2>2, <2>3, <2>4 DEF CacheInv
  <1>10. Said'
    BY <1>2, <1>7 DEF SettingsInv, Said
  <1>11. clock' \in 1..MaxTime
    BY <1>2, FilesFacts
  <1>. QED
    BY <1>2, <1>6, <1>7, <1>8, <1>9, <1>10, <1>11, Assembled

\* What a loader stores has been said by the file, if it still has the time seen.
LEMMA LoadStoreKeeps ==
    ASSUME SettingsInv, NEW t \in Threads, LoadStore(t)
    PROVE  SettingsInv'
  <1> DEFINE f == op[t].file
             entry == [mtime |-> op[t].seen, body |-> op[t].got]
  <1>1. op[t] \in Op /\ Holds(op[t]) /\ op \in [Threads -> Op] /\ f \in Files
    BY DEF SettingsInv, SettingsTypeOK, Op
  <1>2. /\ op[t].pc = "store" /\ op[t].pc \notin BuilderSteps
        /\ UNCHANGED <<files, registry, inForce>> /\ Goto(t, "return")
        /\ cache' = [cache EXCEPT ![f] = entry]
    BY DEF LoadStore, At, BuilderSteps
  <1>3. op[t].seen \in 1..MaxTime /\ op[t].got \in Sayable(f) /\ op[t].got \in Bodies
    BY <1>1, <1>2, SayableFacts DEF Holds
  <1>4. /\ OpSound /\ NoStore /\ NoBuild
    BY <1>2, Moves
  <1>5. UNCHANGED <<clock, disk, kitDisk, versions, kitVersions>> /\ edits' \in 0..MaxEdits
    BY <1>2, FilesFacts
  <1>6. /\ cache' \in [Files -> [mtime : 1..MaxTime \cup {Never}, body : Bodies]]
        /\ cache'[f] = entry /\ \A g \in Files : g # f => cache'[g] = cache[g]
    BY <1>1, <1>2, <1>3 DEF SettingsInv, SettingsTypeOK
  <1>7. KitInv'
    BY <1>2, <1>4, <1>5, KitsUntouched
  <1>8. CacheInv'
    <2>1. CacheInv /\ op[t].pc \in Loaders /\ op[t].seen # Never
      BY <1>2, <1>3, SettingsAssumption DEF SettingsInv, Loaders
    <2>2. /\ op[t].seen = disk[f].mtime => op[t].got \in versions[f]
          /\ disk[f].mtime # Never /\ op[t].seen <= disk[f].mtime
      BY <1>2, <2>1 DEF CacheInv, StoresCurrent, TimesOrdered
    <2>3. TimesOrdered'
      BY <1>4, <1>5, <1>6, <2>1, <2>2 DEF CacheInv, TimesOrdered, NoStore
    <2>4. VersionsHold' /\ CacheCurrent'
      BY <1>5, <1>6, <2>1, <2>2 DEF CacheInv, VersionsHold, CacheCurrent
    <2>5. StoresCurrent'
      BY <1>4, <1>5, <2>1 DEF CacheInv, StoresCurrent, NoStore, Loaders
    <2>. QED
      BY <2>3, <2>4, <2>5 DEF CacheInv
  <1>9. Said'
    BY <1>2, <1>3, <1>5, <1>6 DEF SettingsInv, Said
  <1>10. clock' \in 1..MaxTime
    BY <1>2, FilesFacts
  <1>. QED
    BY <1>2, <1>4, <1>5, <1>6, <1>7, <1>8, <1>9, <1>10, Assembled

LEMMA LoadReturnKeeps ==
    ASSUME SettingsInv, NEW t \in Threads, LoadReturn(t)
    PROVE  SettingsInv'
  <1>1. /\ UNCHANGED <<files, registry, cache>> /\ op[t].pc = "return"
        /\ Loaded(t, cache[op[t].file].body)
    BY DEF LoadReturn, At
  <1>2. cache[op[t].file].body \in Sayable(op[t].file) /\ op[t].pc \notin BuilderSteps
    BY <1>1 DEF SettingsInv, SettingsTypeOK, Said, BuilderSteps
  <1>. QED
    BY <1>1, <1>2, LoadedMoves, FilesFacts, OnlyMoves

LEMMA LoadKeeps ==
    ASSUME SettingsInv, NEW t \in Threads, Load(t)
    PROVE  SettingsInv'
  BY LoadStatKeeps, LoadReadKeeps, LoadStoreKeeps, LoadReturnKeeps DEF Load

LEMMA GetOverridesKeeps ==
    ASSUME SettingsInv, NEW t \in Threads, GetOverrides(t)
    PROVE  SettingsInv'
  <1>1. /\ Begin(t, "get", "stat", "field_overrides")
        /\ UNCHANGED <<files, registry, cache, inForce>>
    BY DEF GetOverrides
  <1>2. OpSound /\ NoStore /\ NoBuild
    BY <1>1, Begins DEF Files
  <1>. QED
    BY <1>1, <1>2, FilesFacts, OnlyMoves

-------------------------------------------------------------------------------
(* Saves *)

\* The file is read and the update folded in; nothing is written yet.
LEMMA PostOverrideKeeps ==
    ASSUME SettingsInv, NEW t \in Threads, PostOverride(t)
    PROVE  SettingsInv'
  <1> DEFINE body == disk["field_overrides"].body
             current == Reading(body)
  <1>1. PICK u \in Updates :
            op' = [op EXCEPT ![t] = [Idle EXCEPT !.job = "post", !.pc = "truncate",
                                                 !.file = "field_overrides",
                                                 !.got = [current EXCEPT ![u[1]] = u[2]]]]
    BY DEF PostOverride
  <1>2. /\ op[t].pc = "idle" /\ op[t].pc \notin BuilderSteps /\ edits' \in 0..MaxEdits
        /\ UNCHANGED <<clock, disk, kitDisk, versions, kitVersions, registry, cache, inForce>>
    BY EditedFact DEF PostOverride, At, BuilderSteps
  <1>3. current \in Sayable("field_overrides")
    BY SayableFacts DEF SettingsInv, Said, Reading
  <1>4. PICK got : got = [current EXCEPT ![u[1]] = u[2]]
    OBVIOUS
  <1>5. got \in Sayable("field_overrides") /\ got \in Bodies
    <2>1. got \in Sayable("field_overrides")
      BY <1>3, <1>4, UpdateSayable, SayableFacts
    <2>. QED
      BY <2>1, SayableFacts
  <1> DEFINE r == [Idle EXCEPT !.job = "post", !.pc = "truncate",
                               !.file = "field_overrides", !.got = got]
  <1>6. r \in Op /\ r.pc = "truncate" /\ r.file = "field_overrides" /\ r.got = got
    BY <1>5, IdleFacts, SayableFacts DEF Op
  <1>7. op' = [op EXCEPT ![t] = r]
    BY <1>1, <1>4
  <1> HIDE DEF r
  <1>8. Holds(r) /\ r.pc \notin Loaders /\ r.pc \notin BuilderSteps
    BY <1>5, <1>6 DEF Holds, BuilderSteps, Loaders
  <1>9. OpSound /\ NoStore /\ NoBuild
    BY <1>2, <1>6, <1>7, <1>8, OpStep
  <1>. QED
    BY <1>2, <1>9, OnlyMoves

LEMMA SaveTruncateKeeps ==
    ASSUME SettingsInv, NEW t \in Threads, SaveTruncate(t)
    PROVE  SettingsInv'
  <1>1. /\ op[t].pc = "truncate" /\ op[t].pc \notin BuilderSteps
        /\ WriteFile("field_overrides", Torn) /\ Goto(t, "write")
        /\ UNCHANGED <<edits, registry, cache, inForce>>
    BY DEF SaveTruncate, At, BuilderSteps
  <1>2. OpSound /\ NoStore /\ NoBuild
    BY <1>1, Moves
  <1>3. edits' \in 0..MaxEdits
    BY <1>1 DEF SettingsInv, SettingsTypeOK
  <1>. QED
    BY <1>1, <1>2, <1>3, SayableFacts, WriteFileKeeps

LEMMA SaveWriteKeeps ==
    ASSUME SettingsInv, NEW t \in Threads, SaveWrite(t)
    PROVE  SettingsInv'
  <1>1. /\ op[t].pc = "write" /\ op[t].pc \notin BuilderSteps
        /\ WriteFile("field_overrides", op[t].got) /\ Goto(t, "reset")
        /\ UNCHANGED <<edits, registry, cache, inForce>>
    BY DEF SaveWrite, At, BuilderSteps
  <1>2. OpSound /\ NoStore /\ NoBuild
    BY <1>1, Moves
  <1>3. edits' \in 0..MaxEdits /\ op[t].got \in Sayable("field_overrides")
    BY <1>1 DEF SettingsInv, SettingsTypeOK, Holds
  <1>. QED
    BY <1>1, <1>2, <1>3, SayableFacts, WriteFileKeeps

\* The cache is thrown away, whatever a loader stored meanwhile: of what the
\* file has said, only what it says now and what loaders have in hand remains.
LEMMA SaveResetKeeps ==
    ASSUME SettingsInv, NEW t \in Threads, SaveReset(t)
    PROVE  SettingsInv'
  <1> DEFINE f == "field_overrides"
             said == {Reading(disk[f].body)} \cup {op[u].got : u \in InHand(f)}
  <1>1. /\ op[t].pc = "reset" /\ op[t].pc \notin BuilderSteps
        /\ UNCHANGED <<clock, disk, kitDisk, edits, kitVersions, registry, inForce>>
        /\ Goto(t, "stat")
        /\ cache' = [cache EXCEPT ![f] = NoCache(f)]
        /\ versions' = [versions EXCEPT ![f] = said]
    BY DEF SaveReset, At, BuilderSteps
  <1>2. OpSound /\ NoStore /\ NoBuild
    BY <1>1, Moves
  <1>3. /\ edits' \in 0..MaxEdits /\ clock' \in 1..MaxTime /\ f \in Files
        /\ versions \in [Files -> SUBSET Bodies]
    BY <1>1, SayableFacts DEF SettingsInv, SettingsTypeOK
  <1>4. /\ cache' \in [Files -> [mtime : 1..MaxTime \cup {Never}, body : Bodies]]
        /\ cache'[f] = NoCache(f) /\ \A g \in Files : g # f => cache'[g] = cache[g]
    BY <1>1, SayableFacts DEF SettingsInv, SettingsTypeOK, NoCache
  <1>5. \A u \in InHand(f) : /\ op[u].pc = "store" /\ op[u].seen = disk[f].mtime
                             /\ op[u].file = f /\ u \in Threads /\ op[u].got \in Bodies
    BY <1>3, SayableFacts DEF InHand, At, SettingsInv, Holds
  <1>6. Reading(disk[f].body) \in Bodies
    BY <1>3, SayableFacts DEF SettingsInv, Said, Reading
  <1>7. /\ versions' \in [Files -> SUBSET Bodies] /\ versions'[f] = said
        /\ \A g \in Files : g # f => versions'[g] = versions[g]
    <2>1. said \subseteq Bodies
      BY <1>5, <1>6
    <2> HIDE DEF said
    <2>. QED
      BY <1>1, <1>3, <2>1
  <1>8. KitInv'
    BY <1>1, <1>2, KitsUntouched
  <1>9. CacheInv'
    <2>1. CacheInv
      BY DEF SettingsInv
    <2>2. TimesOrdered'
      BY <1>1, <1>2, <1>4, <2>1 DEF CacheInv, TimesOrdered, NoStore, NoCache
    <2>3. VersionsHold'
      BY <1>1, <1>7, <2>1 DEF CacheInv, VersionsHold
    <2>4. CacheCurrent'
      BY <1>1, <1>4, <1>7, <2>1 DEF CacheInv, CacheCurrent, NoCache
    <2>5. StoresCurrent'
      <3> SUFFICES ASSUME NEW u \in Threads, op'[u].pc = "store",
                          op'[u].seen = disk'[op'[u].file].mtime
                   PROVE  op'[u].got \in versions'[op'[u].file]
        BY DEF StoresCurrent
      <3>1. op'[u] = op[u] /\ op[u].file \in Files
        BY <1>2 DEF NoStore, Loaders, SettingsInv, SettingsTypeOK
      <3>2. CASE op[u].file = f
        <4>1. u \in InHand(f)
          BY <1>1, <3>1, <3>2 DEF InHand, At
        <4>. QED
          BY <1>7, <3>1, <3>2, <4>1
      <3>3. CASE op[u].file # f
        BY <1>1, <1>7, <2>1, <3>1, <3>3 DEF CacheInv, StoresCurrent
      <3>. QED
        BY <3>2, <3>3
    <2>. QED
      BY <2>2, <2>3, <2>4, <2>5 DEF CacheInv
  <1>10. Said'
    BY <1>1, <1>4, SayableFacts DEF SettingsInv, Said, NoCache
  <1>. QED
    BY <1>1, <1>2, <1>3, <1>4, <1>7, <1>8, <1>9, <1>10, Assembled

LEMMA SaveKeeps ==
    ASSUME SettingsInv, NEW t \in Threads, Save(t)
    PROVE  SettingsInv'
  BY SaveTruncateKeeps, SaveWriteKeeps, SaveResetKeeps DEF Save

-------------------------------------------------------------------------------
(* The registry of vendor kits *)

\* A step of a rebuild: only the registry and the thread's operation change.
LEMMA RegistrySteps ==
    ASSUME SettingsInv, OpSound, NoStore, KitInv', UNCHANGED <<files, cache, inForce>>,
           \/ UNCHANGED registry
           \/ /\ kitsMtime' \in 0..MaxTime \cup {Never} /\ kits' \in Bodies \cup {NoKit}
              /\ aliases' \in BOOLEAN /\ overlapped' \in BOOLEAN
              /\ rivals' \subseteq Bodies \cup {NoKit}
    PROVE  SettingsInv'
  <1>1. /\ UNCHANGED <<clock, disk, kitDisk, versions, kitVersions>>
        /\ edits' \in 0..MaxEdits /\ clock' \in 1..MaxTime
    BY FilesFacts
  <1>2. CacheInv'
    BY <1>1, CacheUntouched
  <1>3. Said'
    BY <1>1 DEF SettingsInv, Said
  <1>. QED
    BY <1>1, <1>2, <1>3, Assembled

\* _KITS_MTIME is taken before the directory is read: whoever is rebuilding then
\* is a rival, and what it has read may come to be stored.
LEMMA KitStatKeeps ==
    ASSUME SettingsInv, NEW t \in Threads, NEW always \in BOOLEAN, KitStat(t, always),
           UNCHANGED <<files, cache, inForce>>
    PROVE  SettingsInv'
  <1> DEFINE inHand == {op[u].got : u \in {v \in Threads : At(v, "store_kits")}}
             others == \E u \in Threads : Building(u)
  <1>1. /\ op[t] \in Op /\ op \in [Threads -> Op] /\ op[t].pc = "kit_stat" /\ Holds(op[t])
        /\ op[t].pc \notin BuilderSteps /\ UNCHANGED <<kits, aliases>>
    BY DEF SettingsInv, SettingsTypeOK, Op, KitStat, At, BuilderSteps
  <1>2. CASE Goto(t, "kits_ready") /\ UNCHANGED <<kitsMtime, overlapped, rivals>>
    <2>1. OpSound /\ NoStore /\ NoBuild /\ UNCHANGED registry
      BY <1>1, <1>2, Moves DEF registry
    <2>. QED
      BY <1>1, <2>1, FilesFacts, OnlyMoves
  <1>3. CASE /\ kitsMtime' = kitDisk.mtime /\ overlapped' = others /\ rivals' = inHand
             /\ Goto(t, "build")
    <2> DEFINE r == [op[t] EXCEPT !.pc = "build"]
    <2>1. r \in Op /\ r.pc = "build" /\ op' = [op EXCEPT ![t] = r]
      BY <1>1, <1>3 DEF Op, Goto
    <2> HIDE DEF r
    <2>2. Holds(r) /\ r.pc \notin Loaders
      BY <2>1 DEF Holds, Loaders
    <2>3. OpSound /\ NoStore /\ op'[t] = r /\ \A u \in Threads \ {t} : op'[u] = op[u]
      BY <2>1, <2>2, OpStep
    <2>4. /\ UNCHANGED <<clock, kitDisk, kitVersions>> /\ kitDisk.mtime \in 0..MaxTime
          /\ KitInv
      BY FilesFacts DEF SettingsInv, SettingsTypeOK
    <2>5. inHand \subseteq Bodies \cup {NoKit} /\ others \in BOOLEAN
      BY <1>1 DEF Op
    <2>6. /\ kitsMtime' \in 0..MaxTime \cup {Never} /\ kits' \in Bodies \cup {NoKit}
          /\ aliases' \in BOOLEAN /\ overlapped' \in BOOLEAN
          /\ rivals' \subseteq Bodies \cup {NoKit}
      BY <1>1, <1>3, <2>4, <2>5 DEF SettingsInv, SettingsTypeOK
    <2>7. KitTimes'
      BY <1>3, <2>4, SettingsAssumption DEF KitInv, KitTimes
    <2>8. KitsKnown'
      <3>1. \A u \in Threads : op'[u].pc = "store_kits" => op'[u] = op[u] /\ op[u].got \in inHand
        BY <2>1, <2>3 DEF At
      <3>2. op'[t].pc = "build"
        BY <2>1, <2>3
      <3>. QED
        BY <1>3, <3>1, <3>2 DEF KitsKnown
    <2>9. OneBuilder'
      <3> SUFFICES ASSUME ~others PROVE OneBuilder'
        BY <1>3 DEF OneBuilder
      <3>1. \A u \in Threads : op[u].pc \notin BuilderSteps
        BY DEF Building
      <3>2. \A u \in Threads \ {t} : op'[u].pc \notin BuilderSteps
        BY <2>3, <3>1
      <3>3. rivals' = {}
        BY <1>3, <3>1 DEF At, BuilderSteps
      <3>4. op'[t].pc = "build" /\ op'[t].pc \in BuilderSteps
        BY <2>1, <2>3 DEF BuilderSteps
      <3>5. /\ \A u \in Threads : op'[u].pc \in BuilderSteps => u = t
            /\ \A u \in Threads : op'[u].pc # "store_aliases"
        BY <3>2, <3>4 DEF BuilderSteps
      <3>. QED
        BY <3>3, <3>4, <3>5 DEF OneBuilder, Building
    <2>. QED
      BY <2>3, <2>6, <2>7, <2>8, <2>9, RegistrySteps DEF KitInv
  <1>. QED
    BY <1>2, <1>3 DEF KitStat

\* What a rebuild reads is what the kits say at this moment.
LEMMA BuildRegistryKeeps ==
    ASSUME SettingsInv, NEW t \in Threads, BuildRegistry(t), UNCHANGED <<files, cache, inForce>>
    PROVE  SettingsInv'
  <1> DEFINE got == KitReading(kitDisk.body)
             r == [op[t] EXCEPT !.pc = "store_kits", !.got = got]
  <1>1. /\ op[t] \in Op /\ Holds(op[t]) /\ op \in [Threads -> Op] /\ op[t].pc = "build"
        /\ op[t].pc \in BuilderSteps /\ UNCHANGED registry /\ op' = [op EXCEPT ![t] = r]
    BY DEF SettingsInv, SettingsTypeOK, Op, BuildRegistry, At, BuilderSteps
  <1>2. got \in Bodies \cup {NoKit} /\ got \in kitVersions /\ KitInv
    BY DEF SettingsInv, SettingsTypeOK, KitReading, KitInv, KitTimes
  <1>3. r \in Op /\ r.pc = "store_kits" /\ r.got = got
    BY <1>1, <1>2 DEF Op
  <1> HIDE DEF r, got
  <1>4. Holds(r) /\ r.pc \notin Loaders /\ r.pc \in BuilderSteps
    BY <1>1, <1>3 DEF Holds, BuilderSteps, Loaders
  <1>5. OpSound /\ NoStore /\ op'[t] = r /\ \A u \in Threads \ {t} : op'[u] = op[u]
    BY <1>1, <1>3, <1>4, OpStep
  <1>6. UNCHANGED <<clock, kitDisk, kitVersions, kitsMtime, kits, aliases, overlapped, rivals>>
    BY <1>1, FilesFacts DEF registry
  <1>7. KitTimes'
    BY <1>2, <1>6 DEF KitInv, KitTimes
  <1>8. KitsKnown'
    BY <1>2, <1>3, <1>5, <1>6 DEF KitInv, KitsKnown
  <1>9. OneBuilder'
    <2>1. \A u \in Threads : (op'[u].pc \in BuilderSteps) = (op[u].pc \in BuilderSteps)
      BY <1>1, <1>4, <1>5
    <2>2. \A u \in Threads : op'[u].pc = "store_aliases" => op'[u] = op[u]
      BY <1>3, <1>5
    <2>. QED
      BY <1>2, <1>6, <2>1, <2>2 DEF KitInv, OneBuilder, Building
  <1>. QED
    BY <1>1, <1>5, <1>7, <1>8, <1>9, RegistrySteps DEF KitInv

\* KITS is stored first ...
LEMMA StoreKitsKeeps ==
    ASSUME SettingsInv, NEW t \in Threads, StoreKits(t), UNCHANGED <<files, cache, inForce>>
    PROVE  SettingsInv'
  <1> DEFINE r == [op[t] EXCEPT !.pc = "store_aliases"]
  <1>1. /\ op[t] \in Op /\ Holds(op[t]) /\ op \in [Threads -> Op] /\ op[t].pc = "store_kits"
        /\ op[t].pc \in BuilderSteps /\ kits' = op[t].got /\ KitInv
        /\ UNCHANGED <<kitsMtime, aliases, overlapped, rivals>> /\ op' = [op EXCEPT ![t] = r]
    BY DEF SettingsInv, SettingsTypeOK, Op, StoreKits, At, BuilderSteps, Goto
  <1>2. /\ r \in Op /\ r.pc = "store_aliases" /\ r.got = op[t].got
        /\ op[t].got \in Bodies \cup {NoKit}
    BY <1>1 DEF Op
  <1> HIDE DEF r
  <1>3. Holds(r) /\ r.pc \notin Loaders /\ r.pc \in BuilderSteps
    BY <1>1, <1>2 DEF Holds, BuilderSteps, Loaders
  <1>4. OpSound /\ NoStore /\ op'[t] = r /\ \A u \in Threads \ {t} : op'[u] = op[u]
    BY <1>1, <1>2, <1>3, OpStep
  <1>5. UNCHANGED <<clock, kitDisk, kitVersions>>
    BY FilesFacts
  <1>6. KitTimes'
    BY <1>1, <1>5 DEF KitInv, KitTimes
  <1>7. KitsKnown'
    <2> SUFFICES ASSUME kitsMtime = kitDisk.mtime PROVE KitsKnown'
      BY <1>1, <1>5 DEF KitsKnown
    <2>1. \A u \in Threads : op[u].pc = "store_kits" => op[u].got \in kitVersions \cup rivals
      BY <1>1 DEF KitInv, KitsKnown
    <2>2. \A u \in Threads : op'[u].pc = "store_kits" => op'[u] = op[u]
      BY <1>2, <1>4
    <2>. QED
      BY <1>1, <1>5, <2>1, <2>2 DEF KitsKnown
  <1>8. OneBuilder'
    <2> SUFFICES ASSUME ~overlapped PROVE OneBuilder'
      BY <1>1 DEF OneBuilder
    <2>1. \A u \in Threads : op[u].pc \in BuilderSteps => u = t
      BY <1>1 DEF KitInv, OneBuilder, Building
    <2>2. /\ \A u \in Threads : op'[u].pc \in BuilderSteps => u = t
          /\ op'[t].pc \in BuilderSteps /\ op'[t].got = kits'
      BY <1>1, <1>2, <1>3, <1>4, <2>1
    <2>3. \A u \in Threads : op'[u].pc = "store_aliases" => u = t
      BY <2>2 DEF BuilderSteps
    <2>. QED
      BY <1>1, <2>2, <2>3 DEF KitInv, OneBuilder, Building
  <1>9. /\ kitsMtime' \in 0..MaxTime \cup {Never} /\ kits' \in Bodies \cup {NoKit}
        /\ aliases' \in BOOLEAN /\ overlapped' \in BOOLEAN
        /\ rivals' \subseteq Bodies \cup {NoKit}
    BY <1>1, <1>2 DEF SettingsInv, SettingsTypeOK
  <1>. QED
    BY <1>4, <1>6, <1>7, <1>8, <1>9, RegistrySteps DEF KitInv

\* ... then ALIASES, and the registry is whole again.
LEMMA StoreAliasesKeeps ==
    ASSUME SettingsInv, NEW t \in Threads, StoreAliases(t), UNCHANGED <<files, cache, inForce>>
    PROVE  SettingsInv'
  <1>1. /\ op[t].pc = "store_aliases" /\ op[t].pc \in BuilderSteps /\ KitInv
        /\ aliases' = (op[t].got # NoKit) /\ Goto(t, "kits_ready")
        /\ UNCHANGED <<kitsMtime, kits, overlapped, rivals>>
    BY DEF StoreAliases, At, BuilderSteps, SettingsInv
  <1>2. /\ OpSound /\ NoStore /\ op'[t].pc = "kits_ready"
        /\ \A u \in Threads \ {t} : op'[u] = op[u]
    BY <1>1, Moves
  <1>3. UNCHANGED <<clock, kitDisk, kitVersions>>
    BY FilesFacts
  <1>4. KitTimes'
    BY <1>1, <1>3 DEF KitInv, KitTimes
  <1>5. KitsKnown'
    BY <1>1, <1>2, <1>3 DEF KitInv, KitsKnown
  <1>6. OneBuilder'
    <2> SUFFICES ASSUME ~overlapped PROVE OneBuilder'
      BY <1>1 DEF OneBuilder
    <2>1. /\ \A u \in Threads : op[u].pc \in BuilderSteps => u = t
          /\ kits = op[t].got /\ rivals = {}
      BY <1>1 DEF KitInv, OneBuilder, Building
    <2>2. \A u \in Threads : op'[u].pc \notin BuilderSteps
      BY <1>2, <2>1 DEF BuilderSteps
    <2>3. \A u \in Threads : op'[u].pc # "store_aliases"
      BY <2>2 DEF BuilderSteps
    <2>. QED
      BY <1>1, <2>1, <2>2, <2>3 DEF OneBuilder, Building
  <1>7. /\ kitsMtime' \in 0..MaxTime \cup {Never} /\ kits' \in Bodies \cup {NoKit}
        /\ aliases' \in BOOLEAN /\ overlapped' \in BOOLEAN
        /\ rivals' \subseteq Bodies \cup {NoKit}
    BY <1>1 DEF SettingsInv, SettingsTypeOK
  <1>. QED
    BY <1>2, <1>4, <1>5, <1>6, <1>7, RegistrySteps DEF KitInv

LEMMA ReloadKeeps ==
    ASSUME SettingsInv, NEW t \in Threads, Reload(t)
    PROVE  SettingsInv'
  <1>1. UNCHANGED <<files, cache, inForce>>
    BY DEF Reload
  <1>2. (op[t].job \in {"put", "delete"}) \in BOOLEAN
    OBVIOUS
  <1>3. CASE KitStat(t, op[t].job \in {"put", "delete"})
    BY <1>1, <1>2, <1>3, KitStatKeeps
  <1>. QED
    BY <1>1, <1>3, BuildRegistryKeeps, StoreKitsKeeps, StoreAliasesKeeps DEF Reload

LEMMA ListKitsKeeps ==
    ASSUME SettingsInv, NEW t \in Threads, ListKits(t)
    PROVE  SettingsInv'
  <1>1. /\ Begin(t, "list", "kit_stat", "keep_fields")
        /\ UNCHANGED <<files, registry, cache, inForce>>
    BY DEF ListKits
  <1>2. OpSound /\ NoStore /\ NoBuild
    BY <1>1, Begins DEF Files
  <1>. QED
    BY <1>1, <1>2, FilesFacts, OnlyMoves

LEMMA PutKitKeeps ==
    ASSUME SettingsInv, NEW t \in Threads, PutKit(t)
    PROVE  SettingsInv'
  <1>1. PICK body \in KitBodies :
            op' = [op EXCEPT ![t] = [Idle EXCEPT !.job = "put", !.pc = "put", !.got = body]]
    BY DEF PutKit
  <1>2. /\ op[t].pc = "idle" /\ op[t].pc \notin BuilderSteps /\ edits' \in 0..MaxEdits
        /\ WriteKits(Torn) /\ UNCHANGED <<registry, cache, inForce>>
    BY EditedFact DEF PutKit, At, BuilderSteps
  <1> DEFINE r == [Idle EXCEPT !.job = "put", !.pc = "put", !.got = body]
  <1>3. r \in Op /\ r.pc = "put" /\ r.got = body
    BY <1>1, IdleFacts, SettingsAssumption DEF Op
  <1> HIDE DEF r
  <1>4. Holds(r) /\ r.pc \notin Loaders /\ r.pc \notin BuilderSteps
    BY <1>3 DEF Holds, BuilderSteps, Loaders
  <1>5. OpSound /\ NoStore /\ NoBuild
    <2>1. op' = [op EXCEPT ![t] = r]
      BY <1>1 DEF r
    <2>. QED
      BY <1>2, <1>3, <1>4, <2>1, OpStep
  <1>. QED
    BY <1>2, <1>5, WriteKitsKeeps

LEMMA PutKitWriteKeeps ==
    ASSUME SettingsInv, NEW t \in Threads, PutKitWrite(t)
    PROVE  SettingsInv'
  <1>1. /\ op[t].pc = "put" /\ op[t].pc \notin BuilderSteps
        /\ WriteKits(op[t].got) /\ Goto(t, "kit_stat")
        /\ UNCHANGED <<edits, registry, cache, inForce>>
    BY DEF PutKitWrite, At, BuilderSteps
  <1>2. OpSound /\ NoStore /\ NoBuild
    BY <1>1, Moves
  <1>3. edits' \in 0..MaxEdits /\ op[t].got \in Bodies \cup {NoKit}
    BY <1>1 DEF SettingsInv, SettingsTypeOK
  <1>. QED
    BY <1>1, <1>2, <1>3, WriteKitsKeeps

LEMMA DeleteKitKeeps ==
    ASSUME SettingsInv, NEW t \in Threads, DeleteKit(t)
    PROVE  SettingsInv'
  <1>1. /\ Begin(t, "delete", "kit_stat", "keep_fields") /\ WriteKits(NoKit)
        /\ UNCHANGED <<registry, cache, inForce>> /\ edits' \in 0..MaxEdits
    BY EditedFact DEF DeleteKit
  <1>2. OpSound /\ NoStore /\ NoBuild
    BY <1>1, Begins DEF Files
  <1>. QED
    BY <1>1, <1>2, WriteKitsKeeps

LEMMA ReloadDoneKeeps ==
    ASSUME SettingsInv, NEW t \in Threads, ReloadDone(t)
    PROVE  SettingsInv'
  <1>1. /\ op[t].pc = "kits_ready" /\ op[t].pc \notin BuilderSteps
        /\ op' = [op EXCEPT ![t] = Idle]
        /\ UNCHANGED <<files, registry, cache, inForce>>
    BY DEF ReloadDone, At, BuilderSteps
  <1>2. Idle.pc \notin Loaders /\ Idle.pc \notin BuilderSteps
    BY DEF Idle, BuilderSteps, Loaders
  <1>3. OpSound /\ NoStore /\ NoBuild
    BY <1>1, <1>2, IdleFacts, OpStep
  <1>. QED
    BY <1>1, <1>3, FilesFacts, OnlyMoves

\* What a thread does to the configuration, one step after the other.
ThreadStep(t) ==
    \/ Load(t) \/ Save(t) \/ Reload(t)
    \/ GetOverrides(t) \/ ListKits(t) \/ PostOverride(t)
    \/ PutKit(t) \/ PutKitWrite(t) \/ DeleteKit(t) \/ ReloadDone(t)

\* Threads interleave as they like: every step of every one of them preserves
\* the invariant.
LEMMA ThreadKeeps ==
    ASSUME SettingsInv, NEW t \in Threads, ThreadStep(t)
    PROVE  SettingsInv'
  BY LoadKeeps, SaveKeeps, ReloadKeeps, GetOverridesKeeps, ListKitsKeeps, PostOverrideKeeps,
     PutKitKeeps, PutKitWriteKeeps, DeleteKitKeeps, ReloadDoneKeeps DEF ThreadStep

\* The application starts with empty caches and a registry that holds the kit.
LEMMA SettingsInitKeeps ==
    ASSUME NEW bodies, \A f \in Files : bodies[f] \in Sayable(f),
           NEW kit \in Bodies \cup {NoKit}, SettingsInit(bodies, kit)
    PROVE  SettingsInv
  <1>1. /\ clock = 1 /\ edits = 0 /\ overlapped = FALSE /\ rivals = {}
        /\ versions = [f \in Files |-> {bodies[f]}] /\ kitVersions = {kit}
        /\ disk = [f \in Files |-> [mtime |-> IF bodies[f] = Empty THEN Never ELSE 1,
                                    body |-> bodies[f]]]
        /\ cache = [f \in Files |-> [mtime |-> Never, body |-> Empty]]
        /\ inForce = [f \in Files |-> Empty]
        /\ kitDisk = [mtime |-> IF kit = NoKit THEN 0 ELSE 1, body |-> kit]
        /\ kitsMtime = Never /\ kits = kit /\ aliases = (kit # NoKit)
        /\ op = [t \in Threads |-> Idle]
    BY DEF SettingsInit
  <1>2. 1 \in 1..MaxTime /\ 0 \in 0..MaxTime /\ 1 \in 0..MaxTime /\ 0 \in 0..MaxEdits
    BY SettingsAssumption
  <1>3. \A f \in Files : bodies[f] \in Bodies /\ bodies[f] # Torn
    BY SayableFacts
  <1>4. disk \in [Files -> [mtime : 1..MaxTime \cup {Never}, body : Bodies \cup {Torn}]]
    BY <1>1, <1>2, <1>3
  <1>5. cache \in [Files -> [mtime : 1..MaxTime \cup {Never}, body : Bodies]]
    BY <1>1, SayableFacts
  <1>6. inForce \in [Files -> Bodies]
    BY <1>1, SayableFacts
  <1>7. kitDisk \in [mtime : 0..MaxTime, body : Bodies \cup {NoKit, Torn}]
    BY <1>1, <1>2
  <1>8. op \in [Threads -> Op]
    BY <1>1, IdleFacts
  <1>9. /\ (kit # NoKit) \in BOOLEAN
        /\ versions \in [Files -> SUBSET Bodies] /\ kitVersions \subseteq Bodies \cup {NoKit}
    BY <1>1, <1>3
  <1>10. SettingsTypeOK
    BY <1>1, <1>2, <1>4, <1>5, <1>6, <1>7, <1>8, <1>9 DEF SettingsTypeOK, Op
  <1>11. \A t \in Threads : Holds(op[t]) /\ op[t].pc = "idle"
    BY <1>1, IdleFacts
  <1>12. Said
    BY <1>1, <1>3, SayableFacts DEF Said
  <1>13. CacheInv
    <2>1. \A f \in Files : disk[f].mtime \in {1, Never} /\ cache[f].mtime = Never
      BY <1>1
    <2>2. TimesOrdered
      BY <1>1, <1>11, <2>1 DEF TimesOrdered, Loaders
    <2>3. VersionsHold
      BY <1>1, <1>3 DEF VersionsHold, Reading
    <2>. QED
      BY <1>11, <2>1, <2>2, <2>3 DEF CacheInv, CacheCurrent, StoresCurrent
  <1>14. kitsMtime # kitDisk.mtime /\ kitDisk.mtime \in {0, 1}
    BY <1>1, SettingsAssumption
  <1>15. KitInv
    <2>1. KitTimes
      BY <1>1, <1>14, SettingsAssumption DEF KitTimes, KitReading
    <2>2. \A t \in Threads : op[t].pc \notin BuilderSteps /\ op[t].pc # "store_aliases"
      BY <1>11 DEF BuilderSteps
    <2>. QED
      BY <1>1, <1>14, <2>1, <2>2 DEF KitInv, KitsKnown, OneBuilder, Building
  <1>. QED
    BY <1>10, <1>11, <1>12, <1>13, <1>15 DEF SettingsInv

===============================================================================
