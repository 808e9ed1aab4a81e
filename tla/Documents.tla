------------------------------ MODULE Documents ------------------------------
(***************************************************************************)
(* One document through anonymisation: POST /api/anonymize under app.LOCK, *)
(* or cmd_anonymize of the command line.  The request loads the            *)
(* configuration (module Settings), detects the vendor kit, decides how    *)
(* each field is treated, transforms the document cell by cell, sweeps the *)
(* result with the vault, and gives a verdict; meanwhile administrators    *)
(* edit the configuration.                                                 *)
(*                                                                         *)
(* A cell is a field and the set of items its value is made of; two cells  *)
(* of a field belong to different records.  An item stands for every value *)
(* the code treats alike:                                                  *)
(*   mail    an e-mail address               addr   an internal IP address *)
(*   public  an address ip_mode leaves alone odd    found only by the      *)
(*   phone   a labelled telephone number            residual scan          *)
(*   digits  a bare telephone number         name   a labelled person name *)
(*   word    a bare user name                                              *)
(* A value of several items is prose.                                      *)
(***************************************************************************)
EXTENDS Settings, Sequences, FiniteSets

CONSTANTS
    NameClass,    \* field -> what the catalogues say of its name
    Fingerprint,  \* the fields by which the user kit is recognised
    Jobs,         \* the documents to anonymise
    Watched,      \* those during which administrators are active
    SetupsFor(_)  \* the configurations a document may find on disk

Items == {"mail", "addr", "public", "odd", "phone", "digits", "name", "word"}
Classes == {"text", "descriptive", "user", "ip", "safe", "phone", "other", "header"}
Structured == {"json", "cef"}
Names == DOMAIN NameClass

\* A document of some format, the DLP action of each category, its cells.
Requests ==
    [fmt : {"csv", "text"} \cup Structured, safe : BOOLEAN, entry : {"app", "cli"},
     dlp : [{"phone", "name"} -> {"pseudonymize", "redact", "block", "keep"}],
     cells : Seq([field : Names, items : (SUBSET Items) \ {{}}]), known : BOOLEAN]

ASSUME DocumentsAssumption ==
    /\ NameClass \in [Names -> Classes] /\ Fields \subseteq Names
    /\ Watched \subseteq Jobs /\ Jobs \subseteq Requests
    /\ \A j \in Jobs : \A s \in SetupsFor(j) :
           /\ \A f \in Files : s.bodies[f] \in Sayable(f)
           /\ s.kit \in Bodies \cup {NoKit}

VARIABLES
    job,       \* the request: format, safe mode, DLP policy, entry, cells
    phase,     \* where it is
    at,        \* the next cell
    vendor,    \* whether the user kit was detected
    decided,   \* field -> its decision, once made
    out,       \* the cells transformed so far: item -> how it comes out
    known,     \* whether the vault holds the bare user name (job.known: from before)
    failed,    \* some cell counted as failed
    blocks,    \* what the DLP policy blocked: pairs of a cell and an item
    raised,    \* the final sweep raised and was skipped
    lenient    \* history: fields some configuration in memory kept readable

dvars == <<job, phase, at, vendor, decided, out, known, failed, blocks, raised>>
vars == <<svars, dvars, lenient>>

Decision(act, kind, by) == [act |-> act, kind |-> kind, by |-> by]
Undecided == Decision("undecided", "none", "")
Indices == 1..Len(job.cells)
Cell == job.cells[at]
FieldOf(k) == job.cells[k].field
ItemsOf(k) == job.cells[k].items
IsStructured == job.fmt \in Structured

DocumentsInit ==
    /\ job \in Jobs
    /\ \E s \in SetupsFor(job) : SettingsInit(s.bodies, s.kit)
    /\ phase = "arrived" /\ at = 1
    /\ vendor = FALSE
    /\ decided = [n \in Names |-> Undecided]
    /\ out = <<>>
    /\ known = job.known
    /\ failed = FALSE /\ blocks = {} /\ raised = FALSE
    /\ lenient = {}

-----------------------------------------------------------------------------
(* resolve_field and apply_safe_policy: how a field is treated.            *)

Prose(k) == Cardinality(ItemsOf(k)) > 1

\* kind_from_values: with these few samples a clear majority is all of them.
SniffOne(items) ==
    IF items = {"mail"} THEN "email"
    ELSE IF items \in {{"addr"}, {"public"}} THEN "ip" ELSE "none"
SniffedKind(samples) ==
    LET kinds == {SniffOne(ItemsOf(k)) : k \in samples}
    IN  IF Cardinality(kinds) = 1 THEN CHOOSE kind \in kinds : TRUE ELSE "none"

LooksLikeFreeText(samples) ==
    2 * Cardinality({k \in samples : Prose(k)}) >= Cardinality(samples)

Configured(file, n) == IF n \in Fields THEN inForce[file][n] ELSE Unset

\* match_rule looks the kit up in ALIASES, then in KITS.
KitSays(n) == IF vendor /\ aliases /\ kits # NoKit /\ n \in Fields THEN kits[n] ELSE Unset
KitRaises(n) ==
    /\ vendor /\ aliases /\ kits = NoKit
    /\ Configured("keep_fields", n) = Unset /\ Configured("field_overrides", n) = Unset

\* Faulty variant: masked as a typed kind, as before 0.27.1.
KindTyped(act) == IF act = "mask" THEN "iban" ELSE "none"

KindOf(act) == IF act = "mask" THEN "opaque" ELSE "none"

ByName(n) ==
    LET class == NameClass[n] IN
    IF class \in {"text", "descriptive"} THEN Decision("text", "none", "generic")
    ELSE IF class \in {"user", "ip"} THEN Decision("mask", class, "generic")
    ELSE IF class = "safe" THEN Decision("keep", "none", "safe") ELSE Undecided

ByValue(samples) ==
    IF SniffedKind(samples) # "none" THEN Decision("mask", SniffedKind(samples), "value")
    ELSE IF LooksLikeFreeText(samples) THEN Decision("text", "none", "heuristic")
    ELSE Decision("keep", "none", "")

ResolveField(n, samples) ==
    LET override == Configured("field_overrides", n)
        rule == KitSays(n)
    IN  IF Configured("keep_fields", n) # Unset THEN Decision("keep", "none", "config")
        ELSE IF override # Unset THEN Decision(override, KindOf(override), "config")
        ELSE IF rule # Unset THEN Decision(rule, KindOf(rule), "vendor")
        ELSE IF ByName(n) # Undecided THEN ByName(n) ELSE ByValue(samples)

\* Safe mode elides the columns that nothing classifies.
ApplySafePolicy(n, d) ==
    IF job.safe /\ d.act = "keep" /\ d.by \notin {"vendor", "config"} /\ NameClass[n] # "safe"
    THEN Decision("redact", "none", "safe") ELSE d

-----------------------------------------------------------------------------
(* What the passes do to the items of a value: each one is left clear,     *)
(* masked by a pseudonym, or elided.                                       *)

All(items, how) == [i \in items |-> how]
Clear(o) == {i \in DOMAIN o : o[i] = "clear"}

\* dlp.apply and apply_field.
Category(i) == IF i = "name" THEN "name" ELSE "phone"
ActionOn(i) == job.dlp[Category(i)]
DlpOutcome(i) ==
    LET a == ActionOn(i) IN
    IF a = "pseudonymize" THEN "masked" ELSE IF a = "redact" THEN "elided" ELSE "clear"
Detected(items) == items \cap {"phone", "name"}
DetectedInField(n, items) ==
    Detected(items) \cup IF NameClass[n] = "phone" /\ items = {"digits"} THEN items ELSE {}
BlockedAmong(found) == {i \in found : ActionOn(i) = "block"}

\* Anonymizer.process.
Process(items) ==
    [i \in items |-> IF i \in {"mail", "addr"} THEN "masked"
                     ELSE IF i \in Detected(items) THEN DlpOutcome(i) ELSE "clear"]

\* Faulty variant: readable values are not swept for e-mail addresses.
ProcessDlpFieldUnswept(n, items) ==
    [i \in items |-> IF i \in DetectedInField(n, items) THEN DlpOutcome(i) ELSE "clear"]

\* Anonymizer.process_dlp_field, for values that stay readable.
ProcessDlpField(n, items) ==
    [i \in items |-> IF i = "mail" THEN "masked"
                     ELSE IF i \in DetectedInField(n, items) THEN DlpOutcome(i) ELSE "clear"]

\* sweep_known, for the bare user name.
SweepKnown(o) ==
    [i \in DOMAIN o |-> IF i = "word" /\ known /\ o[i] = "clear" THEN "masked" ELSE o[i]]

\* scan_sensitive_residuals and redact_residuals.
Residuals(o) ==
    {i \in Clear(o) : i \in {"mail", "odd"} \/ (i = "phone" /\ ActionOn(i) # "keep")}
RedactResiduals(o) ==
    [i \in DOMAIN o |-> IF i \in Residuals(o) /\ ~(i = "phone" /\ ActionOn(i) = "block")
                        THEN "elided" ELSE o[i]]

\* CsvAnonymizer._mask_cell: the outcome and the parts no kind could handle.
MaskCell(kind, items) ==
    LET handled == IF kind = "opaque" THEN items
                   ELSE IF kind = "user"
                        THEN IF items = {"mail"} \/ items \cap {"mail", "odd"} = {}
                             THEN items ELSE {}
                   ELSE IF kind = "email" THEN items \cap {"mail"} ELSE items \cap {"addr"}
        kept == IF kind = "ip" THEN items \cap {"public"} ELSE {}
    IN  [out |-> [i \in items |-> IF i \in handled THEN "masked" ELSE "clear"],
         failures |-> items \ (handled \cup kept)]

-----------------------------------------------------------------------------
(* One cell: its outcome, whether it failed, and what DLP blocked in it.   *)

Result(o, fails, blocked) == [out |-> o, failed |-> fails, blocked |-> blocked]

\* Faulty variant: what no kind handles fails in safe mode too.
MaskedOrFailed(d, items) ==
    LET m == MaskCell(d.kind, items) IN Result(m.out, m.failures # {}, {})

Masked(d, items) ==
    LET m == MaskCell(d.kind, items) IN
    IF m.failures = {} THEN Result(m.out, FALSE, {})
    ELSE IF job.safe THEN Result(All(items, "elided"), FALSE, {})
    ELSE Result(m.out, TRUE, {})

KeptReadable(n, items) ==
    LET blocked == BlockedAmong(DetectedInField(n, items))
    IN  Result(ProcessDlpField(n, items), blocked # {}, blocked)

\* CsvAnonymizer.process, for one cell.
CsvText(items) ==
    LET o == SweepKnown(Process(items))
        blocked == BlockedAmong(Detected(items))
    IN  IF job.safe THEN Result(RedactResiduals(o), blocked # {}, blocked)
        ELSE Result(o, blocked # {} \/ Residuals(o) # {}, blocked)

CsvCell(n, d, items) ==
    IF d.act \in {"drop", "redact"} THEN Result(All(items, "elided"), FALSE, {})
    ELSE IF d.act = "mask" THEN Masked(d, items)
    ELSE IF d.act = "text" THEN CsvText(items) ELSE KeptReadable(n, items)

\* StructuredAnonymizer._safe_text.
SafeText(items, sweep) ==
    LET o == Process(items)
        s == IF sweep THEN SweepKnown(o) ELSE o
    IN  IF job.safe THEN RedactResiduals(s) ELSE o

StructuredText(n, items) ==
    LET o == SafeText(items, NameClass[n] # "descriptive")
        blocked == BlockedAmong(Detected(items))
    IN  IF Residuals(o) = {} THEN Result(o, blocked # {}, blocked)
        ELSE IF job.safe THEN Result(All(items, "elided"), blocked # {}, blocked)
        ELSE Result(All(items, "clear"), TRUE, blocked)

\* Faulty variant: safe mode keeps an unknown field like a harmless one.
UnknownFieldKept(n, items) ==
    LET r == KeptReadable(n, items) IN
    IF r.out # All(items, "clear") \/ r.blocked # {} \/ NameClass[n] = "safe" \/ job.safe
    THEN r ELSE Result(r.out, TRUE, {})

UnknownField(n, items) ==
    LET r == KeptReadable(n, items) IN
    IF r.out # All(items, "clear") \/ r.blocked # {} THEN r
    ELSE IF NameClass[n] = "safe" THEN r
    ELSE IF job.safe THEN Result(All(items, "elided"), FALSE, {})
    ELSE Result(r.out, TRUE, {})

\* transform_scalar, once the decision is made.
StructuredCell(n, d, items) ==
    IF d.act = "text" THEN StructuredText(n, items)
    ELSE IF d.act = "keep" /\ d.by # "" THEN KeptReadable(n, items)
    ELSE IF d.kind # "none" THEN Masked(d, items) ELSE UnknownField(n, items)

\* The name in a CEF header, and the text before the pairs of a syslog line.
HeaderCell(items) ==
    LET o == SafeText(items, TRUE)
        blocked == BlockedAmong(Detected(items))
    IN  IF Residuals(o) # {} /\ job.safe THEN Result(All(items, "elided"), FALSE, blocked)
        ELSE Result(o, Residuals(o) # {}, blocked)

\* _anonymize_text, and the last branch of cmd_anonymize.
TextCell(items) ==
    LET o == SafeText(items, TRUE)
    IN  Result(o, Residuals(o) # {}, BlockedAmong(Detected(items)))

Transformed(n, d, items) ==
    IF job.fmt = "text" THEN TextCell(items)
    ELSE IF job.fmt = "csv" THEN CsvCell(n, d, items)
    ELSE IF NameClass[n] = "header" THEN HeaderCell(items) ELSE StructuredCell(n, d, items)

-----------------------------------------------------------------------------
(* The request.                                                            *)

\* The fields that some configuration in memory leaves readable or as text.
Readable(force, registered) ==
    {r \in Fields \X {"keep", "text"} :
        \/ r[2] = "keep" /\ \E f \in Files : force[f][r[1]] = "keep"
        \/ registered # NoKit /\ registered[r[1]] = r[2]}
Remember ==
    lenient' = IF phase' \in {"arrived", "loading"} THEN {}
               ELSE lenient \cup Readable(inForce', kits')

\* The application loads the configuration; the command line has none.
Arrive ==
    /\ phase = "arrived"
    /\ \/ /\ job.entry = "app" /\ phase' = "loading"
          /\ Begin(Worker, "request", "stat", "keep_fields")
       \/ /\ job.entry = "cli" /\ phase' = "loading"
          /\ Begin(Worker, "request", "loaded", "keep_fields")
    /\ UNCHANGED <<files, registry, cache, inForce,
                   job, at, vendor, decided, out, known, failed, blocks, raised>>
    /\ Remember

LoadConfiguration ==
    /\ phase = "loading" /\ Load(Worker)
    /\ UNCHANGED dvars
    /\ Remember

\* Only documents with named fields look for a kit.
StartDetection ==
    /\ phase = "loading" /\ At(Worker, "loaded")
    /\ \/ job.fmt = "text" /\ phase' = "cells" /\ UNCHANGED op
       \/ job.fmt # "text" /\ phase' = "detecting" /\ Goto(Worker, "kit_stat")
    /\ UNCHANGED <<files, registry, cache, inForce,
                   job, at, vendor, decided, out, known, failed, blocks, raised>>
    /\ Remember

ReloadKits ==
    /\ phase = "detecting" /\ Reload(Worker)
    /\ UNCHANGED dvars
    /\ Remember

DetectVendorKit ==
    /\ phase = "detecting" /\ At(Worker, "kits_ready")
    /\ vendor' = (kits # NoKit /\ \E k \in Indices : FieldOf(k) \in Fingerprint)
    /\ phase' = IF job.fmt = "csv" THEN "policy" ELSE "cells"
    /\ UNCHANGED <<svars, job, at, decided, out, known, failed, blocks, raised>>
    /\ Remember

\* default_policy: column by column, from the values of the whole column.
DefaultPolicy ==
    /\ phase = "policy" /\ at \in Indices /\ ~KitRaises(Cell.field)
    /\ decided' = [decided EXCEPT ![Cell.field] =
                     IF @ # Undecided THEN @
                     ELSE ResolveField(Cell.field, {k \in Indices : FieldOf(k) = Cell.field})]
    /\ at' = at + 1
    /\ UNCHANGED <<svars, job, phase, vendor, out, known, failed, blocks, raised>>
    /\ Remember

PolicyDone ==
    /\ phase = "policy" /\ at \notin Indices
    /\ decided' = [n \in Names |-> ApplySafePolicy(n, decided[n])]
    /\ phase' = "cells" /\ at' = 1
    /\ UNCHANGED <<svars, job, vendor, out, known, failed, blocks, raised>>
    /\ Remember

\* Faulty variant: the decision is not remembered.
DecisionAfresh(n) == ResolveField(n, {at})

\* A structured field is decided from its first value, and remembered.
DecisionFor(n) ==
    IF decided[n] # Undecided THEN decided[n] ELSE ResolveField(n, {at})

HasDecision(n) == IsStructured /\ NameClass[n] # "header"
NeedsDecision(n) == HasDecision(n) /\ decided[n] = Undecided

Transform ==
    LET n == Cell.field
        d == IF HasDecision(n) THEN DecisionFor(n) ELSE decided[n]
        r == Transformed(n, d, Cell.items)
    IN  /\ phase = "cells" /\ at \in Indices
        /\ ~(NeedsDecision(n) /\ KitRaises(n))
        /\ decided' = [decided EXCEPT ![n] = d]
        /\ out' = Append(out, r.out)
        /\ failed' = (failed \/ r.failed)
        /\ blocks' = blocks \cup {<<at, i>> : i \in r.blocked}
        /\ known' = (known \/ (d.act = "mask" /\ d.kind = "user" /\ Cell.items = {"word"}))
        /\ at' = at + 1
        /\ UNCHANGED <<svars, job, phase, vendor, raised>>
        /\ Remember

\* The kit vanished between ALIASES and KITS: the request fails with KeyError.
Fail ==
    /\ phase \in {"policy", "cells"} /\ at \in Indices /\ KitRaises(Cell.field)
    /\ phase = "policy" \/ NeedsDecision(Cell.field)
    /\ phase' = "error"
    /\ op' = [op EXCEPT ![Worker] = Idle]
    /\ UNCHANGED <<files, registry, cache, inForce,
                   job, at, vendor, decided, out, known, failed, blocks, raised>>
    /\ Remember

\* Faulty variant: the output is not swept.
NoFinalSweep ==
    /\ phase = "cells" /\ at \notin Indices
    /\ phase' = "verdict"
    /\ UNCHANGED <<svars, job, at, vendor, decided, out, known, failed, blocks, raised>>
    /\ Remember

\* anonymize_structured sweeps the whole output; an exception there is swallowed.
FinalSweep ==
    /\ phase = "cells" /\ at \notin Indices
    /\ phase' = "verdict"
    /\ \/ ~(IsStructured /\ job.safe) /\ UNCHANGED <<out, raised>>
       \/ /\ IsStructured /\ job.safe
          /\ out' = [k \in Indices |-> SweepKnown(out[k])] /\ UNCHANGED raised
       \/ /\ IsStructured /\ job.safe
          /\ raised' = TRUE /\ UNCHANGED out
    /\ UNCHANGED <<svars, job, at, vendor, decided, known, failed, blocks>>
    /\ Remember

\* A column kept readable that neither a kit nor its name vouches for.
ExposedColumn(n) ==
    decided[n].act = "keep" /\ decided[n].by # "vendor" /\ NameClass[n] # "safe"
Exposed == job.fmt = "csv" /\ \E k \in Indices : ExposedColumn(FieldOf(k))

\* Faulty variant: DLP blocks count in text and CSV only, also for the application.
BlockedByCells ==
    \/ failed \/ Exposed
    \/ blocks # {} /\ job.fmt \in {"text", "csv"}

\* The command line leaves DLP blocks out of its verdict on structured files.
Blocked ==
    \/ failed \/ Exposed
    \/ blocks # {} /\ (job.entry = "app" \/ job.fmt = "text")

Verdict ==
    /\ phase = "verdict"
    /\ phase' = IF Blocked THEN "refused" ELSE "delivered"
    /\ op' = [op EXCEPT ![Worker] = Idle]
    /\ UNCHANGED <<files, registry, cache, inForce,
                   job, at, vendor, decided, out, known, failed, blocks, raised>>
    /\ Remember

Request ==
    \/ Arrive \/ LoadConfiguration \/ StartDetection \/ ReloadKits \/ DetectVendorKit
    \/ DefaultPolicy \/ PolicyDone \/ Transform \/ Fail \/ FinalSweep \/ Verdict

Ended == phase \in {"refused", "delivered", "error"}

\* Administrators are followed while a watched document is on its way.
Meanwhile == job \in Watched /\ ~Ended /\ UNCHANGED dvars /\ Remember

Administration(t) ==
    \/ Load(t) /\ Meanwhile
    \/ Save(t) /\ Meanwhile
    \/ Reload(t) /\ Meanwhile
    \/ (GetOverrides(t) \/ ListKits(t)) /\ Meanwhile
    \/ (PostOverride(t) \/ PutKit(t) \/ DeleteKit(t)) /\ Meanwhile
    \/ (PutKitWrite(t) \/ ReloadDone(t)) /\ Meanwhile

Next ==
    \/ Request
    \/ (Tick \/ HandEdit) /\ Meanwhile
    \/ \E t \in Admins : Administration(t)
Spec == DocumentsInit /\ [][Next]_vars

-----------------------------------------------------------------------------
(* Properties.                                                             *)

Delivered == phase = "delivered"

TypeOK ==
    /\ SettingsTypeOK
    /\ job.fmt \in {"csv", "text"} \cup Structured /\ job.entry \in {"app", "cli"}
    /\ phase \in {"arrived", "loading", "detecting", "policy", "cells", "verdict",
                  "delivered", "refused", "error"}
    /\ at \in 1..(Len(job.cells) + 1)
    /\ Len(out) = IF phase \in {"policy", "arrived", "loading", "detecting"} THEN 0
                  ELSE IF phase = "error" THEN Len(out) ELSE at - 1
    /\ \A k \in 1..Len(out) : out[k] \in [ItemsOf(k) -> {"clear", "masked", "elided"}]
    /\ \A n \in Names : /\ decided[n].act \in (Actions \ {Unset}) \cup {"undecided"}
                        /\ decided[n].kind \in {"none", "user", "ip", "email", "opaque"}
                        /\ decided[n].by \in {"", "config", "vendor", "generic", "safe",
                                              "value", "heuristic"}
    /\ blocks \subseteq Indices \X Items
    /\ lenient \subseteq Fields \X {"keep", "text"}
    /\ <<vendor, known, failed, raised>> \in BOOLEAN \X BOOLEAN \X BOOLEAN \X BOOLEAN

\* No e-mail address reaches a delivered document in clear: whatever the
\* format and the mode, whoever kept the field readable, and whatever
\* administrators change meanwhile.
NoMailDelivered ==
    Delivered => \A k \in Indices : "mail" \notin Clear(out[k])

Recognised(k) == ItemsOf(k) \cap ({"mail", "addr", "odd"} \cup
                   IF ActionOn("phone") = "keep" THEN {} ELSE {"phone"})
IsText(k) ==
    \/ job.fmt = "text" \/ NameClass[FieldOf(k)] \in {"text", "descriptive", "header"}
    \/ \E j \in Indices : FieldOf(j) = FieldOf(k) /\ Prose(j)
    \/ <<FieldOf(k), "text">> \in lenient

\* In safe mode a value comes through untouched only for a reason: a field
\* that configuration in memory during the request keeps readable, a name
\* with operational meaning, an address the IP policy leaves alone, or text in
\* which no detector recognises anything.
ClearForAReason ==
    Delivered /\ job.safe =>
      \A k \in Indices : Clear(out[k]) = ItemsOf(k) =>
        \/ <<FieldOf(k), "keep">> \in lenient
        \/ NameClass[FieldOf(k)] = "safe"
        \/ ItemsOf(k) = {"public"}
        \/ IsText(k) /\ Recognised(k) = {}

\* What the DLP policy blocks is never in clear in a delivered document, in
\* any kind of field: except in the headers of a structured file anonymised
\* by the command line, whose verdict does not look at DLP blocks.
BlockedNotDelivered ==
    Delivered => \A k \in Indices : \A i \in Detected(ItemsOf(k)) :
      ActionOn(i) = "block" /\ i \in Clear(out[k])
        => job.entry = "cli" /\ NameClass[FieldOf(k)] = "header"

\* In safe mode, a user name that the vault knows by the end of a structured
\* document is in clear nowhere in it, also in cells that were transformed
\* before the vault learned it: unless the final sweep raised.
IdentitySwept ==
    Delivered /\ IsStructured /\ job.safe /\ known /\ ~raised =>
      \A k \in Indices : "word" \notin Clear(out[k])

\* Safe mode elides what it cannot handle and refuses a document only when the
\* DLP policy blocks something, or for a CSV column that configuration keeps
\* readable and no kit or name vouches for.
SafeModeDelivers ==
    phase = "refused" /\ job.safe =>
      \/ blocks # {}
      \/ /\ job.fmt = "csv"
         /\ \E k \in Indices : /\ <<FieldOf(k), "keep">> \in lenient
                               /\ NameClass[FieldOf(k)] # "safe"

\* Equal values of one field come out alike throughout a document, although
\* overrides and kits may change between two of its records.  (The bare user
\* name is left aside: it depends on what the vault has learned.)
SameFieldSameTreatment ==
    phase \in {"delivered", "refused"} =>
      \A j, k \in Indices : job.cells[j] = job.cells[k] =>
        Clear(out[j]) \ {"word"} = Clear(out[k]) \ {"word"}

=============================================================================
