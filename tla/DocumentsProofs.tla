---------------------------- MODULE DocumentsProofs ----------------------------
(****************************************************************************)
(* What holds of every document, every DLP policy, every classification of  *)
(* field names and every interference of administrators.                    *)
(*                                                                          *)
(* First the passes over one value: which items they leave clear, when they *)
(* count the cell as failed, and what they report as blocked (CellSound).   *)
(* Then the request: every cell put out keeps what was true of it when it   *)
(* was transformed (CellsInv), every decision keeps its reason in lenient   *)
(* (DecisionsInv), and the verdict looks at all of it.                      *)
(****************************************************************************)
EXTENDS Documents, SettingsProofs, SequenceTheorems, FiniteSetTheorems

How == {"clear", "masked", "elided"}
Outs == UNION {[s -> How] : s \in SUBSET Items}
ItemSets == (SUBSET Items) \ {{}}

Acts == (Actions \ {Unset}) \cup {"undecided"}
Kinds == {"none", "user", "ip", "email", "opaque"}
Decisions == [act : Acts, kind : Kinds,
              by : {"", "config", "vendor", "generic", "safe", "value", "heuristic"}]

Policies == {"pseudonymize", "redact", "block", "keep"}

JobSound == job \in Requests

-------------------------------------------------------------------------------
(* The passes *)

LEMMA JobFacts ==
    ASSUME JobSound
    PROVE  /\ job.safe \in BOOLEAN /\ job.entry \in {"app", "cli"}
           /\ job.fmt \in {"csv", "text", "json", "cef"}
           /\ job.cells \in Seq([field : Names, items : ItemSets])
           /\ \A i \in Items : ActionOn(i) \in Policies
           /\ \A k \in Indices : FieldOf(k) \in Names /\ ItemsOf(k) \in ItemSets
           /\ Len(job.cells) \in Nat
  <1>1. /\ job.safe \in BOOLEAN /\ job.entry \in {"app", "cli"}
        /\ job.fmt \in {"csv", "text", "json", "cef"}
        /\ job.cells \in Seq([field : Names, items : ItemSets])
        /\ job.dlp \in [{"phone", "name"} -> Policies]
    BY DEF JobSound, Requests, Structured, ItemSets, Policies
  <1>2. \A i \in Items : ActionOn(i) \in Policies
    BY <1>1 DEF ActionOn, Category
  <1>3. \A k \in Indices : job.cells[k] \in [field : Names, items : ItemSets]
    BY <1>1, ElementOfSeq DEF Indices
  <1>. QED
    BY <1>1, <1>2, <1>3, LenProperties DEF FieldOf, ItemsOf

\* A cell's outcome: a function on its items.
LEMMA ClearFacts ==
    ASSUME NEW items, NEW o \in [items -> How]
    PROVE  /\ Clear(o) \subseteq items /\ DOMAIN o = items
           /\ \A i \in items : i \in Clear(o) <=> o[i] = "clear"
  BY DEF Clear

LEMMA SweepFacts ==
    ASSUME NEW items, NEW o \in [items -> How]
    PROVE  /\ SweepKnown(o) \in [items -> How]
           /\ Clear(SweepKnown(o)) = {i \in Clear(o) : ~(i = "word" /\ known)}
           /\ \A i \in items : i # "word" => SweepKnown(o)[i] = o[i]
  BY DEF SweepKnown, Clear, How

LEMMA ProcessFacts ==
    ASSUME JobSound, NEW items \in SUBSET Items
    PROVE  /\ Process(items) \in [items -> How]
           /\ Clear(Process(items)) \cap {"mail", "addr"} = {}
           /\ \A i \in Clear(Process(items)) : i \in items
           /\ \A i \in Clear(Process(items)) \cap Detected(items) : ActionOn(i) \in {"block", "keep"}
           /\ \A i \in items \cap {"public", "odd", "digits", "word"} : i \in Clear(Process(items))
  <1>1. \A i \in items : DlpOutcome(i) \in How /\ (DlpOutcome(i) = "clear" <=> ActionOn(i) \in {"block", "keep"})
    BY JobFacts DEF DlpOutcome, How, Policies
  <1>2. Process(items) \in [items -> How]
    BY <1>1 DEF Process, How
  <1>3. \A i \in items : Process(items)[i] = IF i \in {"mail", "addr"} THEN "masked"
                                   ELSE IF i \in Detected(items) THEN DlpOutcome(i) ELSE "clear"
    BY DEF Process
  <1>. QED
    BY <1>1, <1>2, <1>3, ClearFacts DEF Detected

LEMMA FieldFacts ==
    ASSUME JobSound, NEW n, NEW items \in SUBSET Items
    PROVE  /\ ProcessDlpField(n, items) \in [items -> How]
           /\ "mail" \notin Clear(ProcessDlpField(n, items))
           /\ \A i \in Clear(ProcessDlpField(n, items)) \cap DetectedInField(n, items) :
                  ActionOn(i) \in {"block", "keep"}
           /\ Detected(items) \subseteq DetectedInField(n, items)
           /\ DetectedInField(n, items) \subseteq items
  <1>1. \A i \in items : DlpOutcome(i) \in How /\ (DlpOutcome(i) = "clear" <=> ActionOn(i) \in {"block", "keep"})
    BY JobFacts DEF DlpOutcome, How, Policies
  <1>2. ProcessDlpField(n, items) \in [items -> How]
    BY <1>1 DEF ProcessDlpField, How
  <1>3. \A i \in items : ProcessDlpField(n, items)[i] =
            IF i = "mail" THEN "masked"
            ELSE IF i \in DetectedInField(n, items) THEN DlpOutcome(i) ELSE "clear"
    BY DEF ProcessDlpField
  <1>4. Detected(items) \subseteq DetectedInField(n, items) /\ DetectedInField(n, items) \subseteq items
    BY DEF Detected, DetectedInField
  <1>. QED
    BY <1>1, <1>2, <1>3, <1>4, ClearFacts

LEMMA RedactFacts ==
    ASSUME NEW items, NEW o \in [items -> How]
    PROVE  /\ RedactResiduals(o) \in [items -> How]
           /\ Clear(RedactResiduals(o)) =
                  {i \in Clear(o) : i \in Residuals(o) => i = "phone" /\ ActionOn(i) = "block"}
           /\ \A i \in Residuals(RedactResiduals(o)) : i = "phone" /\ ActionOn(i) = "block"
  <1>1. RedactResiduals(o) \in [items -> How]
    BY DEF RedactResiduals, How
  <1>2. Clear(RedactResiduals(o)) =
                  {i \in Clear(o) : i \in Residuals(o) => i = "phone" /\ ActionOn(i) = "block"}
    BY DEF RedactResiduals, Clear, How
  <1>3. \A i \in Residuals(RedactResiduals(o)) : i \in Residuals(o) /\ i \in Clear(RedactResiduals(o))
    BY <1>2 DEF Residuals
  <1>. QED
    BY <1>1, <1>2, <1>3

\* _safe_text: no address stays, in safe mode no residual but a blocked number.
LEMMA SafeTextFacts ==
    ASSUME JobSound, NEW items \in SUBSET Items, NEW sweep \in BOOLEAN
    PROVE  LET o == SafeText(items, sweep) IN
           /\ o \in [items -> How]
           /\ "mail" \notin Clear(o)
           /\ \A i \in Clear(o) \cap Detected(items) : ActionOn(i) \in {"block", "keep"}
           /\ job.safe => \A i \in Residuals(o) : i = "phone" /\ ActionOn(i) = "block"
           /\ "addr" \notin Clear(o)
  <1>1. /\ Process(items) \in [items -> How]
        /\ Clear(Process(items)) \cap {"mail", "addr"} = {}
        /\ \A i \in Clear(Process(items)) \cap Detected(items) : ActionOn(i) \in {"block", "keep"}
    BY ProcessFacts
  <1>2. PICK s : s = IF sweep THEN SweepKnown(Process(items)) ELSE Process(items)
    OBVIOUS
  <1>3. s \in [items -> How] /\ Clear(s) \subseteq Clear(Process(items))
    BY <1>1, <1>2, SweepFacts
  <1>4. SafeText(items, sweep) = IF job.safe THEN RedactResiduals(s) ELSE Process(items)
    BY <1>2 DEF SafeText
  <1>5. /\ RedactResiduals(s) \in [items -> How] /\ Clear(RedactResiduals(s)) \subseteq Clear(s)
        /\ \A i \in Residuals(RedactResiduals(s)) : i = "phone" /\ ActionOn(i) = "block"
    BY <1>3, RedactFacts
  <1>. QED
    BY <1>1, <1>3, <1>4, <1>5

-------------------------------------------------------------------------------
(* One cell *)

\* What the detectors recognise in a value, as the property Recognised has it.
Recog(items) ==
    items \cap ({"mail", "addr", "odd"} \cup
                IF ActionOn("phone") = "keep" THEN {} ELSE {"phone"})

\* What is true of a cell's result, whatever its field: an address left clear or
\* a blocked item left clear is reported (other: by the block alone), and safe
\* mode fails a cell only for a block.
ResultSound(r, items, other) ==
    /\ r.out \in [items -> How] /\ r.failed \in BOOLEAN /\ r.blocked \subseteq items
    /\ "mail" \in Clear(r.out) => r.failed
    /\ \A i \in Clear(r.out) \cap Detected(items) :
           ActionOn(i) = "block" => r.failed \/ (r.blocked # {} /\ other)
    /\ job.safe /\ r.failed => r.blocked # {}

LEMMA AllFacts ==
    ASSUME NEW items \in ItemSets, NEW how \in How
    PROVE  /\ All(items, how) \in [items -> How]
           /\ how # "clear" => Clear(All(items, how)) = {}
           /\ how = "clear" => Clear(All(items, how)) = items
           /\ items # {}
  <1>1. All(items, how) \in [items -> How]
    BY DEF All
  <1>2. how # "clear" => Clear(All(items, how)) = {}
    BY DEF All, Clear
  <1>3. how = "clear" => Clear(All(items, how)) = items
    BY DEF All, Clear
  <1>4. items # {}
    BY DEF ItemSets
  <1>. QED
    BY <1>1, <1>2, <1>3, <1>4

LEMMA MaskedFacts ==
    ASSUME JobSound, NEW items \in ItemSets, NEW d \in Decisions
    PROVE  /\ ResultSound(Masked(d, items), items, FALSE)
           /\ job.safe /\ Clear(Masked(d, items).out) = items => items = {"public"}
  <1> DEFINE handled == IF d.kind = "opaque" THEN items
                        ELSE IF d.kind = "user"
                             THEN IF items = {"mail"} \/ items \cap {"mail", "odd"} = {}
                                  THEN items ELSE {}
                        ELSE IF d.kind = "email" THEN items \cap {"mail"} ELSE items \cap {"addr"}
             kept == IF d.kind = "ip" THEN items \cap {"public"} ELSE {}
             o == [i \in items |-> IF i \in handled THEN "masked" ELSE "clear"]
             failures == items \ (handled \cup kept)
             m == MaskCell(d.kind, items)
  <1>1. m.out = o /\ m.failures = failures
    BY DEF MaskCell
  <1>2. handled \subseteq items /\ kept \subseteq {"public"} /\ items # {}
    <2>1. handled \subseteq items
      <3>1. items \subseteq items /\ {} \subseteq items
            /\ items \cap {"mail"} \subseteq items /\ items \cap {"addr"} \subseteq items
        OBVIOUS
      <3>. QED
        BY <3>1
    <2>2. kept \subseteq {"public"}
      OBVIOUS
    <2>3. items # {}
      BY DEF ItemSets
    <2>. QED
      BY <2>1, <2>2, <2>3
  <1>3. Masked(d, items) = IF failures = {} THEN Result(o, FALSE, {})
                           ELSE IF job.safe THEN Result(All(items, "elided"), FALSE, {})
                           ELSE Result(o, TRUE, {})
    BY <1>1 DEF Masked
  <1> HIDE DEF handled, kept, m
  <1>4. o \in [items -> How] /\ Clear(o) = items \ handled
    BY <1>2 DEF Clear, How
  <1> HIDE DEF o
  <1>5. /\ All(items, "elided") \in [items -> How] /\ Clear(All(items, "elided")) = {}
    BY AllFacts DEF How
  <1>6. CASE failures = {}
    <2>1. Clear(o) \subseteq {"public"}
      BY <1>2, <1>4, <1>6
    <2>2. Masked(d, items) = [out |-> o, failed |-> FALSE, blocked |-> {}]
      BY <1>3, <1>6 DEF Result
    <2>. QED
      BY <1>2, <1>4, <2>1, <2>2 DEF ResultSound, Detected
  <1>7. CASE failures # {} /\ job.safe
    <2>1. Masked(d, items) = [out |-> All(items, "elided"), failed |-> FALSE, blocked |-> {}]
      BY <1>3, <1>7 DEF Result
    <2>. QED
      BY <1>2, <1>5, <2>1 DEF ResultSound
  <1>8. CASE failures # {} /\ ~job.safe
    <2>1. Masked(d, items) = [out |-> o, failed |-> TRUE, blocked |-> {}]
      BY <1>3, <1>8 DEF Result
    <2>. QED
      BY <1>4, <1>8, <2>1 DEF ResultSound
  <1>. QED
    BY <1>6, <1>7, <1>8

LEMMA BlockedFacts ==
    ASSUME NEW found
    PROVE  /\ BlockedAmong(found) \subseteq found
           /\ \A i \in found : ActionOn(i) = "block" => BlockedAmong(found) # {}
  BY DEF BlockedAmong

LEMMA KeptReadableFacts ==
    ASSUME JobSound, NEW n, NEW items \in ItemSets
    PROVE  /\ ResultSound(KeptReadable(n, items), items, FALSE)
           /\ KeptReadable(n, items).blocked # {} => KeptReadable(n, items).failed
  <1> DEFINE found == DetectedInField(n, items)
             o == ProcessDlpField(n, items)
             blocked == BlockedAmong(found)
             r == KeptReadable(n, items)
  <1>1. r = [out |-> o, failed |-> blocked # {}, blocked |-> blocked]
    BY DEF KeptReadable, Result
  <1>2. /\ o \in [items -> How] /\ "mail" \notin Clear(o)
        /\ Detected(items) \subseteq found /\ found \subseteq items
    BY FieldFacts DEF ItemSets
  <1>3. /\ blocked \subseteq found
        /\ \A i \in found : ActionOn(i) = "block" => blocked # {}
    BY BlockedFacts
  <1>4. (blocked # {}) \in BOOLEAN
    OBVIOUS
  <1>5. ResultSound(r, items, FALSE) /\ (r.blocked # {} => r.failed)
    <2> HIDE DEF found, o, blocked, r
    <2>. QED
      BY <1>1, <1>2, <1>3, <1>4 DEF ResultSound
  <1>. QED
    BY <1>5 DEF r

LEMMA UnknownFieldFacts ==
    ASSUME JobSound, NEW n, NEW items \in ItemSets
    PROVE  /\ ResultSound(UnknownField(n, items), items, FALSE)
           /\ job.safe /\ Clear(UnknownField(n, items).out) = items
              => UnknownField(n, items).failed \/ NameClass[n] = "safe"
  <1> DEFINE r == KeptReadable(n, items)
             u == UnknownField(n, items)
  <1>1. ResultSound(r, items, FALSE) /\ (r.blocked # {} => r.failed)
    BY KeptReadableFacts
  <1>2. All(items, "elided") \in [items -> How] /\ Clear(All(items, "elided")) = {} /\ items # {}
    BY AllFacts DEF How
  <1>3. \/ u = r /\ r.out # All(items, "clear")
        \/ u = r /\ r.blocked # {}
        \/ u = r /\ NameClass[n] = "safe"
        \/ job.safe /\ u = Result(All(items, "elided"), FALSE, {})
        \/ ~job.safe /\ u = Result(r.out, TRUE, {})
    BY DEF UnknownField
  <1>4. r.out # All(items, "clear") => Clear(r.out) # items
    <2> SUFFICES ASSUME Clear(r.out) = items PROVE r.out = All(items, "clear")
      OBVIOUS
    <2>1. r.out \in [items -> How] /\ \A i \in items : r.out[i] = "clear"
      BY <1>1, ClearFacts DEF ResultSound
    <2>. QED
      BY <2>1 DEF All
  <1> HIDE DEF r, u
  <1>5. ASSUME u = r
        PROVE  /\ ResultSound(u, items, FALSE)
               /\ job.safe /\ Clear(u.out) = items => u.failed \/ NameClass[n] = "safe"
    <2>1. u.out = r.out /\ u.failed = r.failed /\ u.blocked = r.blocked
      BY <1>5
    <2>2. ASSUME job.safe, Clear(r.out) = items, NameClass[n] # "safe"
          PROVE  u.failed
      <3>1. r.out = All(items, "clear")
        BY <1>4, <2>2
      <3>2. CASE r.blocked # {}
        BY <1>1, <2>1, <3>2
      <3>3. CASE job.safe /\ u = Result(All(items, "elided"), FALSE, {})
        <4>1. u.out = All(items, "elided")
          BY <3>3 DEF Result
        <4>. QED
          BY <1>2, <2>1, <2>2, <4>1
      <3>. QED
        BY <1>3, <2>2, <3>1, <3>2, <3>3
    <2>. QED
      BY <1>1, <1>5, <2>1, <2>2
  <1>6. ASSUME job.safe, u = Result(All(items, "elided"), FALSE, {})
        PROVE  ResultSound(u, items, FALSE) /\ Clear(u.out) # items
    <2>1. u = [out |-> All(items, "elided"), failed |-> FALSE, blocked |-> {}]
      BY <1>6 DEF Result
    <2>2. ResultSound(u, items, FALSE)
      BY <1>2, <2>1 DEF ResultSound
    <2>3. Clear(u.out) # items
      BY <1>2, <2>1
    <2>. QED
      BY <2>2, <2>3
  <1>7. ASSUME ~job.safe, u = Result(r.out, TRUE, {})
        PROVE  ResultSound(u, items, FALSE)
    <2>1. u = [out |-> r.out, failed |-> TRUE, blocked |-> {}]
      BY <1>7 DEF Result
    <2>2. u.out = r.out /\ u.failed = TRUE /\ u.blocked = {} /\ r.out \in [items -> How]
      BY <1>1, <2>1 DEF ResultSound
    <2>. QED
      BY <1>7, <2>2 DEF ResultSound
  <1>8. /\ ResultSound(u, items, FALSE)
        /\ job.safe /\ Clear(u.out) = items => u.failed \/ NameClass[n] = "safe"
    BY <1>3, <1>5, <1>6, <1>7
  <1>. QED
    BY <1>8 DEF u

\* A text in which everything stays clear, and no residual, has nothing that
\* the detectors recognise.
LEMMA NothingRecognised ==
    ASSUME JobSound, NEW items \in ItemSets, NEW o \in [items -> How], Clear(o) = items,
           "mail" \notin Clear(o), "addr" \notin Clear(o), Residuals(o) = {}
    PROVE  Recog(items) = {}
  BY DEF Recog, Residuals

LEMMA StructuredTextFacts ==
    ASSUME JobSound, NEW n, NEW items \in ItemSets
    PROVE  /\ ResultSound(StructuredText(n, items), items, FALSE)
           /\ job.safe /\ Clear(StructuredText(n, items).out) = items
              => StructuredText(n, items).failed \/ Recog(items) = {}
  <1> DEFINE o == SafeText(items, NameClass[n] # "descriptive")
             blocked == BlockedAmong(Detected(items))
             r == StructuredText(n, items)
  <1>0. (NameClass[n] # "descriptive") \in BOOLEAN /\ (blocked # {}) \in BOOLEAN
    OBVIOUS
  <1>1. /\ o \in [items -> How] /\ "mail" \notin Clear(o) /\ "addr" \notin Clear(o)
    BY <1>0, SafeTextFacts DEF ItemSets
  <1>2. /\ blocked \subseteq items
        /\ \A i \in Detected(items) : ActionOn(i) = "block" => blocked # {}
    BY BlockedFacts DEF Detected
  <1>3. All(items, "elided") \in [items -> How] /\ Clear(All(items, "elided")) = {} /\ items # {}
    BY AllFacts DEF How
  <1>4. All(items, "clear") \in [items -> How]
    BY AllFacts DEF How
  <1>5. r = IF Residuals(o) = {} THEN Result(o, blocked # {}, blocked)
            ELSE IF job.safe THEN Result(All(items, "elided"), blocked # {}, blocked)
            ELSE Result(All(items, "clear"), TRUE, blocked)
    BY DEF StructuredText
  <1>6. ResultSound(r, items, FALSE) /\ (job.safe /\ Clear(r.out) = items => r.failed \/ Recog(items) = {})
    <2> HIDE DEF o, blocked, r
    <2>1. CASE Residuals(o) = {}
      <3>1. r = [out |-> o, failed |-> blocked # {}, blocked |-> blocked]
        BY <1>5, <2>1 DEF Result
      <3>2. Clear(r.out) = items => Recog(items) = {}
        BY <1>1, <2>1, <3>1, NothingRecognised
      <3>. QED
        BY <1>0, <1>1, <1>2, <3>1, <3>2 DEF ResultSound
    <2>2. CASE Residuals(o) # {} /\ job.safe
      <3>1. r = [out |-> All(items, "elided"), failed |-> blocked # {}, blocked |-> blocked]
        BY <1>5, <2>2 DEF Result
      <3>. QED
        BY <1>0, <1>2, <1>3, <3>1 DEF ResultSound
    <2>3. CASE Residuals(o) # {} /\ ~job.safe
      <3>1. r = [out |-> All(items, "clear"), failed |-> TRUE, blocked |-> blocked]
        BY <1>5, <2>3 DEF Result
      <3>. QED
        BY <1>2, <1>4, <2>3, <3>1 DEF ResultSound
    <2>. QED
      BY <2>1, <2>2, <2>3
  <1>. QED
    BY <1>6 DEF r

LEMMA HeaderCellFacts ==
    ASSUME JobSound, NEW items \in ItemSets
    PROVE  /\ ResultSound(HeaderCell(items), items, TRUE)
           /\ job.safe /\ Clear(HeaderCell(items).out) = items => Recog(items) = {}
  <1> DEFINE o == SafeText(items, TRUE)
             blocked == BlockedAmong(Detected(items))
             r == HeaderCell(items)
  <1>0. (Residuals(o) # {}) \in BOOLEAN
    OBVIOUS
  <1>1. /\ o \in [items -> How] /\ "mail" \notin Clear(o) /\ "addr" \notin Clear(o)
    BY SafeTextFacts DEF ItemSets
  <1>2. /\ blocked \subseteq items
        /\ \A i \in Detected(items) : ActionOn(i) = "block" => blocked # {}
    BY BlockedFacts DEF Detected
  <1>3. All(items, "elided") \in [items -> How] /\ Clear(All(items, "elided")) = {} /\ items # {}
    BY AllFacts DEF How
  <1>4. r = IF Residuals(o) # {} /\ job.safe THEN Result(All(items, "elided"), FALSE, blocked)
            ELSE Result(o, Residuals(o) # {}, blocked)
    BY DEF HeaderCell
  <1>5. ResultSound(r, items, TRUE) /\ (job.safe /\ Clear(r.out) = items => Recog(items) = {})
    <2> HIDE DEF o, blocked, r
    <2>1. CASE Residuals(o) # {} /\ job.safe
      <3>1. r = [out |-> All(items, "elided"), failed |-> FALSE, blocked |-> blocked]
        BY <1>4, <2>1 DEF Result
      <3>. QED
        BY <1>2, <1>3, <3>1 DEF ResultSound
    <2>2. CASE ~(Residuals(o) # {} /\ job.safe)
      <3>1. r = [out |-> o, failed |-> Residuals(o) # {}, blocked |-> blocked]
        BY <1>4, <2>2 DEF Result
      <3>2. job.safe /\ Clear(r.out) = items => Recog(items) = {}
        BY <1>1, <2>2, <3>1, NothingRecognised
      <3>. QED
        BY <1>0, <1>1, <1>2, <2>2, <3>1, <3>2 DEF ResultSound
    <2>. QED
      BY <2>1, <2>2
  <1>. QED
    BY <1>5 DEF r

LEMMA TextCellFacts ==
    ASSUME JobSound, NEW items \in ItemSets
    PROVE  /\ ResultSound(TextCell(items), items, TRUE)
           /\ job.safe /\ Clear(TextCell(items).out) = items
              => TextCell(items).failed \/ Recog(items) = {}
  <1> DEFINE o == SafeText(items, TRUE)
             blocked == BlockedAmong(Detected(items))
             r == TextCell(items)
  <1>0. (Residuals(o) # {}) \in BOOLEAN
    OBVIOUS
  <1>1. /\ o \in [items -> How] /\ "mail" \notin Clear(o) /\ "addr" \notin Clear(o)
        /\ job.safe => \A i \in Residuals(o) : i = "phone" /\ ActionOn(i) = "block"
    BY SafeTextFacts DEF ItemSets
  <1>2. /\ blocked \subseteq items
        /\ \A i \in Detected(items) : ActionOn(i) = "block" => blocked # {}
    BY BlockedFacts DEF Detected
  <1>3. r = [out |-> o, failed |-> Residuals(o) # {}, blocked |-> blocked]
    BY DEF TextCell, Result
  <1>4. Residuals(o) \subseteq Clear(o) /\ Clear(o) \subseteq items
    BY <1>1, ClearFacts DEF Residuals
  <1>5. ResultSound(r, items, TRUE) /\ (job.safe /\ Clear(r.out) = items => r.failed \/ Recog(items) = {})
    <2> HIDE DEF o, blocked, r
    <2>1. job.safe /\ Residuals(o) # {} => blocked # {}
      BY <1>1, <1>2, <1>4 DEF Detected
    <2>2. Clear(r.out) = items => r.failed \/ Recog(items) = {}
      BY <1>1, <1>3, NothingRecognised
    <2>. QED
      BY <1>0, <1>1, <1>2, <1>3, <2>1, <2>2 DEF ResultSound
  <1>. QED
    BY <1>5 DEF r

LEMMA CsvTextFacts ==
    ASSUME JobSound, NEW items \in ItemSets
    PROVE  /\ ResultSound(CsvText(items), items, FALSE)
           /\ job.safe /\ Clear(CsvText(items).out) = items
              => CsvText(items).failed \/ Recog(items) = {}
  <1> DEFINE p == Process(items)
             o == SweepKnown(p)
             blocked == BlockedAmong(Detected(items))
             r == CsvText(items)
  <1>0. (blocked # {} \/ Residuals(o) # {}) \in BOOLEAN /\ (blocked # {}) \in BOOLEAN
    OBVIOUS
  <1>1. /\ p \in [items -> How] /\ Clear(p) \cap {"mail", "addr"} = {}
    BY ProcessFacts DEF ItemSets
  <1>2. o \in [items -> How] /\ Clear(o) \subseteq Clear(p)
    BY <1>1, SweepFacts
  <1>3. /\ RedactResiduals(o) \in [items -> How] /\ Clear(RedactResiduals(o)) \subseteq Clear(o)
        /\ \A i \in Residuals(RedactResiduals(o)) : i = "phone" /\ ActionOn(i) = "block"
    BY <1>2, RedactFacts
  <1>4. /\ blocked \subseteq items
        /\ \A i \in Detected(items) : ActionOn(i) = "block" => blocked # {}
    BY BlockedFacts DEF Detected
  <1>5. r = IF job.safe THEN Result(RedactResiduals(o), blocked # {}, blocked)
            ELSE Result(o, blocked # {} \/ Residuals(o) # {}, blocked)
    BY DEF CsvText
  <1>6. ResultSound(r, items, FALSE) /\ (job.safe /\ Clear(r.out) = items => r.failed \/ Recog(items) = {})
    <2> HIDE DEF p, o, blocked, r
    <2>1. CASE job.safe
      <3> DEFINE q == RedactResiduals(o)
      <3>1. r = [out |-> q, failed |-> blocked # {}, blocked |-> blocked]
        BY <1>5, <2>1 DEF Result
      <3>2. /\ q \in [items -> How] /\ "mail" \notin Clear(q) /\ "addr" \notin Clear(q)
            /\ \A i \in Residuals(q) : i = "phone" /\ ActionOn(i) = "block"
        BY <1>1, <1>2, <1>3
      <3> HIDE DEF q
      <3>3. Clear(q) = items => blocked # {} \/ Recog(items) = {}
        <4>1. CASE Residuals(q) = {}
          BY <3>2, <4>1, NothingRecognised
        <4>2. CASE Residuals(q) # {}
          <5>1. Residuals(q) \subseteq items
            BY <3>2, ClearFacts DEF Residuals
          <5>. QED
            BY <1>4, <3>2, <4>2, <5>1 DEF Detected
        <4>. QED
          BY <4>1, <4>2
      <3>. QED
        BY <1>0, <1>4, <3>1, <3>2, <3>3 DEF ResultSound
    <2>2. CASE ~job.safe
      <3>1. r = [out |-> o, failed |-> blocked # {} \/ Residuals(o) # {}, blocked |-> blocked]
        BY <1>5, <2>2 DEF Result
      <3>2. "mail" \notin Clear(o)
        BY <1>1, <1>2
      <3>. QED
        BY <1>0, <1>2, <1>4, <2>2, <3>1, <3>2 DEF ResultSound
    <2>. QED
      BY <2>1, <2>2
  <1>. QED
    BY <1>6 DEF r

-------------------------------------------------------------------------------
(* Any cell *)

\* Where a blocked item is left to the verdict.
ToVerdict(n) == job.fmt = "text" \/ (job.fmt # "csv" /\ NameClass[n] = "header")

\* Why safe mode may leave all of a value in clear.
Reason(n, d, items) ==
    \/ d.act = "keep" /\ (job.fmt = "csv" \/ d.by # "")
    \/ NameClass[n] = "safe"
    \/ items = {"public"}
    \/ (ToVerdict(n) \/ d.act = "text") /\ Recog(items) = {}

\* Whatever the decision, the format and the mode: what a cell leaves in clear
\* is reported, or has its reason.
LEMMA CellSound ==
    ASSUME JobSound, NEW n \in Names, NEW d \in Decisions, NEW items \in ItemSets,
           job.fmt = "csv" => d.act # "undecided"
    PROVE  LET r == Transformed(n, d, items) IN
           /\ ResultSound(r, items, ToVerdict(n))
           /\ job.safe /\ Clear(r.out) = items => r.failed \/ Reason(n, d, items)
  <1> DEFINE r == Transformed(n, d, items)
             Good(s) == /\ ResultSound(s, items, ToVerdict(n))
                        /\ job.safe /\ Clear(s.out) = items => s.failed \/ Reason(n, d, items)
  <1>1. ASSUME NEW s, ResultSound(s, items, FALSE) PROVE ResultSound(s, items, ToVerdict(n))
    BY <1>1 DEF ResultSound
  <1>2. Good(Masked(d, items))
    BY <1>1, MaskedFacts DEF Reason
  <1>3. d.act = "keep" /\ (job.fmt = "csv" \/ d.by # "") => Good(KeptReadable(n, items))
    BY <1>1, KeptReadableFacts DEF Reason
  <1>4. Good(UnknownField(n, items))
    BY <1>1, UnknownFieldFacts DEF Reason
  <1>5. d.act = "text" => Good(StructuredText(n, items)) /\ Good(CsvText(items))
    BY <1>1, StructuredTextFacts, CsvTextFacts DEF Reason
  <1>6. job.fmt = "text" => Good(TextCell(items))
    <2> HAVE job.fmt = "text"
    <2>1. ToVerdict(n)
      BY DEF ToVerdict
    <2>2. ResultSound(TextCell(items), items, ToVerdict(n))
      BY <2>1, TextCellFacts DEF ResultSound
    <2>. QED
      BY <2>1, <2>2, TextCellFacts DEF Reason
  <1>7. job.fmt \notin {"text", "csv"} /\ NameClass[n] = "header" => Good(HeaderCell(items))
    <2> HAVE job.fmt \notin {"text", "csv"} /\ NameClass[n] = "header"
    <2>1. ToVerdict(n)
      BY DEF ToVerdict
    <2>2. ResultSound(HeaderCell(items), items, ToVerdict(n))
      BY <2>1, HeaderCellFacts DEF ResultSound
    <2>. QED
      BY <2>1, <2>2, HeaderCellFacts DEF Reason
  <1>8. d.act \in {"drop", "redact"} => Good(Result(All(items, "elided"), FALSE, {}))
    <2>1. /\ All(items, "elided") \in [items -> How] /\ Clear(All(items, "elided")) = {}
          /\ items # {}
      BY AllFacts DEF How
    <2>2. PICK s : s = [out |-> All(items, "elided"), failed |-> FALSE, blocked |-> {}]
      OBVIOUS
    <2>3. s.out = All(items, "elided") /\ s.failed = FALSE /\ s.blocked = {}
      BY <2>2
    <2>4. Good(s)
      BY <2>1, <2>3 DEF ResultSound
    <2>. QED
      BY <2>2, <2>4 DEF Result
  <1>9. d.act \in {"keep", "mask", "redact", "text", "drop", "undecided"}
    BY DEF Decisions, Acts, Actions, OverrideActions, Unset
  <1>10. \/ job.fmt = "text" /\ r = TextCell(items)
         \/ job.fmt = "csv" /\ r = CsvCell(n, d, items)
         \/ job.fmt \notin {"text", "csv"} /\ NameClass[n] = "header" /\ r = HeaderCell(items)
         \/ job.fmt \notin {"text", "csv"} /\ r = StructuredCell(n, d, items)
    BY DEF Transformed
  <1> HIDE DEF Good, r
  <1>11. ASSUME job.fmt = "csv", r = CsvCell(n, d, items)
         PROVE  Good(r)
    BY <1>2, <1>3, <1>5, <1>8, <1>9, <1>11 DEF CsvCell
  <1>12. ASSUME r = StructuredCell(n, d, items)
         PROVE  Good(r)
    BY <1>2, <1>3, <1>4, <1>5, <1>12 DEF StructuredCell
  <1>13. Good(r)
    BY <1>6, <1>7, <1>10, <1>11, <1>12
  <1>. QED
    BY <1>13 DEF Good, r

-------------------------------------------------------------------------------
(* Whatever the vault knows                                                 *)
(*                                                                          *)
(* The vault grows while a document is transformed, and the sweeps read it. *)
(* But for the user name, what a cell leaves in clear is a function of the  *)
(* request, the field, its decision and the items (Lasting).                *)

Rest(o) == Clear(o) \ {"word"}

Residue(c) == {i \in c : i \in {"mail", "odd"} \/ (i = "phone" /\ ActionOn(i) # "keep")}
Redacted(c) == {i \in c : i \in Residue(c) => i = "phone" /\ ActionOn(i) = "block"}

TextRest(items) ==
    IF job.safe THEN Redacted(Rest(Process(items))) ELSE Rest(Process(items))
StructuredTextRest(items) ==
    IF Residue(TextRest(items)) = {} THEN TextRest(items)
    ELSE IF job.safe THEN {} ELSE items \ {"word"}
HeaderRest(items) ==
    IF Residue(TextRest(items)) # {} /\ job.safe THEN {} ELSE TextRest(items)
ReadableRest(n, items) == Rest(ProcessDlpField(n, items))
UnknownRest(n, items) ==
    IF \/ ProcessDlpField(n, items) # All(items, "clear")
       \/ BlockedAmong(DetectedInField(n, items)) # {} \/ NameClass[n] = "safe" \/ ~job.safe
    THEN ReadableRest(n, items) ELSE {}

Lasting(n, d, items) ==
    IF job.fmt = "text" THEN TextRest(items)
    ELSE IF job.fmt = "csv"
         THEN IF d.act \in {"drop", "redact"} THEN {}
              ELSE IF d.act = "mask" THEN Rest(Masked(d, items).out)
              ELSE IF d.act = "text" THEN TextRest(items) ELSE ReadableRest(n, items)
    ELSE IF NameClass[n] = "header" THEN HeaderRest(items)
    ELSE IF d.act = "text" THEN StructuredTextRest(items)
    ELSE IF d.act = "keep" /\ d.by # "" THEN ReadableRest(n, items)
    ELSE IF d.kind # "none" THEN Rest(Masked(d, items).out) ELSE UnknownRest(n, items)

LEMMA RestFacts ==
    ASSUME NEW items, NEW o \in [items -> How]
    PROVE  /\ Rest(SweepKnown(o)) = Rest(o)
           /\ Residuals(o) = Residue(Rest(o))
           /\ Rest(RedactResiduals(o)) = Redacted(Rest(o))
           /\ Residuals(RedactResiduals(o)) = Residue(Redacted(Rest(o)))
  <1>1. Rest(SweepKnown(o)) = Rest(o)
    BY SweepFacts DEF Rest
  <1>2. \A p : Residuals(p) = Residue(Rest(p))
    BY DEF Residuals, Residue, Rest
  <1>3. Rest(RedactResiduals(o)) = Redacted(Rest(o))
    <2>1. Clear(RedactResiduals(o)) =
              {i \in Clear(o) : i \in Residuals(o) => i = "phone" /\ ActionOn(i) = "block"}
      BY RedactFacts
    <2>2. Residuals(o) = Residue(Rest(o))
      BY <1>2
    <2>. QED
      BY <2>1, <2>2 DEF Rest, Redacted
  <1>. QED
    BY <1>1, <1>2, <1>3

LEMMA SafeTextRest ==
    ASSUME JobSound, NEW items \in ItemSets, NEW sweep \in BOOLEAN
    PROVE  /\ Rest(SafeText(items, sweep)) = TextRest(items)
           /\ Residuals(SafeText(items, sweep)) = Residue(TextRest(items))
  <1>1. PICK p : p = Process(items)
    OBVIOUS
  <1>2. PICK s : s = IF sweep THEN SweepKnown(p) ELSE p
    OBVIOUS
  <1>3. p \in [items -> How]
    BY <1>1, ProcessFacts DEF ItemSets
  <1>4. s \in [items -> How] /\ Rest(s) = Rest(p)
    BY <1>2, <1>3, SweepFacts, RestFacts
  <1>5. SafeText(items, sweep) = IF job.safe THEN RedactResiduals(s) ELSE p
    BY <1>1, <1>2 DEF SafeText
  <1>6. TextRest(items) = IF job.safe THEN Redacted(Rest(p)) ELSE Rest(p)
    BY <1>1 DEF TextRest
  <1>7. Residuals(p) = Residue(Rest(p))
    BY <1>3, RestFacts
  <1>8. Rest(RedactResiduals(s)) = Redacted(Rest(s)) /\ Residuals(RedactResiduals(s)) = Residue(Redacted(Rest(s)))
    BY <1>4, RestFacts
  <1>. QED
    BY <1>4, <1>5, <1>6, <1>7, <1>8

LEMMA AllRest ==
    ASSUME NEW items \in ItemSets
    PROVE  Rest(All(items, "elided")) = {} /\ Rest(All(items, "clear")) = items \ {"word"}
  <1>1. Clear(All(items, "elided")) = {} /\ Clear(All(items, "clear")) = items
    BY AllFacts DEF How
  <1>. QED
    BY <1>1 DEF Rest

LEMMA LastingSound ==
    ASSUME JobSound, NEW n \in Names, NEW d \in Decisions, NEW items \in ItemSets
    PROVE  Rest(Transformed(n, d, items).out) = Lasting(n, d, items)
  <1>1. Rest(TextCell(items).out) = TextRest(items)
    <2>1. TextCell(items).out = SafeText(items, TRUE)
      BY DEF TextCell, Result
    <2>. QED
      BY <2>1, SafeTextRest
  <1>2. Rest(HeaderCell(items).out) = HeaderRest(items)
    <2>1. PICK o : o = SafeText(items, TRUE)
      OBVIOUS
    <2>2. HeaderCell(items).out = IF Residuals(o) # {} /\ job.safe THEN All(items, "elided") ELSE o
      BY <2>1 DEF HeaderCell, Result
    <2>3. Rest(o) = TextRest(items) /\ Residuals(o) = Residue(TextRest(items))
      BY <2>1, SafeTextRest
    <2>. QED
      BY <2>2, <2>3, AllRest DEF HeaderRest
  <1>3. Rest(StructuredText(n, items).out) = StructuredTextRest(items)
    <2>1. PICK o : o = SafeText(items, NameClass[n] # "descriptive")
      OBVIOUS
    <2>2. StructuredText(n, items).out =
              IF Residuals(o) = {} THEN o
              ELSE IF job.safe THEN All(items, "elided") ELSE All(items, "clear")
      BY <2>1 DEF StructuredText, Result
    <2>3. (NameClass[n] # "descriptive") \in BOOLEAN
      OBVIOUS
    <2>4. Rest(o) = TextRest(items) /\ Residuals(o) = Residue(TextRest(items))
      BY <2>1, <2>3, SafeTextRest
    <2>. QED
      BY <2>2, <2>4, AllRest DEF StructuredTextRest
  <1>4. Rest(CsvText(items).out) = TextRest(items)
    <2>1. PICK p : p = Process(items)
      OBVIOUS
    <2>2. PICK o : o = SweepKnown(p)
      OBVIOUS
    <2>3. CsvText(items).out = IF job.safe THEN RedactResiduals(o) ELSE o
      BY <2>1, <2>2 DEF CsvText, Result
    <2>4. p \in [items -> How]
      BY <2>1, ProcessFacts DEF ItemSets
    <2>5. o \in [items -> How] /\ Rest(o) = Rest(p)
      BY <2>2, <2>4, SweepFacts, RestFacts
    <2>6. Rest(RedactResiduals(o)) = Redacted(Rest(p))
      BY <2>5, RestFacts
    <2>. QED
      BY <2>1, <2>3, <2>5, <2>6 DEF TextRest
  <1>5. Rest(KeptReadable(n, items).out) = ReadableRest(n, items)
    BY DEF KeptReadable, Result, ReadableRest
  <1>6. Rest(UnknownField(n, items).out) = UnknownRest(n, items)
    <2>1. /\ KeptReadable(n, items).out = ProcessDlpField(n, items)
          /\ KeptReadable(n, items).blocked = BlockedAmong(DetectedInField(n, items))
      BY DEF KeptReadable, Result
    <2>2. UnknownField(n, items).out =
              IF \/ ProcessDlpField(n, items) # All(items, "clear")
                 \/ BlockedAmong(DetectedInField(n, items)) # {} \/ NameClass[n] = "safe" \/ ~job.safe
              THEN ProcessDlpField(n, items) ELSE All(items, "elided")
      BY <2>1 DEF UnknownField, Result
    <2>. QED
      BY <2>2, AllRest DEF UnknownRest, ReadableRest
  <1>7. Rest(Result(All(items, "elided"), FALSE, {}).out) = {}
    BY AllRest DEF Result
  <1>8. Transformed(n, d, items) =
            IF job.fmt = "text" THEN TextCell(items)
            ELSE IF job.fmt = "csv"
                 THEN IF d.act \in {"drop", "redact"} THEN Result(All(items, "elided"), FALSE, {})
                      ELSE IF d.act = "mask" THEN Masked(d, items)
                      ELSE IF d.act = "text" THEN CsvText(items) ELSE KeptReadable(n, items)
            ELSE IF NameClass[n] = "header" THEN HeaderCell(items)
            ELSE IF d.act = "text" THEN StructuredText(n, items)
            ELSE IF d.act = "keep" /\ d.by # "" THEN KeptReadable(n, items)
            ELSE IF d.kind # "none" THEN Masked(d, items) ELSE UnknownField(n, items)
    BY DEF Transformed, CsvCell, StructuredCell
  <1>. QED
    BY <1>1, <1>2, <1>3, <1>4, <1>5, <1>6, <1>7, <1>8 DEF Lasting

LEMMA LastingFixed ==
    ASSUME job' = job, NEW n, NEW d, NEW items
    PROVE  Lasting(n, d, items)' = Lasting(n, d, items)
  <1>1. \A i : ActionOn(i)' = ActionOn(i)
    BY DEF ActionOn
  <1>2. \A i : DlpOutcome(i)' = DlpOutcome(i)
    BY <1>1 DEF DlpOutcome
  <1>3. Process(items)' = Process(items)
    BY <1>2 DEF Process
  <1>4. ProcessDlpField(n, items)' = ProcessDlpField(n, items)
    BY <1>2 DEF ProcessDlpField
  <1>5. \A c : Residue(c)' = Residue(c)
    BY <1>1 DEF Residue
  <1>6. \A c : Redacted(c)' = Redacted(c)
    BY <1>1, <1>5 DEF Redacted
  <1>7. TextRest(items)' = TextRest(items)
    BY <1>3, <1>6 DEF TextRest
  <1>8. StructuredTextRest(items)' = StructuredTextRest(items)
    BY <1>5, <1>7 DEF StructuredTextRest
  <1>9. HeaderRest(items)' = HeaderRest(items)
    BY <1>5, <1>7 DEF HeaderRest
  <1>10. ReadableRest(n, items)' = ReadableRest(n, items)
    BY <1>4 DEF ReadableRest
  <1>11. BlockedAmong(DetectedInField(n, items))' = BlockedAmong(DetectedInField(n, items))
    BY <1>1 DEF BlockedAmong
  <1>12. UnknownRest(n, items)' = UnknownRest(n, items)
    BY <1>4, <1>10, <1>11 DEF UnknownRest
  <1>13. Masked(d, items)' = Masked(d, items)
    BY DEF Masked
  <1>. QED
    BY <1>7, <1>8, <1>9, <1>10, <1>12, <1>13 DEF Lasting

-------------------------------------------------------------------------------
(* Decisions *)

LEMMA SniffedFacts ==
    ASSUME NEW samples
    PROVE  SniffedKind(samples) \in {"email", "ip", "none"}
  <1> DEFINE kinds == {SniffOne(ItemsOf(k)) : k \in samples}
  <1>1. kinds \subseteq {"email", "ip", "none"}
    BY DEF SniffOne
  <1>2. SniffedKind(samples) = IF Cardinality(kinds) = 1 THEN CHOOSE kind \in kinds : TRUE ELSE "none"
    BY DEF SniffedKind
  <1> HIDE DEF kinds
  <1>3. CASE Cardinality(kinds) = 1
    <2>1. kinds # {}
      BY <1>3, FS_EmptySet
    <2>2. (CHOOSE kind \in kinds : TRUE) \in kinds
      BY <2>1
    <2>. QED
      BY <1>1, <1>2, <1>3, <2>2
  <1>. QED
    BY <1>2, <1>3

\* A column of text has a sample that is prose.
LEMMA ProseFound ==
    ASSUME NEW samples, IsFiniteSet(samples), samples # {}, LooksLikeFreeText(samples)
    PROVE  \E k \in samples : Prose(k)
  <1> DEFINE prose == {k \in samples : Prose(k)}
  <1>1. 2 * Cardinality(prose) >= Cardinality(samples)
    BY DEF LooksLikeFreeText
  <1>2. SUFFICES ASSUME prose = {} PROVE FALSE
    OBVIOUS
  <1> HIDE DEF prose
  <1>3. Cardinality(prose) = 0
    BY <1>2, FS_EmptySet
  <1>4. Cardinality(samples) \in Nat /\ Cardinality(samples) # 0
    BY FS_CardinalityType, FS_EmptySet
  <1>. QED
    BY <1>1, <1>3, <1>4

\* Why a decision keeps a field readable, or treats it as text.
KeepReason(n, by, remembered) ==
    \/ by = ""
    \/ by = "safe" /\ NameClass[n] = "safe"
    \/ by \in {"vendor", "config"} /\ <<n, "keep">> \in remembered
TextReason(n, remembered) ==
    \/ NameClass[n] \in {"text", "descriptive"}
    \/ \E k \in Indices : FieldOf(k) = n /\ Prose(k)
    \/ <<n, "text">> \in remembered
Grounded(n, d, remembered) ==
    /\ d.act = "undecided" => d = Undecided
    /\ d.act = "keep" => KeepReason(n, d.by, remembered)
    /\ d.act = "text" => TextReason(n, remembered)

LEMMA ResolveFacts ==
    ASSUME SettingsInv, JobSound, vendor \in BOOLEAN, NEW n \in Names,
           NEW samples, samples \subseteq {k \in Indices : FieldOf(k) = n},
           IsFiniteSet(samples), samples # {}
    PROVE  LET d == ResolveField(n, samples) IN
           /\ d \in Decisions /\ d.act # "undecided"
           /\ Grounded(n, d, Readable(inForce, kits))
  <1> DEFINE kept == Configured("keep_fields", n)
             override == Configured("field_overrides", n)
             rule == KitSays(n)
             readable == Readable(inForce, kits)
             d == ResolveField(n, samples)
             Good(e) == e \in Decisions /\ e.act # "undecided" /\ Grounded(n, e, readable)
  <1>1. kept \in {Unset, "keep"} /\ (kept # Unset => <<n, "keep">> \in readable)
    <2>1. CASE n \in Fields
      <3>1. inForce["keep_fields"] \in Sayable("keep_fields")
        BY DEF SettingsInv, Said, Files
      <3>2. inForce["keep_fields"][n] \in {Unset, "keep"}
        BY <2>1, <3>1 DEF Sayable
      <3>. QED
        BY <2>1, <3>2 DEF Configured, Readable, Files
    <2>2. CASE n \notin Fields
      BY <2>2 DEF Configured
    <2>. QED
      BY <2>1, <2>2
  <1>2. /\ override \in {Unset, "keep", "mask", "redact"}
        /\ override = "keep" => <<n, "keep">> \in readable
    <2>1. CASE n \in Fields
      <3>1. inForce["field_overrides"] \in Sayable("field_overrides")
        BY DEF SettingsInv, Said, Files
      <3>2. inForce["field_overrides"][n] \in {Unset, "keep", "mask", "redact"}
        BY <2>1, <3>1 DEF Sayable, OverrideActions
      <3>. QED
        BY <2>1, <3>2 DEF Configured, Readable, Files
    <2>2. CASE n \notin Fields
      BY <2>2 DEF Configured, Unset
    <2>. QED
      BY <2>1, <2>2
  <1>3. /\ rule \in {Unset, "keep", "mask", "redact", "text", "drop"}
        /\ rule \in {"keep", "text"} => <<n, rule>> \in readable
    <2>1. CASE vendor /\ aliases /\ kits # NoKit /\ n \in Fields
      <3>1. rule = kits[n]
        BY <2>1 DEF KitSays
      <3>2. kits \in Bodies
        BY <2>1 DEF SettingsInv, SettingsTypeOK
      <3>3. kits[n] \in Actions
        BY <2>1, <3>2 DEF Bodies
      <3>. QED
        BY <2>1, <3>1, <3>3 DEF Readable, Actions, OverrideActions
    <2>2. CASE ~(vendor /\ aliases /\ kits # NoKit /\ n \in Fields)
      <3>1. rule = Unset
        BY <2>2 DEF KitSays
      <3>. QED
        BY <3>1 DEF Unset
    <2>. QED
      BY <2>1, <2>2
  <1>4. Unset = "auto"
    BY DEF Unset
  <1>5. d = IF kept # Unset THEN Decision("keep", "none", "config")
            ELSE IF override # Unset THEN Decision(override, KindOf(override), "config")
            ELSE IF rule # Unset THEN Decision(rule, KindOf(rule), "vendor")
            ELSE IF ByName(n) # Undecided THEN ByName(n) ELSE ByValue(samples)
    BY DEF ResolveField
  <1>6. ASSUME NEW act \in {"keep", "mask", "redact", "text", "drop"}, NEW kind \in Kinds,
               NEW by \in {"", "config", "vendor", "generic", "safe", "value", "heuristic"},
               act = "keep" => KeepReason(n, by, readable),
               act = "text" => TextReason(n, readable)
        PROVE  Good(Decision(act, kind, by))
    <2> HIDE DEF readable
    <2>1. Decision(act, kind, by) \in Decisions
      BY DEF Decision, Decisions, Acts, Actions, OverrideActions, Unset
    <2>2. Decision(act, kind, by).act = act /\ Decision(act, kind, by).by = by
      BY DEF Decision
    <2>. QED
      BY <1>6, <2>1, <2>2 DEF Grounded
  <1>7. \A act : KindOf(act) \in Kinds
    BY DEF KindOf, Kinds
  <1>8. "none" \in Kinds /\ "user" \in Kinds /\ "ip" \in Kinds /\ SniffedKind(samples) \in Kinds
    BY SniffedFacts DEF Kinds
  <1>9. LooksLikeFreeText(samples) => TextReason(n, readable)
    BY ProseFound DEF TextReason
  <1>10. ByName(n) # Undecided => Good(ByName(n))
    <2>1. NameClass[n] \in Classes
      BY DocumentsAssumption DEF Names
    <2> HIDE DEF Good, readable
    <2>2. NameClass[n] \in {"text", "descriptive"} => Good(Decision("text", "none", "generic"))
      BY <1>6, <1>8 DEF TextReason
    <2>3. NameClass[n] = "user" => Good(Decision("mask", "user", "generic"))
      BY <1>6, <1>8
    <2>4. NameClass[n] = "ip" => Good(Decision("mask", "ip", "generic"))
      BY <1>6, <1>8
    <2>5. NameClass[n] = "safe" => Good(Decision("keep", "none", "safe"))
      BY <1>6, <1>8 DEF KeepReason
    <2>. QED
      BY <2>2, <2>3, <2>4, <2>5 DEF ByName
  <1>11. Good(ByValue(samples))
    <2> HIDE DEF Good, readable
    <2>1. Good(Decision("mask", SniffedKind(samples), "value"))
      BY <1>6, <1>8
    <2>2. LooksLikeFreeText(samples) => Good(Decision("text", "none", "heuristic"))
      BY <1>6, <1>8, <1>9
    <2>3. Good(Decision("keep", "none", ""))
      BY <1>6, <1>8 DEF KeepReason
    <2>. QED
      BY <2>1, <2>2, <2>3 DEF ByValue
  <1>12. kept # Unset => Good(Decision("keep", "none", "config"))
    <2> HIDE DEF Good, readable, kept
    <2>. QED
      BY <1>1, <1>6, <1>8 DEF KeepReason
  <1>13. override # Unset => Good(Decision(override, KindOf(override), "config"))
    <2> HIDE DEF Good, readable, override
    <2>1. override # Unset => override \in {"keep", "mask", "redact"}
      BY <1>2
    <2>2. override = "keep" => KeepReason(n, "config", readable)
      BY <1>2 DEF KeepReason
    <2>. QED
      BY <1>6, <1>7, <2>1, <2>2
  <1>14. rule # Unset => Good(Decision(rule, KindOf(rule), "vendor"))
    <2> HIDE DEF Good, readable, rule
    <2>1. rule # Unset => rule \in {"keep", "mask", "redact", "text", "drop"}
      BY <1>3
    <2>2. rule = "keep" => KeepReason(n, "vendor", readable)
      BY <1>3 DEF KeepReason
    <2>3. rule = "text" => TextReason(n, readable)
      BY <1>3 DEF TextReason
    <2>. QED
      BY <1>6, <1>7, <2>1, <2>2, <2>3
  <1> HIDE DEF kept, override, rule, readable, d, Good
  <1>15. Good(d)
    BY <1>5, <1>10, <1>11, <1>12, <1>13, <1>14
  <1>. QED
    BY <1>15 DEF Good, d, readable

\* Safe mode leaves no column readable that only its values spoke for.
LEMMA PolicyFacts ==
    ASSUME NEW n, NEW d \in Decisions, NEW remembered, Grounded(n, d, remembered),
           job.safe \in BOOLEAN
    PROVE  LET e == ApplySafePolicy(n, d) IN
           /\ e \in Decisions /\ Grounded(n, e, remembered)
           /\ e.act = "undecided" => d.act = "undecided"
           /\ job.safe /\ e.act = "keep" => NameClass[n] = "safe" \/ e.by \in {"vendor", "config"}
  <1>1. CASE job.safe /\ d.act = "keep" /\ d.by \notin {"vendor", "config"} /\ NameClass[n] # "safe"
    <2>1. ApplySafePolicy(n, d) = [act |-> "redact", kind |-> "none", by |-> "safe"]
      BY <1>1 DEF ApplySafePolicy, Decision
    <2>2. [act |-> "redact", kind |-> "none", by |-> "safe"] \in Decisions
      BY DEF Decisions, Acts, Kinds, Actions, OverrideActions, Unset
    <2>3. ApplySafePolicy(n, d).act = "redact"
      BY <2>1
    <2>. QED
      BY <2>1, <2>2, <2>3 DEF Grounded
  <1>2. CASE ~(job.safe /\ d.act = "keep" /\ d.by \notin {"vendor", "config"} /\ NameClass[n] # "safe")
    <2>1. ApplySafePolicy(n, d) = d
      BY <1>2 DEF ApplySafePolicy
    <2>. QED
      BY <1>2, <2>1
  <1>. QED
    BY <1>1, <1>2

-------------------------------------------------------------------------------
(* The request: the invariant *)

Early == {"arrived", "loading", "detecting"}
Late == {"cells", "verdict", "delivered", "refused"}

Shape ==
    /\ JobSound
    /\ phase \in Early \cup {"policy", "error"} \cup Late
    /\ at \in 1..(Len(job.cells) + 1)
    /\ out \in Seq(Outs)
    /\ Len(out) = IF phase \in {"policy"} \cup Early THEN 0
                  ELSE IF phase = "error" THEN Len(out) ELSE at - 1
    /\ Len(out) <= Len(job.cells)
    /\ phase \in Early => at = 1
    /\ phase \in Late \ {"cells"} => at = Len(job.cells) + 1
    /\ decided \in [Names -> Decisions]
    /\ blocks \subseteq Indices \X Items
    /\ lenient \subseteq Fields \X {"keep", "text"}
    /\ vendor \in BOOLEAN /\ known \in BOOLEAN /\ failed \in BOOLEAN /\ raised \in BOOLEAN

\* The worker has no load and no rebuild in hand when it may drop its work.
WorkerInv == phase \in {"policy"} \cup Late => ~Building(Worker)

\* Nothing is decided early; decisions keep their reasons.
DecisionsInv ==
    /\ phase \in Early => decided = [n \in Names |-> Undecided]
    /\ \A n \in Names : Grounded(n, decided[n], lenient)

\* The columns of a CSV are decided before its first cell.
ColumnsInv ==
    /\ phase = "policy" =>
         job.fmt = "csv" /\ \A k \in Indices : k < at => decided[FieldOf(k)].act # "undecided"
    /\ job.fmt = "csv" /\ phase \in Late =>
         /\ \A k \in Indices : decided[FieldOf(k)].act # "undecided"
         /\ job.safe => \A n \in Names : decided[n].act = "keep" =>
                NameClass[n] = "safe" \/ decided[n].by \in {"vendor", "config"}

\* Each cell put out, by the decision that still stands.
CellInv(k) ==
    LET n == FieldOf(k) items == ItemsOf(k) IN
    /\ out[k] \in [items -> How]
    /\ HasDecision(n) => decided[n] # Undecided
    /\ "mail" \in Clear(out[k]) => failed
    /\ \A i \in Clear(out[k]) \cap Detected(items) :
           ActionOn(i) = "block" => failed \/ (blocks # {} /\ ToVerdict(n))
    /\ job.safe /\ Clear(out[k]) = items => failed \/ Reason(n, decided[n], items)
    /\ Rest(out[k]) = Lasting(n, decided[n], items)
CellsInv == \A k \in 1..Len(out) : CellInv(k)

\* Safe mode fails a cell only for a block.
FailedInv == job.safe /\ failed => blocks # {}

SweptInv ==
    phase \in Late \ {"cells"} /\ IsStructured /\ job.safe /\ known /\ ~raised =>
        \A k \in 1..Len(out) : "word" \notin Clear(out[k])

VerdictInv ==
    /\ phase = "delivered" => ~Blocked
    /\ phase = "refused" => Blocked

IInv ==
    /\ SettingsInv /\ Shape /\ WorkerInv
    /\ DecisionsInv /\ ColumnsInv /\ CellsInv /\ FailedInv /\ SweptInv /\ VerdictInv

-------------------------------------------------------------------------------
(* Steps that leave the document alone *)

\* A thread's step leaves the others where they are.
LEMMA OthersStay ==
    ASSUME SettingsInv, NEW t \in Threads, ThreadStep(t), NEW u \in Threads \ {t}
    PROVE  op'[u] = op[u]
  <1>1. op \in [Threads -> Op]
    BY DEF SettingsInv, SettingsTypeOK, Op
  <1>2. (\E r : op' = [op EXCEPT ![t] = r]) \/ op' = op
    BY <1>1 DEF ThreadStep, Load, LoadStat, LoadRead, LoadStore, LoadReturn, Loaded, Goto, Begin,
           Save, SaveTruncate, SaveWrite, SaveReset, Reload, KitStat, BuildRegistry,
           StoreKits, StoreAliases, GetOverrides, ListKits, PostOverride, PutKit,
           PutKitWrite, DeleteKit, ReloadDone
  <1>. QED
    BY <1>1, <1>2

\* What was lenient stays so, once the configuration is loaded.
Recalls ==
    /\ lenient' \subseteq Fields \X {"keep", "text"}
    /\ phase' \notin {"arrived", "loading"} => lenient \subseteq lenient'

LEMMA RememberFacts ==
    ASSUME Remember, lenient \subseteq Fields \X {"keep", "text"}
    PROVE  /\ Recalls
           /\ phase' \notin {"arrived", "loading"} => Readable(inForce', kits') \subseteq lenient'
  BY DEF Remember, Readable, Recalls

\* A cell keeps what is true of it when no more of it comes out in clear.
LEMMA CellKeeps ==
    ASSUME JobSound, job' = job, NEW k \in Indices, CellInv(k),
           out'[k] \in [ItemsOf(k) -> How], Clear(out'[k]) \subseteq Clear(out[k]),
           Rest(out'[k]) = Rest(out[k]),
           decided'[FieldOf(k)] = decided[FieldOf(k)],
           failed => failed', blocks # {} => blocks' # {}
    PROVE  CellInv(k)'
  <1>1. PICK n : n = FieldOf(k)
    OBVIOUS
  <1>2. PICK items : items = ItemsOf(k)
    OBVIOUS
  <1>3. PICK d : d = decided[n]
    OBVIOUS
  <1>4. PICK o : o = out'[k]
    OBVIOUS
  <1>5. FieldOf(k)' = n /\ ItemsOf(k)' = items /\ decided'[n] = d
    BY <1>1, <1>2, <1>3 DEF FieldOf, ItemsOf
  <1>6. /\ HasDecision(n)' = HasDecision(n) /\ ToVerdict(n)' = ToVerdict(n)
        /\ Reason(n, d, items)' = Reason(n, d, items)
        /\ \A i : ActionOn(i)' = ActionOn(i)
    BY DEF HasDecision, IsStructured, ToVerdict, Reason, Recog, ActionOn
  <1>7. Lasting(n, d, items)' = Lasting(n, d, items)
    BY LastingFixed
  <1>8. Clear(o) \subseteq items
    BY <1>2, <1>4, ClearFacts
  <1>9. /\ HasDecision(n) => d # Undecided
        /\ "mail" \in Clear(out[k]) => failed
        /\ \A i \in Clear(out[k]) \cap Detected(items) :
               ActionOn(i) = "block" => failed \/ (blocks # {} /\ ToVerdict(n))
        /\ job.safe /\ Clear(out[k]) = items => failed \/ Reason(n, d, items)
        /\ Rest(out[k]) = Lasting(n, d, items)
        /\ out[k] \in [items -> How]
    BY <1>1, <1>2, <1>3 DEF CellInv
  <1>10. Clear(out[k]) \subseteq items
    BY <1>9, ClearFacts
  <1>11. /\ o \in [items -> How]
         /\ HasDecision(n)' => d # Undecided
         /\ "mail" \in Clear(o) => failed'
         /\ \A i \in Clear(o) \cap Detected(items) :
                ActionOn(i)' = "block" => failed' \/ (blocks' # {} /\ ToVerdict(n)')
         /\ job'.safe /\ Clear(o) = items => failed' \/ Reason(n, d, items)'
         /\ Rest(o) = Lasting(n, d, items)'
    BY <1>2, <1>4, <1>6, <1>7, <1>8, <1>9, <1>10
  <1>. QED
    BY <1>4, <1>5, <1>11 DEF CellInv

\* A decision keeps its reason.
LEMMA GroundedKeeps ==
    ASSUME job' = job, NEW n, NEW d, NEW r, Grounded(n, d, r), r \subseteq lenient'
    PROVE  Grounded(n, d, lenient)'
  <1>1. Indices' = Indices /\ \A k : FieldOf(k)' = FieldOf(k) /\ Prose(k)' = Prose(k)
    BY DEF Indices, FieldOf, Prose, ItemsOf
  <1>. QED
    BY <1>1 DEF Grounded, KeepReason, TextReason

LEMMA UndecidedFacts ==
    /\ Undecided \in Decisions /\ Undecided.act = "undecided" /\ Undecided.kind = "none"
    /\ \A n, r : Grounded(n, Undecided, r)
  <1>1. Undecided \in Decisions
    BY DEF Undecided, Decision, Decisions, Acts, Kinds
  <1>2. Undecided.act = "undecided" /\ Undecided.kind = "none"
    BY DEF Undecided, Decision
  <1>. QED
    BY <1>1, <1>2 DEF Grounded

LEMMA DecisionsStay ==
    ASSUME IInv, UNCHANGED <<job, decided>>, Recalls, phase' \in Early => phase \in Early
    PROVE  DecisionsInv'
  <1>1. ASSUME NEW n \in Names PROVE Grounded(n, decided[n], lenient)'
    <2>1. PICK d : d = decided[n]
      OBVIOUS
    <2>2. CASE phase' \in Early
      <3>1. d = Undecided
        BY <2>1, <2>2 DEF IInv, DecisionsInv
      <3>2. Grounded(n, d, {}) /\ {} \subseteq lenient'
        BY <3>1, UndecidedFacts
      <3>3. Grounded(n, d, lenient)'
        BY <3>2, GroundedKeeps
      <3>. QED
        BY <2>1, <3>3
    <2>3. CASE phase' \notin Early
      <3>1. lenient \subseteq lenient'
        BY <2>3 DEF Recalls, Early
      <3>2. PICK r : r = lenient
        OBVIOUS
      <3>3. Grounded(n, d, r) /\ r \subseteq lenient'
        BY <2>1, <3>1, <3>2 DEF IInv, DecisionsInv
      <3>4. Grounded(n, d, lenient)'
        BY <3>3, GroundedKeeps
      <3>. QED
        BY <2>1, <3>4
    <2>. QED
      BY <2>2, <2>3
  <1>. QED
    BY <1>1 DEF IInv, DecisionsInv

LEMMA CellsStay ==
    ASSUME IInv, UNCHANGED <<job, decided, out, failed, blocks>>
    PROVE  CellsInv'
  <1> SUFFICES ASSUME NEW k \in 1..Len(out) PROVE CellInv(k)'
    BY DEF CellsInv
  <1>1. k \in Indices /\ CellInv(k) /\ out[k] \in [ItemsOf(k) -> How] /\ JobSound
    BY JobFacts, LenProperties DEF IInv, Shape, CellsInv, CellInv, Indices
  <1>. QED
    BY <1>1, CellKeeps

\* The document's part of the invariant, under a step that leaves it alone.
LEMMA QuietKeeps ==
    ASSUME IInv, UNCHANGED dvars, Recalls, SettingsInv', WorkerInv'
    PROVE  IInv'
  <1>1. UNCHANGED <<job, phase, at, vendor, decided, out, known, failed, blocks, raised>>
    BY DEF dvars
  <1>2. Shape'
    <2>1. lenient' \subseteq Fields \X {"keep", "text"}
      BY DEF Recalls
    <2>2. JobSound' /\ Indices' = Indices
      BY <1>1 DEF IInv, Shape, JobSound, Indices
    <2>. QED
      BY <1>1, <2>1, <2>2 DEF IInv, Shape
  <1>3. DecisionsInv'
    BY <1>1, DecisionsStay
  <1>4. ColumnsInv' /\ FailedInv' /\ VerdictInv'
    BY <1>1 DEF IInv, ColumnsInv, Indices, FieldOf, FailedInv, VerdictInv, Blocked,
       Exposed, ExposedColumn
  <1>5. CellsInv'
    BY <1>1, CellsStay
  <1>6. SweptInv'
    BY <1>1 DEF IInv, SweptInv, IsStructured, Clear
  <1>. QED
    BY <1>2, <1>3, <1>4, <1>5, <1>6 DEF IInv

-------------------------------------------------------------------------------
(* The steps *)

LEMMA InitKeeps ==
    ASSUME DocumentsInit
    PROVE  IInv
  <1>1. /\ job \in Jobs /\ phase = "arrived" /\ at = 1 /\ vendor = FALSE
        /\ decided = [n \in Names |-> Undecided] /\ out = <<>> /\ known = job.known
        /\ failed = FALSE /\ blocks = {} /\ raised = FALSE /\ lenient = {}
    BY DEF DocumentsInit
  <1>2. job \in Requests
    BY <1>1, DocumentsAssumption
  <1>3. SettingsInv
    <2>1. PICK s \in SetupsFor(job) : SettingsInit(s.bodies, s.kit)
      BY DEF DocumentsInit
    <2>2. /\ \A f \in Files : s.bodies[f] \in Sayable(f)
          /\ s.kit \in Bodies \cup {NoKit}
      BY <1>1, DocumentsAssumption
    <2>. QED
      BY <2>1, <2>2, SettingsInitKeeps
  <1>4. Shape
    <2>1. Len(job.cells) \in Nat /\ job.known \in BOOLEAN
      BY <1>2, JobFacts DEF JobSound, Requests
    <2>2. out \in Seq(Outs) /\ Len(out) = 0
      BY <1>1, EmptySeq
    <2>3. decided \in [Names -> Decisions]
      BY <1>1, UndecidedFacts
    <2>4. 1 \in 1..(Len(job.cells) + 1) /\ 0 <= Len(job.cells)
      BY <2>1
    <2>5. phase \in Early /\ phase \notin Late /\ phase # "policy"
      BY <1>1 DEF Early, Late
    <2>6. vendor \in BOOLEAN /\ known \in BOOLEAN /\ failed \in BOOLEAN /\ raised \in BOOLEAN
      BY <1>1, <2>1
    <2>7. blocks \subseteq Indices \X Items /\ lenient \subseteq Fields \X {"keep", "text"}
      BY <1>1
    <2>. QED
      BY <1>1, <1>2, <2>2, <2>3, <2>4, <2>5, <2>6, <2>7 DEF Shape, JobSound
  <1>5. WorkerInv /\ ColumnsInv /\ FailedInv /\ SweptInv /\ VerdictInv
    BY <1>1 DEF WorkerInv, ColumnsInv, FailedInv, SweptInv, VerdictInv, Late
  <1>6. DecisionsInv
    BY <1>1, UndecidedFacts DEF DecisionsInv, Grounded
  <1>7. CellsInv
    BY <1>1, EmptySeq DEF CellsInv
  <1>. QED
    BY <1>3, <1>4, <1>5, <1>6, <1>7 DEF IInv

\* Before the first cell: only the phase, the kit and the worker change.
LEMMA EarlyKeeps ==
    ASSUME IInv, phase \in Early, SettingsInv', WorkerInv', Recalls,
           UNCHANGED <<job, at, decided, out, known, failed, blocks, raised>>,
           vendor' \in BOOLEAN, phase' \in Early \cup {"policy", "cells"},
           phase' = "policy" => job.fmt = "csv",
           phase' = "cells" => job.fmt # "csv"
    PROVE  IInv'
  <1>1. /\ job' = job /\ at' = at /\ at = 1 /\ decided' = decided /\ out' = out /\ Len(out) = 0
        /\ decided = [n \in Names |-> Undecided] /\ failed' = failed /\ blocks' = blocks
    BY DEF IInv, Shape, DecisionsInv
  <1>2. Shape'
    <2>1. lenient' \subseteq Fields \X {"keep", "text"}
      BY DEF Recalls
    <2>2. JobSound' /\ Indices' = Indices
      BY DEF IInv, Shape, JobSound, Indices
    <2>. QED
      BY <1>1, <2>1, <2>2 DEF IInv, Shape, Early, Late
  <1>3. DecisionsInv'
    BY DecisionsStay
  <1>4. ColumnsInv'
    BY <1>1, JobFacts DEF IInv, Shape, ColumnsInv, Indices, Late, Early
  <1>5. FailedInv' /\ SweptInv' /\ VerdictInv'
    BY <1>1 DEF IInv, FailedInv, SweptInv, VerdictInv, Late, Early
  <1>6. CellsInv'
    BY <1>1 DEF CellsInv
  <1>. QED
    BY <1>2, <1>3, <1>4, <1>5, <1>6 DEF IInv

\* The worker's steps in the settings, and its readiness.
LEMMA ArriveKeeps ==
    ASSUME IInv, Arrive
    PROVE  IInv'
  <1>1. /\ phase = "arrived" /\ phase' = "loading" /\ Remember
        /\ Begin(Worker, "request", "stat", "keep_fields")
           \/ Begin(Worker, "request", "loaded", "keep_fields")
        /\ UNCHANGED <<files, registry, cache, inForce>>
        /\ UNCHANGED <<job, at, vendor, decided, out, known, failed, blocks, raised>>
    BY DEF Arrive
  <1>2. Worker \in Threads /\ SettingsInv /\ edits \in 0..MaxEdits
    BY DEF Threads, IInv, SettingsInv, SettingsTypeOK
  <1>3. OpSound /\ NoStore /\ NoBuild
    BY <1>1, <1>2, Begins DEF Files
  <1>4. SettingsInv'
    BY <1>1, <1>2, <1>3, OnlyMoves DEF files
  <1>5. WorkerInv'
    BY <1>1 DEF WorkerInv, Late
  <1>. QED
    BY <1>1, <1>4, <1>5, RememberFacts, EarlyKeeps DEF Early, IInv, Shape

LEMMA WorkerKeeps ==
    ASSUME IInv, LoadConfiguration \/ ReloadKits
    PROVE  IInv'
  <1>1. /\ phase \in Early /\ UNCHANGED dvars /\ Remember
        /\ Load(Worker) \/ Reload(Worker)
    BY DEF LoadConfiguration, ReloadKits, Early
  <1>2. SettingsInv'
    BY <1>1, ThreadKeeps DEF IInv, ThreadStep, Threads
  <1>3. WorkerInv'
    BY <1>1 DEF WorkerInv, dvars, Early, Late
  <1>. QED
    BY <1>1, <1>2, <1>3, RememberFacts, QuietKeeps DEF IInv, Shape

LEMMA StartDetectionKeeps ==
    ASSUME IInv, StartDetection
    PROVE  IInv'
  <1>1. /\ phase = "loading" /\ op[Worker].pc = "loaded" /\ Remember
        /\ UNCHANGED <<files, registry, cache, inForce>>
        /\ UNCHANGED <<job, at, vendor, decided, out, known, failed, blocks, raised>>
        /\ \/ job.fmt = "text" /\ phase' = "cells" /\ UNCHANGED op
           \/ job.fmt # "text" /\ phase' = "detecting" /\ Goto(Worker, "kit_stat")
    BY DEF StartDetection, At
  <1>2. Worker \in Threads /\ SettingsInv /\ edits \in 0..MaxEdits
    BY DEF Threads, IInv, SettingsInv, SettingsTypeOK
  <1>3. OpSound /\ NoStore /\ NoBuild
    <2>1. CASE UNCHANGED op
      BY <1>2, <2>1, OpSame
    <2>2. CASE Goto(Worker, "kit_stat")
      BY <1>1, <1>2, <2>2, Moves DEF BuilderSteps
    <2>. QED
      BY <1>1, <2>1, <2>2
  <1>4. SettingsInv'
    BY <1>1, <1>2, <1>3, OnlyMoves DEF files
  <1>5. WorkerInv'
    <2>1. phase' = "cells" => op'[Worker].pc = "loaded"
      BY <1>1
    <2>. QED
      BY <1>1, <2>1 DEF WorkerInv, Late, Building, BuilderSteps
  <1>6. vendor' \in BOOLEAN
    BY <1>1 DEF IInv, Shape
  <1>. QED
    BY <1>1, <1>4, <1>5, <1>6, RememberFacts, EarlyKeeps DEF Early, IInv, Shape

\* Steps that leave the configuration alone.
LEMMA SettingsStay ==
    ASSUME SettingsInv, UNCHANGED svars
    PROVE  SettingsInv'
  <1>1. OpSound /\ NoStore /\ NoBuild
    BY OpSame DEF svars
  <1>2. edits' \in 0..MaxEdits
    BY DEF SettingsInv, SettingsTypeOK, svars, files
  <1>. QED
    BY <1>1, <1>2, OnlyMoves DEF svars, files

LEMMA DetectKeeps ==
    ASSUME IInv, DetectVendorKit
    PROVE  IInv'
  <1>1. /\ phase = "detecting" /\ op[Worker].pc = "kits_ready" /\ Remember
        /\ vendor' = (kits # NoKit /\ \E k \in Indices : FieldOf(k) \in Fingerprint)
        /\ phase' = IF job.fmt = "csv" THEN "policy" ELSE "cells"
        /\ UNCHANGED svars
        /\ UNCHANGED <<job, at, decided, out, known, failed, blocks, raised>>
    BY DEF DetectVendorKit, At
  <1>2. SettingsInv'
    BY <1>1, SettingsStay DEF IInv
  <1>3. WorkerInv'
    <2>1. op' = op
      BY <1>1 DEF svars
    <2>. QED
      BY <1>1, <2>1 DEF WorkerInv, Late, Building, BuilderSteps
  <1>4. vendor' \in BOOLEAN
    BY <1>1
  <1>. QED
    BY <1>1, <1>2, <1>3, <1>4, RememberFacts, EarlyKeeps DEF Early, IInv, Shape

LEMMA DefaultPolicyKeeps ==
    ASSUME IInv, DefaultPolicy
    PROVE  IInv'
  <1> DEFINE n == Cell.field
             samples == {k \in Indices : FieldOf(k) = n}
             d == IF decided[n] # Undecided THEN decided[n] ELSE ResolveField(n, samples)
  <1>1. /\ phase = "policy" /\ phase' = "policy" /\ at \in Indices /\ at' = at + 1 /\ Remember
        /\ decided' = [decided EXCEPT ![n] = d]
        /\ UNCHANGED svars /\ UNCHANGED <<job, vendor, out, known, failed, blocks, raised>>
    BY DEF DefaultPolicy
  <1>2. /\ JobSound /\ SettingsInv /\ vendor \in BOOLEAN /\ decided \in [Names -> Decisions]
        /\ job.fmt = "csv" /\ n = FieldOf(at) /\ n \in Names /\ Len(job.cells) \in Nat
        /\ out \in Seq(Outs) /\ Len(out) = 0
    BY <1>1, JobFacts DEF IInv, Shape, ColumnsInv, Cell, FieldOf
  <1>3. samples # {} /\ IsFiniteSet(samples)
    <2>1. IsFiniteSet(Indices)
      BY <1>2, FS_Interval DEF Indices
    <2>. QED
      BY <1>1, <1>2, <2>1, FS_Subset
  <1>4. PICK e : e = d
    OBVIOUS
  <1>5. PICK r : r = IF decided[n] # Undecided THEN lenient ELSE Readable(inForce, kits)
    OBVIOUS
  <1>6. e \in Decisions /\ Grounded(n, e, r) /\ e.act # "undecided"
    <2>1. CASE decided[n] # Undecided
      BY <1>2, <1>4, <1>5, <2>1 DEF IInv, DecisionsInv, Grounded
    <2>2. CASE decided[n] = Undecided
      <3>1. PICK ss : ss = samples
        OBVIOUS
      <3>2. e = ResolveField(n, ss)
        BY <1>4, <2>2, <3>1
      <3>3. ss \subseteq {k \in Indices : FieldOf(k) = n} /\ IsFiniteSet(ss) /\ ss # {}
        BY <1>3, <3>1
      <3> HIDE DEF n, samples, d
      <3>4. /\ ResolveField(n, ss) \in Decisions /\ ResolveField(n, ss).act # "undecided"
            /\ Grounded(n, ResolveField(n, ss), Readable(inForce, kits))
        BY <1>2, <3>3, ResolveFacts
      <3>. QED
        BY <1>5, <2>2, <3>2, <3>4
    <2>. QED
      BY <2>1, <2>2
  <1>7. PICK m : m = n
    OBVIOUS
  <1>8. /\ decided' = [decided EXCEPT ![m] = e] /\ m \in Names /\ m = FieldOf(at)
        /\ decided[m] # Undecided => e = decided[m]
    BY <1>1, <1>2, <1>4, <1>7
  <1>9. Grounded(m, e, r)
    BY <1>6, <1>7
  <1>10. r \subseteq lenient' /\ lenient \subseteq lenient' /\ lenient' \subseteq Fields \X {"keep", "text"}
    <2>1. inForce' = inForce /\ kits' = kits
      BY <1>1 DEF svars, registry
    <2>2. Readable(inForce', kits') = Readable(inForce, kits)
      BY <2>1
    <2>3. lenient \subseteq Fields \X {"keep", "text"} /\ phase' \notin {"arrived", "loading"}
      BY <1>1 DEF IInv, Shape
    <2>. QED
      BY <1>1, <1>5, <2>2, <2>3, RememberFacts DEF Recalls
  <1> HIDE DEF n, samples, d
  <1>11. job' = job /\ Indices' = Indices /\ \A k : FieldOf(k)' = FieldOf(k)
    BY <1>1 DEF Indices, FieldOf
  <1>12. DecisionsInv'
    <2>1. phase' \notin Early
      BY <1>1 DEF Early
    <2>2. ASSUME NEW l \in Names PROVE Grounded(l, decided[l], lenient)'
      <3>1. PICK c : c = decided'[l]
        OBVIOUS
      <3>2. CASE l = m
        <4>1. c = e
          BY <1>2, <1>8, <3>1, <3>2
        <4>2. Grounded(l, c, lenient)'
          BY <1>9, <1>10, <1>11, <3>2, <4>1, GroundedKeeps
        <4>. QED
          BY <3>1, <4>2
      <3>3. CASE l # m
        <4>1. c = decided[l]
          BY <1>2, <1>8, <3>1, <3>3
        <4>2. PICK s : s = lenient
          OBVIOUS
        <4>3. Grounded(l, c, s) /\ s \subseteq lenient'
          BY <1>10, <4>1, <4>2 DEF IInv, DecisionsInv
        <4>4. Grounded(l, c, lenient)'
          BY <1>11, <4>3, GroundedKeeps
        <4>. QED
          BY <3>1, <4>4
      <3>. QED
        BY <3>2, <3>3
    <2>. QED
      BY <2>1, <2>2 DEF DecisionsInv
  <1>13. Shape'
    <2>1. decided' \in [Names -> Decisions]
      BY <1>2, <1>6, <1>8
    <2>2. at' \in 1..(Len(job'.cells) + 1)
      BY <1>1, <1>2, <1>11 DEF Indices
    <2>3. JobSound'
      BY <1>2, <1>11 DEF JobSound
    <2>. QED
      BY <1>1, <1>10, <1>11, <2>1, <2>2, <2>3 DEF IInv, Shape, Early, Late
  <1>14. ColumnsInv'
    <2>1. ASSUME NEW k \in Indices, k < at + 1 PROVE decided'[FieldOf(k)].act # "undecided"
      <3>1. FieldOf(k) \in Names /\ k \in Nat /\ at \in Nat
        BY <1>1, <1>2, JobFacts DEF Indices
      <3>2. k = at \/ k < at
        BY <2>1, <3>1
      <3>3. k < at => decided[FieldOf(k)].act # "undecided"
        BY <1>1 DEF IInv, ColumnsInv
      <3>. QED
        BY <1>2, <1>6, <1>8, <3>1, <3>2, <3>3
    <2>. QED
      BY <1>1, <1>2, <1>11, <2>1 DEF ColumnsInv, Late
  <1>15. WorkerInv' /\ SettingsInv'
    <2>1. op' = op
      BY <1>1 DEF svars
    <2>. QED
      BY <1>1, <1>2, <2>1, SettingsStay DEF IInv, WorkerInv, Building, Late
  <1>16. CellsInv'
    BY <1>1, <1>2 DEF CellsInv
  <1>17. FailedInv' /\ SweptInv' /\ VerdictInv'
    BY <1>1 DEF IInv, FailedInv, SweptInv, VerdictInv, Late
  <1>. QED
    BY <1>12, <1>13, <1>14, <1>15, <1>16, <1>17 DEF IInv

LEMMA PolicyDoneKeeps ==
    ASSUME IInv, PolicyDone
    PROVE  IInv'
  <1>1. /\ phase = "policy" /\ phase' = "cells" /\ at \notin Indices /\ at' = 1 /\ Remember
        /\ decided' = [n \in Names |-> ApplySafePolicy(n, decided[n])]
        /\ UNCHANGED svars /\ UNCHANGED <<job, vendor, out, known, failed, blocks, raised>>
    BY DEF PolicyDone
  <1>2. /\ JobSound /\ SettingsInv /\ decided \in [Names -> Decisions] /\ job.safe \in BOOLEAN
        /\ job.fmt = "csv" /\ Len(job.cells) \in Nat /\ Len(out) = 0 /\ out \in Seq(Outs)
        /\ at \in 1..(Len(job.cells) + 1)
    BY <1>1, JobFacts DEF IInv, Shape, ColumnsInv
  <1>3. at = Len(job.cells) + 1
    BY <1>1, <1>2 DEF Indices
  <1>4. job' = job /\ Indices' = Indices /\ \A k : FieldOf(k)' = FieldOf(k)
    BY <1>1 DEF Indices, FieldOf
  <1>5. lenient \subseteq lenient' /\ lenient' \subseteq Fields \X {"keep", "text"}
    BY <1>1, RememberFacts DEF IInv, Shape, Recalls
  <1>6. PICK r : r = lenient
    OBVIOUS
  <1>7. ASSUME NEW n \in Names
        PROVE  /\ decided'[n] \in Decisions /\ Grounded(n, decided'[n], r)
               /\ decided'[n].act = "undecided" => decided[n].act = "undecided"
               /\ job.safe /\ decided'[n].act = "keep" =>
                      NameClass[n] = "safe" \/ decided'[n].by \in {"vendor", "config"}
    <2>1. PICK d : d = decided[n]
      OBVIOUS
    <2>2. d \in Decisions /\ Grounded(n, d, r)
      BY <1>2, <1>6, <2>1 DEF IInv, DecisionsInv
    <2>3. decided'[n] = ApplySafePolicy(n, d)
      BY <1>1, <2>1
    <2>. QED
      BY <1>2, <2>1, <2>2, <2>3, PolicyFacts
  <1>8. DecisionsInv'
    <2>1. phase' \notin Early
      BY <1>1 DEF Early
    <2>2. ASSUME NEW n \in Names PROVE Grounded(n, decided[n], lenient)'
      <3>1. PICK d : d = decided'[n]
        OBVIOUS
      <3>2. Grounded(n, d, r) /\ r \subseteq lenient'
        BY <1>5, <1>6, <1>7, <3>1
      <3>3. Grounded(n, d, lenient)'
        BY <1>4, <3>2, GroundedKeeps
      <3>. QED
        BY <3>1, <3>3
    <2>. QED
      BY <2>1, <2>2 DEF DecisionsInv
  <1>9. ColumnsInv'
    <2>1. ASSUME NEW k \in Indices PROVE decided'[FieldOf(k)].act # "undecided"
      <3>1. FieldOf(k) \in Names /\ k < at
        BY <1>2, <1>3, JobFacts DEF Indices
      <3>. QED
        BY <1>1, <1>7, <3>1 DEF IInv, ColumnsInv
    <2>. QED
      BY <1>1, <1>4, <1>7, <2>1 DEF ColumnsInv
  <1>10. Shape'
    <2>1. decided' \in [Names -> Decisions]
      BY <1>1, <1>7
    <2>2. at' \in 1..(Len(job'.cells) + 1)
      BY <1>1, <1>2, <1>4
    <2>3. JobSound'
      BY <1>2, <1>4 DEF JobSound
    <2>. QED
      BY <1>1, <1>4, <1>5, <2>1, <2>2, <2>3 DEF IInv, Shape, Early, Late
  <1>11. WorkerInv' /\ SettingsInv'
    <2>1. op' = op
      BY <1>1 DEF svars
    <2>. QED
      BY <1>1, <1>2, <2>1, SettingsStay DEF IInv, WorkerInv, Building, Late
  <1>12. CellsInv'
    BY <1>1, <1>2 DEF CellsInv
  <1>13. FailedInv' /\ SweptInv' /\ VerdictInv'
    BY <1>1 DEF IInv, FailedInv, SweptInv, VerdictInv, Late
  <1>. QED
    BY <1>8, <1>9, <1>10, <1>11, <1>12, <1>13 DEF IInv

\* The next cell: the cells before it keep their decisions, and the new one has
\* what CellSound says of it.
LEMMA TransformKeeps ==
    ASSUME IInv, Transform
    PROVE  IInv'
  <1> DEFINE cn == Cell.field
             cd == IF HasDecision(cn) THEN DecisionFor(cn) ELSE decided[cn]
             cr == Transformed(cn, cd, Cell.items)
  <1>1. /\ phase = "cells" /\ phase' = "cells" /\ at \in Indices /\ at' = at + 1 /\ Remember
        /\ decided' = [decided EXCEPT ![cn] = cd]
        /\ out' = Append(out, cr.out)
        /\ failed' = (failed \/ cr.failed)
        /\ blocks' = blocks \cup {<<at, i>> : i \in cr.blocked}
        /\ known' = (known \/ (cd.act = "mask" /\ cd.kind = "user" /\ Cell.items = {"word"}))
        /\ UNCHANGED svars /\ UNCHANGED <<job, phase, vendor, raised>>
    BY DEF Transform
  <1>2. PICK n : n = cn
    OBVIOUS
  <1>3. PICK items : items = Cell.items
    OBVIOUS
  <1>4. PICK d : d = cd
    OBVIOUS
  <1>5. PICK r : r = Transformed(n, d, items)
    OBVIOUS
  <1>6. PICK a : a = at
    OBVIOUS
  <1>7. /\ decided' = [decided EXCEPT ![n] = d]
        /\ out' = Append(out, r.out)
        /\ failed' = (failed \/ r.failed)
        /\ blocks' = blocks \cup {<<a, i>> : i \in r.blocked}
        /\ known' \in BOOLEAN
    <2>1. cr = r
      BY <1>2, <1>3, <1>4, <1>5
    <2>2. known \in BOOLEAN
      BY DEF IInv, Shape
    <2>. QED
      BY <1>1, <1>2, <1>4, <1>6, <2>1, <2>2
  <1>8. d = IF HasDecision(n) THEN DecisionFor(n) ELSE decided[n]
    BY <1>2, <1>4
  <1> HIDE DEF cn, cd, cr
  <1>9. /\ JobSound /\ SettingsInv /\ vendor \in BOOLEAN /\ decided \in [Names -> Decisions]
        /\ n = FieldOf(a) /\ items = ItemsOf(a) /\ n \in Names /\ items \in ItemSets
        /\ a \in Indices /\ Len(job.cells) \in Nat
        /\ out \in Seq(Outs) /\ Len(out) = a - 1
    BY <1>1, <1>2, <1>3, <1>6, JobFacts DEF IInv, Shape, Cell, FieldOf, ItemsOf, Early, cn
  <1>10. PICK g : g = IF HasDecision(n) /\ decided[n] = Undecided THEN Readable(inForce, kits) ELSE lenient
    OBVIOUS
  <1>11. d \in Decisions /\ Grounded(n, d, g) /\ (HasDecision(n) => d # Undecided)
         /\ ((HasDecision(n) /\ decided[n] = Undecided) \/ d = decided[n])
    <2>1. CASE HasDecision(n) /\ decided[n] = Undecided
      <3>1. d = ResolveField(n, {a})
        BY <1>6, <1>8, <2>1 DEF DecisionFor
      <3>2. {a} \subseteq {k \in Indices : FieldOf(k) = n} /\ IsFiniteSet({a}) /\ {a} # {}
        BY <1>9, FS_Singleton
      <3>3. /\ ResolveField(n, {a}) \in Decisions /\ ResolveField(n, {a}).act # "undecided"
            /\ Grounded(n, ResolveField(n, {a}), Readable(inForce, kits))
        BY <1>9, <3>2, ResolveFacts
      <3>. QED
        BY <1>10, <2>1, <3>1, <3>3, UndecidedFacts
    <2>2. CASE ~(HasDecision(n) /\ decided[n] = Undecided)
      <3>1. d = decided[n]
        BY <1>8, <2>2 DEF DecisionFor
      <3>. QED
        BY <1>9, <1>10, <2>2, <3>1 DEF IInv, DecisionsInv
    <2>. QED
      BY <2>1, <2>2
  <1>12. job.fmt = "csv" => d = decided[n] /\ d.act # "undecided"
    <2>1. job.fmt = "csv" => ~HasDecision(n)
      BY DEF HasDecision, IsStructured, Structured
    <2>. QED
      BY <1>1, <1>9, <1>11, <2>1 DEF IInv, ColumnsInv, Late
  <1>13. /\ ResultSound(r, items, ToVerdict(n))
         /\ job.safe /\ Clear(r.out) = items => r.failed \/ Reason(n, d, items)
    BY <1>5, <1>9, <1>11, <1>12, CellSound
  <1>14. Rest(r.out) = Lasting(n, d, items)
    BY <1>5, <1>9, <1>11, LastingSound
  <1>15. /\ r.out \in [items -> How] /\ r.failed \in BOOLEAN /\ r.blocked \subseteq items
         /\ "mail" \in Clear(r.out) => r.failed
         /\ \A i \in Clear(r.out) \cap Detected(items) :
                ActionOn(i) = "block" => r.failed \/ (r.blocked # {} /\ ToVerdict(n))
         /\ job.safe /\ r.failed => r.blocked # {}
    BY <1>13 DEF ResultSound
  <1>16. PICK o : o = r.out
    OBVIOUS
  <1>17. o \in Outs
    <2>1. items \in SUBSET Items
      BY <1>9 DEF ItemSets
    <2>. QED
      BY <1>15, <1>16, <2>1 DEF Outs
  <1>18. /\ out' \in Seq(Outs) /\ Len(out') = a
         /\ \A k \in 1..Len(out) : out'[k] = out[k]
         /\ out'[a] = o
    <2>1. out' = Append(out, o) /\ Len(out) + 1 = a
      BY <1>7, <1>9, <1>16 DEF Indices
    <2>. QED
      BY <1>9, <1>17, <2>1, AppendProperties
  <1>19. job' = job /\ Indices' = Indices /\ \A k : FieldOf(k)' = FieldOf(k) /\ ItemsOf(k)' = ItemsOf(k)
    BY <1>1 DEF Indices, FieldOf, ItemsOf
  <1>20. g \subseteq lenient' /\ lenient \subseteq lenient' /\ lenient' \subseteq Fields \X {"keep", "text"}
    <2>1. inForce' = inForce /\ kits' = kits
      BY <1>1 DEF svars, registry
    <2>2. Readable(inForce', kits') = Readable(inForce, kits)
      BY <2>1
    <2>3. lenient \subseteq Fields \X {"keep", "text"} /\ phase' \notin {"arrived", "loading"}
      BY <1>1 DEF IInv, Shape
    <2>. QED
      BY <1>1, <1>10, <2>2, <2>3, RememberFacts DEF Recalls
  <1>21. DecisionsInv'
    <2>1. phase' \notin Early
      BY <1>1 DEF Early
    <2>2. ASSUME NEW l \in Names PROVE Grounded(l, decided[l], lenient)'
      <3>1. PICK c : c = decided'[l]
        OBVIOUS
      <3>2. CASE l = n
        <4>1. c = d
          BY <1>7, <1>9, <3>1, <3>2
        <4>2. Grounded(l, c, lenient)'
          BY <1>11, <1>19, <1>20, <3>2, <4>1, GroundedKeeps
        <4>. QED
          BY <3>1, <4>2
      <3>3. CASE l # n
        <4>1. c = decided[l]
          BY <1>7, <1>9, <3>1, <3>3
        <4>2. PICK s : s = lenient
          OBVIOUS
        <4>3. Grounded(l, c, s) /\ s \subseteq lenient'
          BY <1>20, <4>1, <4>2 DEF IInv, DecisionsInv
        <4>4. Grounded(l, c, lenient)'
          BY <1>19, <4>3, GroundedKeeps
        <4>. QED
          BY <3>1, <4>4
      <3>. QED
        BY <3>2, <3>3
    <2>. QED
      BY <2>1, <2>2 DEF DecisionsInv
  <1>22. Shape'
    <2>1. decided' \in [Names -> Decisions]
      BY <1>7, <1>9, <1>11
    <2>2. at' \in 1..(Len(job'.cells) + 1) /\ Len(out') = at' - 1 /\ Len(out') <= Len(job'.cells)
      BY <1>1, <1>6, <1>9, <1>18, <1>19 DEF Indices
    <2>3. JobSound'
      BY <1>9, <1>19 DEF JobSound
    <2>4. blocks' \subseteq Indices' \X Items
      <3>1. items \subseteq Items /\ r.blocked \subseteq Items
        BY <1>9, <1>15 DEF ItemSets
      <3>2. {<<a, i>> : i \in r.blocked} \subseteq Indices \X Items
        BY <1>9, <3>1
      <3>3. blocks \subseteq Indices \X Items
        BY DEF IInv, Shape
      <3>. QED
        BY <1>7, <1>19, <3>2, <3>3
    <2>5. failed' \in BOOLEAN
      BY <1>7, <1>15 DEF IInv, Shape
    <2>. QED
      BY <1>1, <1>7, <1>18, <1>20, <2>1, <2>2, <2>3, <2>4, <2>5 DEF IInv, Shape, Early, Late
  <1>23. failed => failed'
    BY <1>7
  <1>24. blocks # {} => blocks' # {}
    BY <1>7
  <1>25. r.blocked # {} => blocks' # {}
    BY <1>7
  <1>26. CellsInv'
    <2> SUFFICES ASSUME NEW k \in 1..a PROVE CellInv(k)'
      BY <1>18 DEF CellsInv
    <2>1. CASE k # a
      <3>1. k \in 1..Len(out) /\ k \in Indices
        BY <1>9, <2>1 DEF Indices
      <3>2. CellInv(k) /\ out[k] \in [ItemsOf(k) -> How] /\ out'[k] = out[k]
        BY <1>18, <3>1 DEF IInv, CellsInv, CellInv
      <3>3. decided'[FieldOf(k)] = decided[FieldOf(k)]
        <4>1. FieldOf(k) \in Names
          BY <1>9, <3>1, JobFacts
        <4>2. FieldOf(k) = n => d = decided[n]
          BY <1>11, <3>2 DEF CellInv
        <4>. QED
          BY <1>7, <1>9, <4>1, <4>2
      <3>. QED
        BY <1>9, <1>19, <1>23, <1>24, <3>1, <3>2, <3>3, CellKeeps
    <2>2. CASE k = a
      <3>1. FieldOf(k)' = n /\ ItemsOf(k)' = items /\ decided'[n] = d /\ out'[k] = o
        BY <1>7, <1>9, <1>18, <1>19, <2>2
      <3>2. /\ HasDecision(n)' = HasDecision(n) /\ ToVerdict(n)' = ToVerdict(n)
            /\ Reason(n, d, items)' = Reason(n, d, items)
            /\ \A i : ActionOn(i)' = ActionOn(i)
        BY <1>19 DEF HasDecision, IsStructured, ToVerdict, Reason, Recog, ActionOn
      <3>3. Lasting(n, d, items)' = Lasting(n, d, items)
        BY <1>19, LastingFixed
      <3>4. r.failed => failed'
        BY <1>7
      <3>5. /\ o \in [items -> How]
            /\ HasDecision(n)' => d # Undecided
            /\ "mail" \in Clear(o) => failed'
            /\ \A i \in Clear(o) \cap Detected(items) :
                   ActionOn(i)' = "block" => failed' \/ (blocks' # {} /\ ToVerdict(n)')
            /\ job'.safe /\ Clear(o) = items => failed' \/ Reason(n, d, items)'
            /\ Rest(o) = Lasting(n, d, items)'
        BY <1>11, <1>13, <1>14, <1>15, <1>16, <1>19, <1>25, <3>2, <3>3, <3>4
      <3>. QED
        BY <3>1, <3>5 DEF CellInv
    <2>. QED
      BY <2>1, <2>2
  <1>27. ColumnsInv'
    <2>1. job.fmt = "csv" => decided' = decided
      BY <1>7, <1>9, <1>12
    <2>. QED
      BY <1>1, <1>19, <2>1 DEF IInv, ColumnsInv, Late
  <1>28. FailedInv'
    BY <1>7, <1>15, <1>19, <1>24, <1>25 DEF IInv, FailedInv
  <1>29. SweptInv' /\ VerdictInv'
    BY <1>1 DEF SweptInv, VerdictInv
  <1>30. WorkerInv' /\ SettingsInv'
    <2>1. op' = op
      BY <1>1 DEF svars
    <2>. QED
      BY <1>1, <1>9, <2>1, SettingsStay DEF IInv, WorkerInv, Building
  <1>. QED
    BY <1>21, <1>22, <1>26, <1>27, <1>28, <1>29, <1>30 DEF IInv

\* The worker drops what it is doing: it has no rebuild in hand.
LEMMA WorkerDrops ==
    ASSUME IInv, phase \in {"policy"} \cup Late,
           op' = [op EXCEPT ![Worker] = Idle], UNCHANGED <<files, registry, cache, inForce>>
    PROVE  SettingsInv' /\ WorkerInv'
  <1>1. Worker \in Threads /\ SettingsInv /\ edits \in 0..MaxEdits
    BY DEF Threads, IInv, SettingsInv, SettingsTypeOK
  <1>2. Idle.pc \notin Loaders /\ Idle.pc \notin BuilderSteps
    BY IdleFacts DEF BuilderSteps, Loaders
  <1>3. op[Worker].pc \notin BuilderSteps
    BY DEF IInv, WorkerInv, Building
  <1>4. OpSound /\ NoStore /\ NoBuild /\ op'[Worker] = Idle
    BY <1>1, <1>2, <1>3, IdleFacts, OpStep
  <1>5. SettingsInv'
    BY <1>1, <1>4, OnlyMoves DEF files
  <1>6. WorkerInv'
    BY <1>2, <1>4 DEF WorkerInv, Building
  <1>. QED
    BY <1>5, <1>6

LEMMA FailKeeps ==
    ASSUME IInv, Fail
    PROVE  IInv'
  <1>1. /\ phase \in {"policy", "cells"} /\ phase' = "error" /\ Remember
        /\ op' = [op EXCEPT ![Worker] = Idle]
        /\ UNCHANGED <<files, registry, cache, inForce>>
        /\ UNCHANGED <<job, at, vendor, decided, out, known, failed, blocks, raised>>
    BY DEF Fail
  <1>2. SettingsInv' /\ WorkerInv'
    BY <1>1, WorkerDrops DEF Late
  <1>3. DecisionsInv' /\ CellsInv'
    BY <1>1, RememberFacts, DecisionsStay, CellsStay DEF Early, IInv, Shape
  <1>4. Shape'
    <2>1. lenient' \subseteq Fields \X {"keep", "text"}
      BY <1>1, RememberFacts DEF IInv, Shape, Recalls
    <2>2. JobSound' /\ Indices' = Indices
      BY <1>1 DEF IInv, Shape, JobSound, Indices
    <2>. QED
      BY <1>1, <2>1, <2>2 DEF IInv, Shape, Early, Late
  <1>5. ColumnsInv' /\ FailedInv' /\ SweptInv' /\ VerdictInv'
    BY <1>1 DEF IInv, ColumnsInv, FailedInv, SweptInv, VerdictInv, Late
  <1>. QED
    BY <1>2, <1>3, <1>4, <1>5 DEF IInv

LEMMA FinalSweepKeeps ==
    ASSUME IInv, FinalSweep
    PROVE  IInv'
  <1>1. /\ phase = "cells" /\ phase' = "verdict" /\ at \notin Indices /\ Remember
        /\ UNCHANGED svars /\ UNCHANGED <<job, at, vendor, decided, known, failed, blocks>>
    BY DEF FinalSweep
  <1>2. \/ ~(IsStructured /\ job.safe) /\ out' = out /\ raised' = raised
        \/ out' = [k \in Indices |-> SweepKnown(out[k])] /\ raised' = raised
        \/ raised' = TRUE /\ out' = out
    BY DEF FinalSweep
  <1>3. /\ JobSound /\ Len(job.cells) \in Nat /\ at \in 1..(Len(job.cells) + 1)
        /\ out \in Seq(Outs) /\ Len(out) = at - 1 /\ SettingsInv
    BY <1>1, JobFacts DEF IInv, Shape, Early
  <1>4. at = Len(job.cells) + 1 /\ Len(out) = Len(job.cells) /\ Indices = 1..Len(out)
    BY <1>1, <1>3 DEF Indices
  <1>5. job' = job /\ Indices' = Indices
    BY <1>1 DEF Indices
  <1>6. ASSUME NEW k \in Indices
        PROVE  /\ out[k] \in [ItemsOf(k) -> How] /\ CellInv(k) /\ ItemsOf(k) \in SUBSET Items
               /\ SweepKnown(out[k]) \in [ItemsOf(k) -> How]
               /\ Clear(SweepKnown(out[k])) = {i \in Clear(out[k]) : ~(i = "word" /\ known)}
               /\ Rest(SweepKnown(out[k])) = Rest(out[k])
    <2>1. out[k] \in [ItemsOf(k) -> How] /\ CellInv(k) /\ ItemsOf(k) \in ItemSets
      BY <1>3, <1>4, JobFacts DEF IInv, CellsInv, CellInv
    <2>. QED
      BY <2>1, SweepFacts, RestFacts DEF ItemSets
  <1>7. /\ out' \in Seq(Outs) /\ Len(out') = Len(out)
        /\ \A k \in Indices : /\ out'[k] \in [ItemsOf(k) -> How]
                              /\ Clear(out'[k]) \subseteq Clear(out[k])
                              /\ Rest(out'[k]) = Rest(out[k])
    <2>1. CASE out' = out
      BY <1>3, <1>6, <2>1
    <2>2. CASE out' = [k \in Indices |-> SweepKnown(out[k])]
      <3>1. \A k \in Indices : out'[k] = SweepKnown(out[k])
        BY <2>2
      <3>2. \A k \in Indices : SweepKnown(out[k]) \in Outs
        BY <1>6 DEF Outs
      <3>3. out' \in [1..Len(out) -> Outs] /\ Len(out) \in Nat
        BY <1>3, <1>4, <2>2, <3>2
      <3>4. out' \in Seq(Outs) /\ Len(out') = Len(out)
        BY <3>3
      <3>. QED
        BY <1>6, <3>1, <3>4
    <2>. QED
      BY <1>2, <2>1, <2>2
  <1>8. CellsInv'
    <2> SUFFICES ASSUME NEW k \in Indices PROVE CellInv(k)'
      BY <1>4, <1>7 DEF CellsInv
    <2>. QED
      BY <1>1, <1>3, <1>6, <1>7, CellKeeps
  <1>9. SweptInv'
    <2> SUFFICES ASSUME IsStructured', job'.safe, known', ~raised', NEW k \in Indices
                 PROVE  "word" \notin Clear(out'[k])
      BY <1>4, <1>7 DEF SweptInv, Clear
    <2>1. IsStructured /\ job.safe /\ known
      BY <1>1, <1>5 DEF IsStructured
    <2>2. out'[k] = SweepKnown(out[k])
      BY <1>2, <2>1
    <2>. QED
      BY <1>6, <2>1, <2>2
  <1>10. Shape'
    <2>1. lenient' \subseteq Fields \X {"keep", "text"}
      BY <1>1, RememberFacts DEF IInv, Shape, Recalls
    <2>2. JobSound'
      BY <1>3, <1>5 DEF JobSound
    <2>3. raised' \in BOOLEAN
      BY <1>2 DEF IInv, Shape
    <2>. QED
      BY <1>1, <1>3, <1>4, <1>5, <1>7, <2>1, <2>2, <2>3 DEF IInv, Shape, Early, Late
  <1>11. DecisionsInv'
    BY <1>1, RememberFacts, DecisionsStay DEF Early, IInv, Shape
  <1>12. ColumnsInv' /\ FailedInv' /\ VerdictInv'
    <2>1. \A k : FieldOf(k)' = FieldOf(k)
      BY <1>5 DEF FieldOf
    <2>. QED
      BY <1>1, <1>5, <2>1 DEF IInv, ColumnsInv, FailedInv, VerdictInv, Late
  <1>13. WorkerInv' /\ SettingsInv'
    <2>1. op' = op
      BY <1>1 DEF svars
    <2>. QED
      BY <1>1, <1>3, <2>1, SettingsStay DEF IInv, WorkerInv, Building, Late
  <1>. QED
    BY <1>8, <1>9, <1>10, <1>11, <1>12, <1>13 DEF IInv

LEMMA VerdictKeeps ==
    ASSUME IInv, Verdict
    PROVE  IInv'
  <1>1. /\ phase = "verdict" /\ phase' = IF Blocked THEN "refused" ELSE "delivered"
        /\ Remember /\ op' = [op EXCEPT ![Worker] = Idle]
        /\ UNCHANGED <<files, registry, cache, inForce>>
        /\ UNCHANGED <<job, at, vendor, decided, out, known, failed, blocks, raised>>
    BY DEF Verdict
  <1>2. SettingsInv' /\ WorkerInv'
    BY <1>1, WorkerDrops DEF Late
  <1>3. phase' \in {"refused", "delivered"}
    BY <1>1
  <1>4. DecisionsInv' /\ CellsInv'
    BY <1>1, <1>3, RememberFacts, DecisionsStay, CellsStay DEF Early, IInv, Shape
  <1>5. Shape'
    <2>1. lenient' \subseteq Fields \X {"keep", "text"}
      BY <1>1, RememberFacts DEF IInv, Shape, Recalls
    <2>2. JobSound' /\ Indices' = Indices
      BY <1>1 DEF IInv, Shape, JobSound, Indices
    <2>. QED
      BY <1>1, <1>3, <2>1, <2>2 DEF IInv, Shape, Early, Late
  <1>6. VerdictInv'
    <2>1. Blocked' = Blocked
      BY <1>1 DEF Blocked, Exposed, ExposedColumn, Indices, FieldOf
    <2>. QED
      BY <1>1, <2>1 DEF VerdictInv
  <1>7. ColumnsInv' /\ FailedInv' /\ SweptInv'
    <2>1. /\ Indices' = Indices /\ IsStructured' = IsStructured
          /\ \A k : FieldOf(k)' = FieldOf(k)
      BY <1>1 DEF Indices, IsStructured, FieldOf
    <2>2. \A o : Clear(o)' = Clear(o)
      BY DEF Clear
    <2>. QED
      BY <1>1, <1>3, <2>1, <2>2 DEF IInv, ColumnsInv, FailedInv, SweptInv, Late
  <1>. QED
    BY <1>2, <1>4, <1>5, <1>6, <1>7 DEF IInv

\* Administrators, the clock and the hand that edits the keep list.
LEMMA AdministrationKeeps ==
    ASSUME IInv, ((Tick \/ HandEdit) /\ Meanwhile) \/ \E t \in Admins : Administration(t)
    PROVE  IInv'
  <1>1. CASE (Tick \/ HandEdit) /\ Meanwhile
    <2>1. UNCHANGED dvars /\ Remember /\ op' = op
      BY <1>1 DEF Meanwhile, Tick, HandEdit
    <2>2. SettingsInv'
      BY <1>1, TickKeeps, HandEditKeeps DEF IInv
    <2>3. WorkerInv'
      BY <2>1 DEF IInv, WorkerInv, Building, dvars
    <2>. QED
      BY <2>1, <2>2, <2>3, RememberFacts, QuietKeeps DEF IInv, Shape
  <1>2. ASSUME NEW t \in Admins, Administration(t)
        PROVE  IInv'
    <2>1. UNCHANGED dvars /\ Remember /\ ThreadStep(t)
      BY <1>2 DEF Administration, Meanwhile, ThreadStep
    <2>2. t \in Threads /\ Worker \in Threads \ {t} /\ SettingsInv
      BY SettingsAssumption DEF Threads, IInv
    <2>3. SettingsInv' /\ op'[Worker] = op[Worker]
      BY <2>1, <2>2, ThreadKeeps, OthersStay
    <2>4. WorkerInv'
      BY <2>1, <2>3 DEF IInv, WorkerInv, Building, dvars
    <2>. QED
      BY <2>1, <2>3, <2>4, RememberFacts, QuietKeeps DEF IInv, Shape
  <1>. QED
    BY <1>1, <1>2

LEMMA StutterKeeps ==
    ASSUME IInv, UNCHANGED vars
    PROVE  IInv'
  <1>1. UNCHANGED svars /\ UNCHANGED dvars /\ lenient' = lenient /\ op' = op
    BY DEF vars, svars
  <1>2. SettingsInv' /\ Recalls
    BY <1>1, SettingsStay DEF IInv, Shape, Recalls
  <1>3. WorkerInv'
    BY <1>1 DEF IInv, WorkerInv, Building, dvars
  <1>. QED
    BY <1>1, <1>2, <1>3, QuietKeeps

-------------------------------------------------------------------------------
(* What holds of every document *)

\* The inductive invariant holds throughout.
THEOREM Invariance == Spec => []IInv
  <1>1. DocumentsInit => IInv
    BY InitKeeps
  <1>2. IInv /\ [Next]_vars => IInv'
    <2> SUFFICES ASSUME IInv, [Next]_vars PROVE IInv'
      OBVIOUS
    <2>1. CASE Request
      BY <2>1, ArriveKeeps, WorkerKeeps, StartDetectionKeeps, DetectKeeps, DefaultPolicyKeeps,
         PolicyDoneKeeps, TransformKeeps, FailKeeps, FinalSweepKeeps, VerdictKeeps DEF Request
    <2>2. CASE ((Tick \/ HandEdit) /\ Meanwhile) \/ \E t \in Admins : Administration(t)
      BY <2>2, AdministrationKeeps
    <2>3. CASE UNCHANGED vars
      BY <2>3, StutterKeeps
    <2>. QED
      BY <2>1, <2>2, <2>3 DEF Next
  <1>. QED
    BY <1>1, <1>2, PTL DEF Spec

\* Every variable keeps its type: one outcome for each cell transformed, and
\* within it one for each item.
THEOREM TypesHold == Spec => []TypeOK
  <1>1. IInv => TypeOK
    <2> SUFFICES ASSUME IInv PROVE TypeOK
      OBVIOUS
    <2>1. SettingsTypeOK
      BY DEF IInv, SettingsInv
    <2>2. /\ job.fmt \in {"csv", "text"} \cup Structured /\ job.entry \in {"app", "cli"}
      BY DEF IInv, Shape, JobSound, Requests
    <2>3. \A k \in 1..Len(out) : out[k] \in [ItemsOf(k) -> {"clear", "masked", "elided"}]
      BY DEF IInv, CellsInv, CellInv, How
    <2>4. ASSUME NEW n \in Names
          PROVE  /\ decided[n].act \in (Actions \ {Unset}) \cup {"undecided"}
                 /\ decided[n].kind \in {"none", "user", "ip", "email", "opaque"}
                 /\ decided[n].by \in {"", "config", "vendor", "generic", "safe",
                                       "value", "heuristic"}
      <3>1. decided[n] \in Decisions
        BY DEF IInv, Shape
      <3>. QED
        BY <3>1 DEF Decisions, Acts, Kinds
    <2>. QED
      BY <2>1, <2>2, <2>3, <2>4 DEF IInv, Shape, TypeOK, Early, Late
  <1>. QED
    BY <1>1, Invariance, PTL

\* A cache that its loader takes for current holds what the file has said at its
\* present modification time, however loaders, savers and edits interleave, edits
\* within one tick of the file system's clock included; and a save leaves none
\* that still holds what the file said before it.
THEOREM CachesStayCurrent == Spec => []CacheCurrent
  <1>1. IInv => CacheCurrent
    BY DEF IInv, SettingsInv, CacheInv, CacheCurrent
  <1>. QED
    BY <1>1, Invariance, PTL

\* When nobody rebuilds it, a registry that is taken for current holds what the
\* user kits have said at their present modification time, or what a rebuild
\* that overlapped the last had read -- and without such a rebuild, ALIASES
\* agrees with KITS.
THEOREM RegistryStaysCurrent == Spec => []KitsCurrent
  <1>1. IInv => KitsCurrent
    BY DEF IInv, SettingsInv, KitInv, KitsKnown, OneBuilder, KitsCurrent, Building,
       BuilderSteps
  <1>. QED
    BY <1>1, Invariance, PTL

\* A document with a verdict has an outcome for every cell.
LEMMA AllOut ==
    ASSUME IInv, phase \in {"delivered", "refused"}
    PROVE  /\ \A k \in Indices : CellInv(k) /\ FieldOf(k) \in Names /\ ItemsOf(k) \in ItemSets
           /\ Indices = 1..Len(out)
  <1>1. Len(out) = Len(job.cells)
    BY JobFacts DEF IInv, Shape, Early, Late
  <1>. QED
    BY <1>1, JobFacts DEF IInv, Shape, CellsInv, Indices

\* No e-mail address is delivered in clear.
THEOREM NoMailLeaves == Spec => []NoMailDelivered
  <1>1. IInv => NoMailDelivered
    <2> SUFFICES ASSUME IInv, phase = "delivered", NEW k \in Indices
                 PROVE  "mail" \notin Clear(out[k])
      BY DEF NoMailDelivered, Delivered
    <2>1. ~failed
      BY DEF IInv, VerdictInv, Blocked
    <2>. QED
      BY <2>1, AllOut DEF CellInv
  <1>. QED
    BY <1>1, Invariance, PTL

\* Nothing that DLP blocks is delivered in clear, but in the headers that the
\* command line puts out.
THEOREM BlockedStays == Spec => []BlockedNotDelivered
  <1>1. IInv => BlockedNotDelivered
    <2> SUFFICES ASSUME IInv, phase = "delivered", NEW k \in Indices,
                        NEW i \in Detected(ItemsOf(k)), ActionOn(i) = "block", i \in Clear(out[k])
                 PROVE  job.entry = "cli" /\ NameClass[FieldOf(k)] = "header"
      BY DEF BlockedNotDelivered, Delivered
    <2>1. ~failed /\ (blocks # {} => job.entry # "app" /\ job.fmt # "text")
      BY DEF IInv, VerdictInv, Blocked
    <2>2. failed \/ (blocks # {} /\ ToVerdict(FieldOf(k)))
      BY AllOut DEF CellInv
    <2>3. job.entry \in {"app", "cli"}
      BY JobFacts DEF IInv, Shape
    <2>. QED
      BY <2>1, <2>2, <2>3 DEF ToVerdict
  <1>. QED
    BY <1>1, Invariance, PTL

\* In safe mode a structured document holds no user name in clear that the vault
\* knows, unless the sweep raised.
THEOREM SweptEverywhere == Spec => []IdentitySwept
  <1>1. IInv => IdentitySwept
    <2> SUFFICES ASSUME IInv, phase = "delivered", IsStructured, job.safe, known, ~raised,
                        NEW k \in Indices
                 PROVE  "word" \notin Clear(out[k])
      BY DEF IdentitySwept, Delivered
    <2>1. k \in 1..Len(out)
      BY AllOut
    <2>. QED
      BY <2>1 DEF IInv, SweptInv, Late
  <1>. QED
    BY <1>1, Invariance, PTL

\* In safe mode nothing comes through untouched without a reason.
THEOREM OnlyForAReason == Spec => []ClearForAReason
  <1>1. IInv => ClearForAReason
    <2> SUFFICES ASSUME IInv, phase = "delivered", job.safe, NEW k \in Indices,
                        Clear(out[k]) = ItemsOf(k)
                 PROVE  \/ <<FieldOf(k), "keep">> \in lenient
                        \/ NameClass[FieldOf(k)] = "safe"
                        \/ ItemsOf(k) = {"public"}
                        \/ IsText(k) /\ Recognised(k) = {}
      BY DEF ClearForAReason, Delivered
    <2> DEFINE n == FieldOf(k)
               d == decided[n]
    <2>1. ~failed
      BY DEF IInv, VerdictInv, Blocked
    <2>2. Reason(n, d, ItemsOf(k)) /\ n \in Names
      BY <2>1, AllOut DEF CellInv
    <2>3. Grounded(n, d, lenient)
      BY <2>2 DEF IInv, DecisionsInv
    <2>4. CASE d.act = "keep" /\ (job.fmt = "csv" \/ d.by # "")
      <3>1. KeepReason(n, d.by, lenient)
        BY <2>3, <2>4 DEF Grounded
      <3>2. d.by = "" => NameClass[n] = "safe"
        BY <2>2, <2>4 DEF IInv, ColumnsInv, Late
      <3>. QED
        BY <3>1, <3>2 DEF KeepReason
    <2>5. CASE (ToVerdict(n) \/ d.act = "text") /\ Recog(ItemsOf(k)) = {}
      <3>1. Recognised(k) = {}
        BY <2>5 DEF Recog, Recognised
      <3>2. ToVerdict(n) => IsText(k)
        BY DEF ToVerdict, IsText
      <3>3. d.act = "text" => IsText(k)
        BY <2>3 DEF Grounded, TextReason, IsText
      <3>. QED
        BY <2>5, <3>1, <3>2, <3>3
    <2>. QED
      BY <2>2, <2>4, <2>5 DEF Reason
  <1>. QED
    BY <1>1, Invariance, PTL

\* Safe mode refuses only what DLP blocks, or a column that only configuration
\* keeps readable.
THEOREM SafeModeRefuses == Spec => []SafeModeDelivers
  <1>1. IInv => SafeModeDelivers
    <2> SUFFICES ASSUME IInv, phase = "refused", job.safe, blocks = {}
                 PROVE  /\ job.fmt = "csv"
                        /\ \E k \in Indices : /\ <<FieldOf(k), "keep">> \in lenient
                                              /\ NameClass[FieldOf(k)] # "safe"
      BY DEF SafeModeDelivers
    <2>1. ~failed /\ Exposed
      BY DEF IInv, FailedInv, VerdictInv, Blocked
    <2>2. PICK k \in Indices : ExposedColumn(FieldOf(k))
      BY <2>1 DEF Exposed
    <2>3. /\ FieldOf(k) \in Names /\ decided[FieldOf(k)].act = "keep" /\ NameClass[FieldOf(k)] # "safe"
          /\ job.fmt = "csv"
      BY <2>1, <2>2, AllOut DEF ExposedColumn, Exposed
    <2>4. decided[FieldOf(k)].by \in {"vendor", "config"}
      BY <2>3 DEF IInv, ColumnsInv, Late
    <2>5. KeepReason(FieldOf(k), decided[FieldOf(k)].by, lenient)
      BY <2>3 DEF IInv, DecisionsInv, Grounded
    <2>6. <<FieldOf(k), "keep">> \in lenient
      BY <2>4, <2>5 DEF KeepReason
    <2>. QED
      BY <2>3, <2>6
  <1>. QED
    BY <1>1, Invariance, PTL

\* Equal values of a field come out alike, user names aside.
THEOREM TreatedAlike == Spec => []SameFieldSameTreatment
  <1>1. IInv => SameFieldSameTreatment
    <2> SUFFICES ASSUME IInv, phase \in {"delivered", "refused"}, NEW j \in Indices, NEW k \in Indices,
                        job.cells[j] = job.cells[k]
                 PROVE  Clear(out[j]) \ {"word"} = Clear(out[k]) \ {"word"}
      BY DEF SameFieldSameTreatment
    <2>1. FieldOf(j) = FieldOf(k) /\ ItemsOf(j) = ItemsOf(k)
      BY DEF FieldOf, ItemsOf
    <2>2. /\ Rest(out[j]) = Lasting(FieldOf(j), decided[FieldOf(j)], ItemsOf(j))
          /\ Rest(out[k]) = Lasting(FieldOf(k), decided[FieldOf(k)], ItemsOf(k))
      BY AllOut DEF CellInv
    <2>. QED
      BY <2>1, <2>2 DEF Rest
  <1>. QED
    BY <1>1, Invariance, PTL

===============================================================================
