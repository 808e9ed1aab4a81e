---------------------------- MODULE MCDocuments ----------------------------
(***************************************************************************)
(* Instances of Documents for TLC: every kind of field with every value,   *)
(* pairs of cells where one bears on the other, and two short documents    *)
(* that administrators interfere with.                                     *)
(***************************************************************************)
EXTENDS Documents

MCFields == {"note", "status"}
MCNameClass == [user |-> "user", src |-> "ip", message |-> "descriptive",
                details |-> "text", status |-> "safe", note |-> "other",
                phone |-> "phone", name |-> "header"]

Says(n, a) == [Empty EXCEPT ![n] = a]
MCKitBodies == {Says("note", "keep")}
MCUpdates == {<<"note", "keep">>, <<"note", Unset>>}

Setup(keep, overrides, kit) ==
    [bodies |-> [keep_fields |-> keep, field_overrides |-> overrides], kit |-> kit]
Plain == Setup(Empty, Empty, NoKit)
Setups ==
    {Plain, Setup(Says("note", "keep"), Empty, NoKit)}
    \cup {Setup(Empty, Says(n, a), NoKit) : n \in MCFields, a \in OverrideActions}
    \cup {Setup(Empty, Empty, Says("note", a)) : a \in Actions \ {Unset}}

Values == {{i} : i \in Items}
          \cup {{"word", "mail"}, {"odd", "phone"}, {"word", "addr"}, {"name", "mail"}}
C(n, items) == [field |-> n, items |-> items]

Body == {<<C(n, v)>> : n \in Names \ {"name"}, v \in Values}
Pairs ==
    {<<C("note", v), C("note", w)>> : v, w \in {{"mail"}, {"word"}, {"addr"}, {"odd", "phone"}}}
    \cup {<<C("user", {"word"}), C(n, {"word", "addr"})>> : n \in {"message", "details", "note", "status"}}
    \cup {<<C(n, {"word", "addr"}), C("user", {"word"})>> : n \in {"message", "details", "note", "status"}}
Headed == {<<C("name", v)>> : v \in Values} \cup {<<C("name", {"word", "mail"}), C("user", {"word"})>>}

DlpPolicies ==
    {[phone |-> a, name |-> a] : a \in {"pseudonymize", "redact", "block", "keep"}}
    \cup {[phone |-> "block", name |-> "keep"], [phone |-> "keep", name |-> "block"]}
Default == [phone |-> "pseudonymize", name |-> "pseudonymize"]
PoliciesFor(cells) ==
    IF \E k \in 1..Len(cells) : cells[k].items \cap {"phone", "digits", "name"} # {}
    THEN DlpPolicies ELSE {Default}

Job(fmt, safe, entry, dlp, cells, knows) ==
    [fmt |-> fmt, safe |-> safe, entry |-> entry, dlp |-> dlp, cells |-> cells, known |-> knows]
Quiet(fmt, docs) ==
    UNION {{Job(fmt, safe, entry, dlp, cells, knows) :
              safe \in BOOLEAN, entry \in {"app", "cli"}, dlp \in PoliciesFor(cells),
              knows \in {k \in BOOLEAN : k => \E j \in 1..Len(cells) : "word" \in cells[j].items}} :
           cells \in docs}

MCWatched ==
    {Job(fmt, TRUE, "app", Default, <<C("note", {"odd"}), C("note", {"odd"})>>, FALSE) :
        fmt \in {"json", "csv"}}
MCJobs == UNION {Quiet(fmt, Body \cup Pairs) : fmt \in {"csv", "json", "text"}}
          \cup Quiet("cef", Headed) \cup MCWatched

MCSetupsFor(j) ==
    IF j \in MCWatched THEN {Plain, Setup(Empty, Says("note", "keep"), Says("note", "keep"))}
    ELSE IF j.fmt # "text" /\ \E k \in 1..Len(j.cells) : j.cells[k].field \in MCFields
    THEN Setups ELSE {Plain}
=============================================================================
