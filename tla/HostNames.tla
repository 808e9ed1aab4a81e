------------------------------ MODULE HostNames -------------------------------
(****************************************************************************)
(* How Anonymizer names hosts: the tokens of FQDNs and of short names, the  *)
(* per-document index that links a short name to its FQDN, the alias row    *)
(* the vault keeps for it, the recognition of tokens issued before, and     *)
(* what Deanonymizer answers for them.  Documents are processed one after   *)
(* the other on one tenant vault (module Vault shows that concurrent        *)
(* requests see the vault as if they were), and the order of the values in  *)
(* a document is arbitrary.                                                 *)
(*                                                                          *)
(* A token is modelled by the name it is derived from and by its form:      *)
(* host-x.masked.local is dotted, host-x is not.  Distinct names thus have  *)
(* distinct tags; what happens when they collide is in module Vault.        *)
(****************************************************************************)
EXTENDS Naturals, FiniteSets

CONSTANTS
    Fqdns,        \* dotted host names
    Shorts,       \* names without a dot
    Label,        \* Label[f]: the first label of FQDN f, a member of Shorts
    AliasShorts,  \* the shorts of four characters or more, not reserved
    LinkShorts,   \* the shorts of three characters or more, not reserved
    Foreign,      \* values that look like tokens and are not of this vault
    MaxDocs,      \* bound: documents processed
    MaxValues,    \* bound: distinct values of a document
    NoToken, NoDoc,
    Masked        \* the token of a Foreign value; which one does not matter

Names == Fqdns \cup Shorts
Token == [tag : Names, dotted : BOOLEAN]

ASSUME HostNamesAssumption ==
    /\ Fqdns \cap Shorts = {}
    /\ Label \in [Fqdns -> Shorts]
    /\ AliasShorts \subseteq LinkShorts /\ LinkShorts \subseteq Shorts
    /\ MaxDocs \in Nat /\ MaxValues \in Nat
    /\ (Names \cup Foreign) \cap Token = {}   \* names that look like tokens are Foreign
    /\ Names \cap Foreign = {}
    /\ NoToken \notin Token /\ Masked \notin Token
    /\ NoDoc \notin [values : SUBSET (Names \cup Token \cup Foreign), linked : BOOLEAN]

\* pseudo_fqdn: a dotted name gets a dotted token.
TokenOf(n) == [tag |-> n, dotted |-> n \in Fqdns]

\* The token's first label, which is how a short name linked to it appears.
RootOf(t) == [t EXCEPT !.dotted = FALSE]

VARIABLES
    rows,      \* the fqdn rows of the vault as this request sees them
    saved,     \* the same at the last commit
    doc,       \* the document being processed: [values, linked], or NoDoc
    todo,      \* its values still to be mapped
    output,    \* pairs <<value, token>> put in its output so far
    exported,  \* such pairs of every document delivered
    docs       \* documents started

vars == <<rows, saved, doc, todo, output, exported, docs>>

\* What a field may hold: a host name, a token of an earlier export, or a value
\* that only looks like one.
Values == Names \cup Token \cup Foreign
Shown == Token \cup {Masked}

TypeOK ==
    /\ rows \in [Names -> Token \cup {NoToken}]
    /\ saved \in [Names -> Token \cup {NoToken}]
    /\ doc \in [values : SUBSET Values, linked : BOOLEAN] \cup {NoDoc}
    /\ todo \in SUBSET Values
    /\ output \in SUBSET (Values \X Shown)
    /\ exported \in SUBSET (Values \X Shown)
    /\ docs \in 0..MaxDocs

Init ==
    /\ rows = [n \in Names |-> NoToken]
    /\ saved = [n \in Names |-> NoToken]
    /\ doc = NoDoc
    /\ todo = {}
    /\ output = {}
    /\ exported = {}
    /\ docs = 0

-------------------------------------------------------------------------------
(* The vault, without concurrency *)

\* Vault.get_or_create: the row of n, or a new one.
GetOrCreate(table, n) ==
    IF table[n] # NoToken THEN table
                          ELSE [table EXCEPT ![n] = TokenOf(n)]

\* Faulty variant: the last mapping of a label wins.
RegisterAliasLast(table, f) ==
    IF Label[f] \in AliasShorts
    THEN [table EXCEPT ![Label[f]] = RootOf(table[f])]
    ELSE table

\* Vault.register_alias: the first mapping of a label wins.
RegisterAlias(table, f) ==
    IF Label[f] \in AliasShorts /\ table[Label[f]] = NoToken
    THEN [table EXCEPT ![Label[f]] = RootOf(table[f])]
    ELSE table

\* Faulty variant: only whole pseudonyms are recognised.
OwnsExactly(table, t) == t \in Token /\ \E n \in Names : table[n] = t

\* Vault.owns: a row's pseudonym, or the first label of one.
Owns(table, t) ==
    /\ t \in Token
    /\ \E n \in Names :
           \/ table[n] = t
           \/ table[n] # NoToken /\ ~t.dotted /\ RootOf(table[n]) = t

\* Deanonymizer._sub: the row of the token; for a bare host-x without a row,
\* the only row whose pseudonym continues it.
Holders(table, t) == {n \in Names : table[n] = t}
Continuations(table, t) ==
    {n \in Names : /\ table[n] # NoToken /\ table[n].dotted
                   /\ ~t.dotted /\ RootOf(table[n]) = t}
Originals(table, t) ==
    CASE Holders(table, t) # {} -> Holders(table, t)
      [] Holders(table, t) = {} /\ Cardinality(Continuations(table, t)) = 1
           -> Continuations(table, t)
      [] OTHER -> {}

-------------------------------------------------------------------------------
(* Anonymizer._map for the kind fqdn *)

\* build_host_label_index: the FQDNs of the document that have this label.
Candidates(short) ==
    IF doc.linked /\ short \in LinkShorts
    THEN {f \in doc.values \cap Fqdns : Label[f] = short}
    ELSE {}

Produce(v, t, table) ==
    /\ v \in todo
    /\ todo' = todo \ {v}
    /\ rows' = table
    /\ output' = output \cup {<<v, t>>}
    /\ UNCHANGED <<saved, doc, exported, docs>>

\* A token this vault issued is left as it is.
PassOwnToken(t) ==
    /\ Owns(rows, t)
    /\ Produce(t, t, rows)

\* Token-shaped, but the vault does not know it: masked like any other value.
MaskUnknown(v) ==
    /\ v \in Token \cup Foreign
    /\ ~Owns(rows, v)
    /\ Produce(v, Masked, rows)

MapFqdn(f) ==
    LET table == RegisterAlias(GetOrCreate(rows, f), f)
    IN  f \in Fqdns /\ Produce(f, table[f], table)

\* _resolve_bare_host: exactly one FQDN of the document has this label.
MapLinkedShort(s) ==
    /\ s \in Shorts
    /\ Cardinality(Candidates(s)) = 1
    /\ \E f \in Candidates(s) :
           LET table == RegisterAlias(GetOrCreate(rows, f), f)
           IN  Produce(s, RootOf(table[f]), table)

\* Faulty variant: lookup_original where get_or_create is needed.
MapPlainShortLookup(s) ==
    /\ s \in Shorts
    /\ Cardinality(Candidates(s)) # 1
    /\ Produce(s, rows[s], rows)

\* Faulty variant: the short name's own row, if it has one, goes first.
MapPlainShortFirst(s) ==
    LET table == GetOrCreate(rows, s)
    IN  /\ s \in Shorts
        /\ Cardinality(Candidates(s)) # 1 \/ rows[s] # NoToken
        /\ Produce(s, table[s], table)

\* None, or more than one: the short name is looked up on its own.
MapPlainShort(s) ==
    LET table == GetOrCreate(rows, s)
    IN  /\ s \in Shorts
        /\ Cardinality(Candidates(s)) # 1
        /\ Produce(s, table[s], table)

-------------------------------------------------------------------------------
(* Requests *)

\* What the next document may hold (Masked itself has a row of its own and is
\* left out).
Material == Names \cup Foreign \cup ({p[2] : p \in exported} \ {Masked})

\* A document arrives: names, and tokens cut from earlier exports.  Structured
\* formats build the label index, CSV does not.
Open(values, linked) ==
    /\ doc = NoDoc
    /\ docs < MaxDocs
    /\ docs' = docs + 1
    /\ Cardinality(values) \in 1..MaxValues
    /\ doc' = [values |-> values, linked |-> linked]
    /\ todo' = values
    /\ output' = {}
    /\ UNCHANGED <<rows, saved, exported>>

\* The vault is committed and the output delivered.
Export ==
    /\ doc # NoDoc
    /\ todo = {}
    /\ saved' = rows
    /\ exported' = exported \cup output
    /\ doc' = NoDoc
    /\ output' = {}
    /\ UNCHANGED <<rows, todo, docs>>

\* The request fails or is blocked, and the vault is rolled back.
Fail ==
    /\ doc # NoDoc
    /\ rows' = saved
    /\ doc' = NoDoc
    /\ todo' = {}
    /\ output' = {}
    /\ UNCHANGED <<saved, exported, docs>>

Next ==
    \/ \E values \in SUBSET Material, linked \in BOOLEAN : Open(values, linked)
    \/ \E v \in todo : \/ PassOwnToken(v)
                       \/ MaskUnknown(v)
                       \/ MapFqdn(v)
                       \/ MapLinkedShort(v)
                       \/ MapPlainShort(v)
    \/ Export
    \/ Fail

Spec == Init /\ [][Next]_vars

-------------------------------------------------------------------------------
(* Properties *)

\* The token of an FQDN resolves to that FQDN; the token of a short name to
\* that name, or to an FQDN it is the label of: never to another host.
ResolvesToHost ==
    \A p \in exported : p[1] \in Names =>
        /\ Originals(saved, p[2]) # {}
        /\ \A n \in Originals(saved, p[2]) :
               n = p[1] \/ (n \in Fqdns /\ Label[n] = p[1])

\* An export treated again keeps its tokens, also the short ones that have no
\* row of their own.
ReanonymizedUnchanged ==
    \A p \in output \cup exported : p[1] \in Token => p[1] = p[2]

\* In a structured document that names an FQDN, the short name that only it
\* has for label shows the first label of its token, in any order of the two.
LinkedInDocument ==
    doc # NoDoc =>
        \A p, q \in output :
            q[1] \in Shorts /\ Candidates(q[1]) = {p[1]} => q[2] = RootOf(p[2])

\* logmask.py:1141-1145: when several FQDNs of the document share the label,
\* nothing is guessed and the short name takes a token of its own.  The code
\* breaks it: the alias row of the FQDN mapped first answers for the short name.
AmbiguousNotGuessed ==
    doc # NoDoc =>
        \A p, q \in output :
            (/\ q[1] \in Shorts
             /\ p[1] \in Candidates(q[1])
             /\ Cardinality(Candidates(q[1])) > 1)
            => q[2] # RootOf(p[2])

===============================================================================
