--------------------------------- MODULE Ipv4 ---------------------------------
(****************************************************************************)
(* The three ways LogMask gives an IPv4 address a pseudonym, on one vault:  *)
(* flat (one row per address), preserving the /24 (a row for the network    *)
(* and a row for the last octet, joined without a row of their own) and     *)
(* ip_strict (flat whatever the request's mode).  The web application       *)
(* preserves subnets unless told otherwise, documents never do, the command *)
(* line only when asked to: exports of one tenant mix the modes.  Requests  *)
(* are taken one after the other, as module Vault justifies.                *)
(*                                                                          *)
(* One scope (198.18 or 198.19) is modelled; scopes share no pseudonym.     *)
(* Which free pseudonym the derivation finds is left open.                  *)
(****************************************************************************)
EXTENDS Naturals, FiniteSetsExt

CONSTANTS
    Nets,       \* the customer's /24 networks
    PNets,      \* synthetic /24 networks, 256 per scope
    Octets,     \* last octets, real and synthetic alike
    MaxValues,  \* bound: values of all requests together
    None

ASSUME Ipv4Assumption ==
    /\ Nets \cap PNets = {}
    /\ MaxValues \in Nat
    /\ None \notin PNets \cup Octets \cup ((Nets \cup PNets) \X Octets)

Addr == (Nets \cup PNets) \X Octets
Customer == Nets \X Octets
Token == PNets \X Octets

\* A value of a request: an address in a column that is ip_strict or not.
Values == [addr : Addr, strict : BOOLEAN]

\* What an export shows, which way it got there, and whether the final sweep
\* changed it.
Shown == [addr : Addr, token : Token, way : {"flat", "subnet", "own"},
          swept : BOOLEAN]

VARIABLES
    rows,      \* rows of the kinds ipv4, ipv4net, ipv4host: functions to a
               \* pseudonym or None
    saved,     \* the same at the last commit
    subnet,    \* option preserve_subnet of the request in progress
    sweeps,    \* it is text or a document, swept at the end, and not CSV or JSON
    todo,      \* its values still to be mapped
    foreign,   \* addresses it found not to be pseudonyms of this vault
    output,    \* what it shows so far
    exported,  \* what all delivered exports show
    asked,     \* values of the requests started
    busy       \* a request is in progress

vars == <<rows, saved, subnet, sweeps, todo, foreign, output, exported, asked,
          busy>>

Rows == [flat : [Addr -> Token \cup {None}],
         net  : [Nets \cup PNets -> PNets \cup {None}],
         host : [Octets -> Octets \cup {None}]]

TypeOK ==
    /\ rows \in Rows /\ saved \in Rows
    /\ subnet \in BOOLEAN /\ sweeps \in BOOLEAN /\ busy \in BOOLEAN
    /\ todo \in SUBSET Values /\ foreign \in SUBSET Addr
    /\ output \in SUBSET Shown /\ exported \in SUBSET Shown
    /\ asked \in 0..MaxValues

EmptyRows == [flat |-> [a \in Addr |-> None],
              net  |-> [n \in Nets \cup PNets |-> None],
              host |-> [h \in Octets |-> None]]

Init ==
    /\ rows = EmptyRows /\ saved = EmptyRows
    /\ subnet = FALSE /\ sweeps = FALSE /\ busy = FALSE
    /\ todo = {} /\ foreign = {} /\ output = {} /\ exported = {}
    /\ asked = 0

-------------------------------------------------------------------------------
(* The vault *)

\* Faulty variant: pseudonyms drawn without looking whether they are taken.
DrawAny(f, k, pseudonyms) ==
    IF f[k] # None THEN {f} ELSE {[f EXCEPT ![k] = p] : p \in pseudonyms}

\* Vault.get_or_create: the tables that may result from asking for k.  There is
\* none when the space is exhausted.
Draw(f, k, pseudonyms) ==
    IF f[k] # None
    THEN {f}
    ELSE {[f EXCEPT ![k] = p] :
              p \in {q \in pseudonyms : \A j \in DOMAIN f : f[j] # q}}

\* Faulty variant: nothing is recognised as a pseudonym of this vault.
OwnsNone(a) == FALSE

\* Vault.owns: only whole rows count, not a network and an octet joined, and a
\* negative answer stands for the rest of the request.
Owns(a) == a \notin foreign /\ \E b \in Addr : rows.flat[b] = a

\* Deanonymizer._sub: the row of the whole token first ...
FlatHolders(table, t) == {a \in Addr : table.flat[a] = t}

\* ... then the network and the octet, each by its own row.
JoinedHolders(table, t) ==
    {a \in Addr : table.net[a[1]] = t[1] /\ table.host[a[2]] = t[2]}

\* Faulty variant: the two lookups in the other order.
OriginalsJoinedFirst(table, t) ==
    IF JoinedHolders(table, t) # {} THEN JoinedHolders(table, t)
                                    ELSE FlatHolders(table, t)

Originals(table, t) ==
    IF FlatHolders(table, t) # {} THEN FlatHolders(table, t)
                                  ELSE JoinedHolders(table, t)

-------------------------------------------------------------------------------
(* Mapping one address *)

Flat(v) == v.strict \/ ~subnet

Show(v, t, way, table) ==
    /\ rows' = table
    /\ output' = output \cup {[addr |-> v.addr, token |-> t, way |-> way,
                              swept |-> FALSE]}
    /\ todo' = todo \ {v}
    /\ UNCHANGED <<saved, subnet, sweeps, exported, asked, busy>>

\* Anonymizer._map: a pseudonym of this vault is left as it is.
PassOwnToken(v) ==
    /\ Flat(v)
    /\ Owns(v.addr)
    /\ UNCHANGED foreign
    /\ Show(v, v.addr, "own", rows)

\* Faulty variant: lookup_original where get_or_create is needed.
MapFlatLookup(v) ==
    /\ Flat(v)
    /\ ~Owns(v.addr)
    /\ foreign' = foreign \cup {v.addr}
    /\ Show(v, rows.flat[v.addr], "flat", rows)

MapFlat(v) ==
    /\ Flat(v)
    /\ ~Owns(v.addr)
    /\ foreign' = foreign \cup {v.addr}
    /\ \E f \in Draw(rows.flat, v.addr, Token) :
           Show(v, f[v.addr], "flat", [rows EXCEPT !.flat = f])

Joined(v, n, h) ==
    Show(v, <<n[v.addr[1]], h[v.addr[2]]>>, "subnet",
         [rows EXCEPT !.net = n, !.host = h])

\* Faulty variant: an address that has a flat row is shown by it.
MapSubnetFlatFirst(v) ==
    /\ ~Flat(v)
    /\ UNCHANGED foreign
    /\ IF rows.flat[v.addr] # None
       THEN Show(v, rows.flat[v.addr], "subnet", rows)
       ELSE \E n \in Draw(rows.net, v.addr[1], PNets),
               h \in Draw(rows.host, v.addr[2], Octets) : Joined(v, n, h)

\* pseudo_ipv4_subnet: neither asks whether the address is a pseudonym, nor
\* whether the joined pseudonym is the flat one of another address.
MapSubnet(v) ==
    /\ ~Flat(v)
    /\ UNCHANGED foreign
    /\ \E n \in Draw(rows.net, v.addr[1], PNets),
          h \in Draw(rows.host, v.addr[2], Octets) : Joined(v, n, h)

-------------------------------------------------------------------------------
(* The sweep *)

\* sweep_known on the finished text: every word that is an original of the kind
\* ipv4 is replaced by its pseudonym, pseudonyms that were foreign once included.
Sweep(t) == IF rows.flat[t] # None THEN rows.flat[t] ELSE t

-------------------------------------------------------------------------------
(* Requests *)

\* Addresses of the customer and pseudonyms of earlier exports.
Material == Customer \cup {e.token : e \in exported}

\* Only columns and fields can be ip_strict.
Open(values, mode, text) ==
    /\ ~busy
    /\ asked + Cardinality(values) <= MaxValues
    /\ text => \A v \in values : ~v.strict
    /\ busy' = TRUE
    /\ asked' = asked + Cardinality(values)
    /\ todo' = values
    /\ subnet' = mode
    /\ sweeps' = text
    /\ UNCHANGED <<rows, saved, foreign, output, exported>>

Close ==
    /\ busy' = FALSE
    /\ todo' = {}
    /\ foreign' = {}
    /\ output' = {}
    /\ UNCHANGED <<subnet, sweeps, asked>>

\* What is delivered for e.
Delivered(e) ==
    IF sweeps /\ Sweep(e.token) # e.token
    THEN [e EXCEPT !.token = Sweep(e.token), !.swept = TRUE]
    ELSE e

\* The vault is committed and the output delivered.
Export ==
    /\ busy
    /\ todo = {}
    /\ saved' = rows
    /\ exported' = exported \cup {Delivered(e) : e \in output}
    /\ Close
    /\ UNCHANGED rows

RollBack ==
    /\ busy
    /\ rows' = saved
    /\ Close
    /\ UNCHANGED <<saved, exported>>

\* PseudonymSpaceExhausted: no synthetic network is left for a new /24.
Exhausted(v) ==
    /\ ~Flat(v)
    /\ Draw(rows.net, v.addr[1], PNets) = {}
    /\ RollBack

\* The request fails or is refused for another reason.
Fail == RollBack

Next ==
    \/ \E n \in 1..(MaxValues - asked), mode, text \in BOOLEAN :
       \E values \in kSubset(n, [addr : Material, strict : BOOLEAN]) :
           Open(values, mode, text)
    \/ \E v \in todo : \/ PassOwnToken(v)
                       \/ MapFlat(v)
                       \/ MapSubnet(v)
                       \/ Exhausted(v)
    \/ Export
    \/ Fail

Spec == Init /\ [][Next]_vars

-------------------------------------------------------------------------------
(* Properties *)

\* The pseudonym that stood where e stands before the sweep.
BeforeSweep(e) == IF e.swept THEN Originals(saved, e.token) ELSE {e.token}

\* A flat pseudonym resolves to its address for ever, whatever joined ones come
\* to look like it.  A joined pseudonym resolves to its address unless a flat
\* row has the same pseudonym, and then to that row's address only.  What the
\* sweep put in the place of a pseudonym resolves to that pseudonym.
Resolves ==
    \A e \in exported : \E t \in Token :
        /\ BeforeSweep(e) = {t}
        /\ CASE e.way = "flat"   -> Originals(saved, t) = {e.addr}
             [] e.way = "subnet" -> Originals(saved, t) \in
                                        {{e.addr}, FlatHolders(saved, t)}
             [] e.way = "own"    -> Cardinality(Originals(saved, t)) = 1

\* As long as a tenant keeps to one way, addresses never share a pseudonym,
\* the sweep aside.
ApartWithinWay ==
    \A d, e \in exported :
        d.way = e.way /\ d.token = e.token /\ ~d.swept /\ ~e.swept
            => d.addr = e.addr

\* Subnet mode keeps the grouping, across exports and after exhaustion: two
\* addresses show the same /24 exactly if they are of the same /24.
SubnetsKept ==
    \A d, e \in exported :
        /\ d.way = "subnet" /\ ~d.swept
        /\ e.way = "subnet" /\ ~e.swept
        => (d.token[1] = e.token[1] <=> d.addr[1] = e.addr[1])

\* A flat pseudonym that comes back in a later request and is mapped flat stays
\* as it is: it never gets a pseudonym of its own.
FlatReanonymized ==
    \A d \in exported, e \in output :
        d.way = "flat" /\ e.addr = d.token => e.way # "flat"

\* logmask.py:164-168 and 981-983: two real addresses never get one synthetic
\* address, a silent merge of two machines.  The code breaks it: a joined
\* pseudonym is never compared with the flat ones.
AddressesApart ==
    \A d, e \in exported :
        d.addr \in Customer /\ e.addr \in Customer /\ d.token = e.token
            => d.addr = e.addr

===============================================================================
