------------------------------ MODULE Ipv4Proofs -------------------------------
(****************************************************************************)
(* What holds of IPv4 pseudonyms for every set of networks and octets, and  *)
(* any number of requests.  The inductive invariant says that no two rows   *)
(* of a kind share a pseudonym (Sound), that the committed rows are never   *)
(* contradicted (Grows), that every address shown is backed by rows         *)
(* (Backed), and that what a request found to be foreign is a pseudonym of  *)
(* no committed row.                                                        *)
(****************************************************************************)
EXTENDS Ipv4, FiniteSetTheorems, TLAPS

\* No two rows share a pseudonym.
Distinct(f, keys) == \A j, k \in keys : f[j] # None /\ f[j] = f[k] => j = k

Sound(table) ==
    /\ table \in Rows
    /\ Distinct(table.flat, Addr)
    /\ Distinct(table.net, Nets \cup PNets)
    /\ Distinct(table.host, Octets)

\* Rows are only ever added.
Kept(f, g, keys) == \A k \in keys : f[k] # None => g[k] = f[k]
Grows(table, later) ==
    /\ Kept(table.flat, later.flat, Addr)
    /\ Kept(table.net, later.net, Nets \cup PNets)
    /\ Kept(table.host, later.host, Octets)

\* The rows that made t the pseudonym shown for a.
Way(table, way, a, t) ==
    /\ t \in Token
    /\ way = "flat" => table.flat[a] = t
    /\ way = "subnet" => table.net[a[1]] = t[1] /\ table.host[a[2]] = t[2]
    /\ way = "own" => a = t /\ \E b \in Addr : table.flat[b] = t

Backed(table, e) ==
    \/ ~e.swept /\ Way(table, e.way, e.addr, e.token)
    \/ e.swept /\ \E t \in Token : Way(table, e.way, e.addr, t) /\ table.flat[t] = e.token

IInv ==
    /\ TypeOK
    /\ Sound(rows) /\ Sound(saved) /\ Grows(saved, rows)
    /\ \A e \in output : ~e.swept /\ Backed(rows, e)
    /\ \A e \in exported : Backed(saved, e)
    /\ \A e \in output : e.way = "flat" => e.addr \in foreign
    /\ \A a \in foreign, b \in Addr : saved.flat[b] # a
    /\ ~busy => todo = {} /\ output = {} /\ foreign = {}

-------------------------------------------------------------------------------
(* The vault's rows *)

LEMMA NoneApart ==
    None \notin PNets /\ None \notin Octets /\ None \notin Token /\ None \notin Addr
  BY Ipv4Assumption DEF Token, Addr

\* get_or_create adds at most one row, and its pseudonym is no other row's.
LEMMA DrawFacts ==
    ASSUME NEW keys, NEW pseudonyms, None \notin pseudonyms,
           NEW f \in [keys -> pseudonyms \cup {None}], Distinct(f, keys),
           NEW k \in keys, NEW g \in Draw(f, k, pseudonyms)
    PROVE  /\ g \in [keys -> pseudonyms \cup {None}]
           /\ Distinct(g, keys) /\ Kept(f, g, keys)
           /\ g[k] \in pseudonyms
  <1>1. CASE f[k] # None
    BY <1>1 DEF Draw, Kept
  <1>2. CASE f[k] = None
    <2>1. PICK p \in pseudonyms : g = [f EXCEPT ![k] = p] /\ \A j \in keys : f[j] # p
      BY <1>2 DEF Draw
    <2>2. /\ g \in [keys -> pseudonyms \cup {None}] /\ g[k] = p
          /\ \A j \in keys : j # k => g[j] = f[j]
      BY <2>1
    <2>3. Distinct(g, keys)
      BY <2>1, <2>2 DEF Distinct
    <2>4. Kept(f, g, keys)
      BY <1>2, <2>2 DEF Kept
    <2>. QED
      BY <2>2, <2>3, <2>4
  <1>. QED
    BY <1>1, <1>2

\* A later table has the ways of an earlier one.
LEMMA WayGrows ==
    ASSUME NEW table, NEW later, Grows(table, later),
           NEW way, NEW a \in Addr, NEW t, Way(table, way, a, t)
    PROVE  Way(later, way, a, t)
  <1>1. t \in Token /\ t # None /\ t[1] # None /\ t[2] # None
    BY NoneApart DEF Way, Token
  <1>2. a[1] \in Nets \cup PNets /\ a[2] \in Octets
    BY DEF Addr
  <1>3. way = "flat" => later.flat[a] = t
    BY <1>1 DEF Way, Grows, Kept
  <1>4. way = "subnet" => later.net[a[1]] = t[1] /\ later.host[a[2]] = t[2]
    BY <1>1, <1>2 DEF Way, Grows, Kept
  <1>5. way = "own" => a = t /\ \E b \in Addr : later.flat[b] = t
    BY <1>1 DEF Way, Grows, Kept
  <1>. QED
    BY <1>1, <1>3, <1>4, <1>5 DEF Way

\* A later table backs what an earlier one does.
LEMMA BackedGrows ==
    ASSUME NEW table, NEW later, Sound(table), Grows(table, later),
           NEW e \in Shown, Backed(table, e)
    PROVE  Backed(later, e)
  <1>0. e.addr \in Addr
    BY DEF Shown
  <1>1. CASE ~e.swept /\ Way(table, e.way, e.addr, e.token)
    BY <1>0, <1>1, WayGrows DEF Backed
  <1>2. ASSUME NEW t \in Token, e.swept, Way(table, e.way, e.addr, t),
               table.flat[t] = e.token
        PROVE  Backed(later, e)
    <2>1. t \in Addr
      BY DEF Token, Addr
    <2>2. e.token # None
      BY <1>2, NoneApart, Ipv4Assumption DEF Shown, Addr
    <2>3. later.flat[t] = e.token
      BY <1>2, <2>1, <2>2 DEF Grows, Kept
    <2>4. Way(later, e.way, e.addr, t)
      BY <1>0, <1>2, WayGrows
    <2>. QED
      BY <1>2, <2>3, <2>4 DEF Backed
  <1>. QED
    BY <1>1, <1>2 DEF Backed

-------------------------------------------------------------------------------
(* Steps *)

\* An address shown by sound rows that back it preserves the invariant.
LEMMA ShowKeeps ==
    ASSUME IInv, NEW v \in Values, NEW t, NEW way \in {"flat", "subnet", "own"}, NEW table,
           Sound(table), Grows(rows, table), Way(table, way, v.addr, t),
           foreign' = foreign \/ foreign' = foreign \cup {v.addr},
           way = "flat" => v.addr \in foreign',
           \A a \in foreign', b \in Addr : saved.flat[b] # a,
           v \in todo, Show(v, t, way, table)
    PROVE  IInv'
  <1> DEFINE e == [addr |-> v.addr, token |-> t, way |-> way, swept |-> FALSE]
  <1>1. /\ rows' = table /\ output' = output \cup {e} /\ todo' = todo \ {v}
        /\ saved' = saved /\ subnet' = subnet /\ sweeps' = sweeps
        /\ exported' = exported /\ asked' = asked /\ busy' = busy
    BY DEF Show
  <1>2. /\ e \in Shown /\ ~e.swept /\ e.way = way /\ e.addr = v.addr /\ e.token = t
        /\ v.addr \in Addr
    BY DEF Values, Shown, Way
  <1> HIDE DEF e
  <1>3. TypeOK'
    BY <1>1, <1>2 DEF IInv, TypeOK, Sound
  <1>4. Grows(saved, table)
    <2>1. /\ saved.flat \in [Addr -> Token \cup {None}]
          /\ saved.net \in [Nets \cup PNets -> PNets \cup {None}]
          /\ saved.host \in [Octets -> Octets \cup {None}]
      BY DEF IInv, Sound, Rows
    <2>. QED
      BY <2>1 DEF IInv, Grows, Kept
  <1>5. ASSUME NEW d \in output' PROVE ~d.swept /\ Backed(table, d)
    <2>1. CASE d \in output
      <3>1. Backed(rows, d) /\ ~d.swept /\ d \in Shown
        BY <2>1 DEF IInv, TypeOK
      <3>. QED
        BY <3>1, BackedGrows DEF IInv
    <2>2. CASE d = e
      BY <1>2, <2>2 DEF Backed
    <2>. QED
      BY <1>1, <2>1, <2>2
  <1>6. ASSUME NEW d \in output', d.way = "flat" PROVE d.addr \in foreign'
    BY <1>1, <1>2, <1>6 DEF IInv
  <1>7. busy'
    BY <1>1 DEF IInv, TypeOK
  <1>8. /\ Sound(rows') /\ Sound(saved') /\ Grows(saved', rows')
        /\ \A d \in output' : ~d.swept /\ Backed(rows', d)
        /\ \A d \in exported' : Backed(saved', d)
        /\ \A a \in foreign', b \in Addr : saved'.flat[b] # a
    BY <1>1, <1>4, <1>5 DEF IInv
  <1>. QED
    BY <1>3, <1>6, <1>7, <1>8 DEF IInv

\* Rows as they are grow into themselves.
LEMMA GrowsSelf == \A table : Grows(table, table)
  BY DEF Grows, Kept

LEMMA PassOwnTokenKeeps ==
    ASSUME IInv, NEW v \in todo, PassOwnToken(v)
    PROVE  IInv'
  <1>1. PICK b \in Addr : rows.flat[b] = v.addr
    BY DEF PassOwnToken, Owns
  <1>2. v \in Values /\ v.addr \in Addr /\ rows.flat \in [Addr -> Token \cup {None}]
    BY DEF IInv, TypeOK, Values, Sound, Rows
  <1>3. v.addr \in Token
    BY <1>1, <1>2, NoneApart
  <1>4. Way(rows, "own", v.addr, v.addr)
    BY <1>1, <1>3 DEF Way
  <1>5. foreign' = foreign /\ Show(v, v.addr, "own", rows)
    BY DEF PassOwnToken
  <1>6. Sound(rows) /\ Grows(rows, rows) /\ \A a \in foreign', c \in Addr : saved.flat[c] # a
    BY <1>5, GrowsSelf DEF IInv
  <1>. QED
    BY <1>2, <1>4, <1>5, <1>6, ShowKeeps

\* An address that has a pseudonym of its own, or gets one now, and is no
\* pseudonym itself.
LEMMA MapFlatKeeps ==
    ASSUME IInv, NEW v \in todo, MapFlat(v)
    PROVE  IInv'
  <1>1. PICK f \in Draw(rows.flat, v.addr, Token) :
            Show(v, f[v.addr], "flat", [rows EXCEPT !.flat = f])
    BY DEF MapFlat
  <1>2. /\ foreign' = foreign \cup {v.addr} /\ v.addr \in foreign'
        /\ ~Owns(v.addr)
    BY DEF MapFlat
  <1>3. /\ v \in Values /\ v.addr \in Addr
        /\ rows \in Rows /\ rows.flat \in [Addr -> Token \cup {None}]
        /\ Distinct(rows.flat, Addr)
    BY DEF IInv, TypeOK, Values, Sound, Rows
  <1>4. /\ f \in [Addr -> Token \cup {None}] /\ Distinct(f, Addr)
        /\ Kept(rows.flat, f, Addr) /\ f[v.addr] \in Token
    BY <1>1, <1>3, DrawFacts, NoneApart
  <1>5. PICK table : table = [rows EXCEPT !.flat = f]
    OBVIOUS
  <1>6. /\ table \in Rows /\ table.flat = f
        /\ table.net = rows.net /\ table.host = rows.host
    BY <1>3, <1>4, <1>5 DEF Rows
  <1>7. Sound(table) /\ Grows(rows, table)
    BY <1>4, <1>6 DEF IInv, Sound, Grows, Kept
  <1>8. Way(table, "flat", v.addr, f[v.addr])
    BY <1>4, <1>6 DEF Way
  <1>9. ASSUME NEW a \in foreign', NEW b \in Addr PROVE saved.flat[b] # a
    <2>1. CASE a \in foreign
      BY <2>1 DEF IInv
    <2>2. CASE a = v.addr /\ v.addr \notin foreign
      <3>1. rows.flat[b] # a
        BY <1>2, <2>2 DEF Owns
      <3>2. saved.flat[b] # None => rows.flat[b] = saved.flat[b]
        BY DEF IInv, Grows, Kept
      <3>. QED
        BY <1>3, <2>2, <3>1, <3>2, NoneApart
    <2>. QED
      BY <1>2, <2>1, <2>2
  <1>. QED
    BY <1>1, <1>2, <1>3, <1>5, <1>7, <1>8, <1>9, ShowKeeps

\* The two rows of an address, and the pseudonym they make together.
LEMMA MapSubnetKeeps ==
    ASSUME IInv, NEW v \in todo, MapSubnet(v)
    PROVE  IInv'
  <1>1. PICK n \in Draw(rows.net, v.addr[1], PNets), h \in Draw(rows.host, v.addr[2], Octets) :
            Joined(v, n, h)
    BY DEF MapSubnet
  <1>2. foreign' = foreign
    BY DEF MapSubnet
  <1>3. /\ v \in Values /\ v.addr \in Addr
        /\ v.addr[1] \in Nets \cup PNets /\ v.addr[2] \in Octets
        /\ rows \in Rows
        /\ rows.net \in [Nets \cup PNets -> PNets \cup {None}]
        /\ rows.host \in [Octets -> Octets \cup {None}]
        /\ Distinct(rows.net, Nets \cup PNets) /\ Distinct(rows.host, Octets)
    BY DEF IInv, TypeOK, Values, Sound, Rows, Addr
  <1>4. /\ n \in [Nets \cup PNets -> PNets \cup {None}] /\ Distinct(n, Nets \cup PNets)
        /\ Kept(rows.net, n, Nets \cup PNets) /\ n[v.addr[1]] \in PNets
    <2>1. PICK a \in Nets \cup PNets : a = v.addr[1]
      BY <1>3
    <2>2. n \in Draw(rows.net, a, PNets) /\ None \notin PNets
      BY <1>1, <2>1, NoneApart
    <2>3. /\ n \in [Nets \cup PNets -> PNets \cup {None}] /\ Distinct(n, Nets \cup PNets)
          /\ Kept(rows.net, n, Nets \cup PNets) /\ n[a] \in PNets
      BY <1>3, <2>2, DrawFacts
    <2>. QED
      BY <2>1, <2>3
  <1>5. /\ h \in [Octets -> Octets \cup {None}] /\ Distinct(h, Octets)
        /\ Kept(rows.host, h, Octets) /\ h[v.addr[2]] \in Octets
    <2>1. PICK a \in Octets : a = v.addr[2]
      BY <1>3
    <2>2. h \in Draw(rows.host, a, Octets) /\ None \notin Octets
      BY <1>1, <2>1, NoneApart
    <2>3. /\ h \in [Octets -> Octets \cup {None}] /\ Distinct(h, Octets)
          /\ Kept(rows.host, h, Octets) /\ h[a] \in Octets
      BY <1>3, <2>2, DrawFacts
    <2>. QED
      BY <2>1, <2>3
  <1>6. PICK table : table = [rows EXCEPT !.net = n, !.host = h]
    OBVIOUS
  <1>7. /\ table \in Rows /\ table.flat = rows.flat
        /\ table.net = n /\ table.host = h
    BY <1>3, <1>4, <1>5, <1>6 DEF Rows
  <1>8. Sound(table) /\ Grows(rows, table)
    BY <1>4, <1>5, <1>7 DEF IInv, Sound, Grows, Kept
  <1>9. PICK t : t = <<n[v.addr[1]], h[v.addr[2]]>>
    OBVIOUS
  <1>10. t \in Token /\ t[1] = n[v.addr[1]] /\ t[2] = h[v.addr[2]]
    BY <1>4, <1>5, <1>9 DEF Token
  <1>11. Way(table, "subnet", v.addr, t)
    BY <1>7, <1>10 DEF Way
  <1>12. Show(v, t, "subnet", table)
    BY <1>1, <1>6, <1>9 DEF Joined
  <1>13. \A a \in foreign', b \in Addr : saved.flat[b] # a
    BY <1>2 DEF IInv
  <1>. QED
    BY <1>2, <1>3, <1>8, <1>11, <1>12, <1>13, ShowKeeps

LEMMA OpenKeeps ==
    ASSUME IInv, NEW n \in 1..(MaxValues - asked), NEW mode \in BOOLEAN, NEW text \in BOOLEAN,
           NEW values \in kSubset(n, [addr : Material, strict : BOOLEAN]),
           Open(values, mode, text)
    PROVE  IInv'
  <1>1. /\ values \subseteq [addr : Material, strict : BOOLEAN] /\ Cardinality(values) = n
    BY DEF kSubset
  <1>2. Material \subseteq Addr
    BY DEF Material, Customer, Addr, IInv, TypeOK, Shown, Token
  <1>3. values \subseteq Values
    BY <1>1, <1>2 DEF Values
  <1>4. /\ ~busy /\ busy' = TRUE /\ asked' = asked + n /\ todo' = values
        /\ subnet' = mode /\ sweeps' = text /\ rows' = rows /\ saved' = saved
        /\ foreign' = foreign /\ output' = output /\ exported' = exported
    BY <1>1 DEF Open
  <1>5. asked' \in 0..MaxValues
    BY <1>4, Ipv4Assumption DEF IInv, TypeOK
  <1>6. TypeOK'
    BY <1>3, <1>4, <1>5 DEF IInv, TypeOK
  <1>. QED
    BY <1>4, <1>6 DEF IInv

\* What the sweep delivers is backed by the row of the pseudonym it replaced.
LEMMA DeliveredBacked ==
    ASSUME IInv, NEW e \in output
    PROVE  Delivered(e) \in Shown /\ Backed(rows, Delivered(e))
  <1>1. e \in Shown /\ ~e.swept /\ Way(rows, e.way, e.addr, e.token)
    BY DEF IInv, TypeOK, Backed
  <1>2. CASE Delivered(e) = e
    BY <1>1, <1>2 DEF IInv
  <1>3. CASE Delivered(e) # e
    <2> DEFINE d == [e EXCEPT !.token = Sweep(e.token), !.swept = TRUE]
    <2>1. Delivered(e) = d /\ Sweep(e.token) # e.token
      BY <1>3 DEF Delivered
    <2>2. e.token \in Addr /\ e.token \in Token
      BY <1>1 DEF Shown, Token, Addr
    <2>3. rows.flat[e.token] = Sweep(e.token) /\ Sweep(e.token) \in Token
      BY <2>1, <2>2 DEF Sweep, IInv, Sound, Rows
    <2>4. /\ d \in Shown /\ d.swept /\ d.way = e.way /\ d.addr = e.addr
          /\ d.token = Sweep(e.token)
      BY <1>1, <2>3 DEF Shown
    <2> HIDE DEF d
    <2>5. Backed(rows, d)
      BY <1>1, <2>2, <2>3, <2>4 DEF Backed
    <2>. QED
      BY <2>1, <2>4, <2>5
  <1>. QED
    BY <1>2, <1>3

LEMMA ExportKeeps ==
    ASSUME IInv, Export
    PROVE  IInv'
  <1>1. /\ saved' = rows /\ rows' = rows /\ busy' = FALSE /\ todo' = {} /\ foreign' = {}
        /\ output' = {} /\ exported' = exported \cup {Delivered(e) : e \in output}
        /\ subnet' = subnet /\ sweeps' = sweeps /\ asked' = asked
    BY DEF Export, Close
  <1>2. ASSUME NEW d \in exported' PROVE d \in Shown /\ Backed(rows, d)
    <2>1. CASE d \in exported
      <3>1. d \in Shown /\ Backed(saved, d) /\ Sound(saved) /\ Grows(saved, rows)
        BY <2>1 DEF IInv, TypeOK
      <3>. QED
        BY <3>1, BackedGrows
    <2>2. ASSUME NEW e \in output, d = Delivered(e) PROVE d \in Shown /\ Backed(rows, d)
      BY <2>2, DeliveredBacked
    <2>. QED
      BY <1>1, <2>1, <2>2
  <1>3. exported' \in SUBSET Shown
    BY <1>2
  <1>4. TypeOK'
    BY <1>1, <1>3 DEF IInv, TypeOK
  <1>. QED
    BY <1>1, <1>2, <1>4, GrowsSelf DEF IInv

LEMMA RollBackKeeps ==
    ASSUME IInv, RollBack
    PROVE  IInv'
  <1>1. /\ rows' = saved /\ saved' = saved /\ exported' = exported /\ busy' = FALSE
        /\ todo' = {} /\ foreign' = {} /\ output' = {}
        /\ subnet' = subnet /\ sweeps' = sweeps /\ asked' = asked
    BY DEF RollBack, Close
  <1>2. TypeOK'
    BY <1>1 DEF IInv, TypeOK
  <1>. QED
    BY <1>1, <1>2, GrowsSelf DEF IInv

LEMMA InitIInv == Init => IInv
  <1> SUFFICES ASSUME Init PROVE IInv
    OBVIOUS
  <1>1. EmptyRows \in Rows
    BY DEF EmptyRows, Rows
  <1>2. Sound(EmptyRows)
    BY <1>1 DEF EmptyRows, Sound, Distinct
  <1>3. TypeOK
    <2>1. asked \in 0..MaxValues
      BY Ipv4Assumption DEF Init
    <2>. QED
      BY <1>1, <2>1 DEF Init, TypeOK
  <1>. QED
    BY <1>2, <1>3, GrowsSelf DEF Init, IInv

LEMMA NextIInv == IInv /\ [Next]_vars => IInv'
  <1> SUFFICES ASSUME IInv, [Next]_vars PROVE IInv'
    OBVIOUS
  <1>1. CASE UNCHANGED vars
    <2>1. TypeOK'
      BY <1>1 DEF vars, IInv, TypeOK
    <2>. QED
      BY <1>1, <2>1 DEF vars, IInv
  <1>2. ASSUME NEW v \in todo, PassOwnToken(v) \/ MapFlat(v) \/ MapSubnet(v) \/ Exhausted(v)
        PROVE  IInv'
    BY <1>2, PassOwnTokenKeeps, MapFlatKeeps, MapSubnetKeeps, RollBackKeeps DEF Exhausted
  <1>3. CASE Export \/ Fail
    BY <1>3, ExportKeeps, RollBackKeeps DEF Fail
  <1>. QED
    BY <1>1, <1>2, <1>3, OpenKeeps DEF Next

\* The invariant holds throughout.
THEOREM Invariance == Spec => []IInv
  BY InitIInv, NextIInv, PTL DEF Spec

\* Every variable keeps its type; what is delivered is always a pseudonym.
THEOREM TypesHold == Spec => []TypeOK
  <1>1. IInv => TypeOK
    BY DEF IInv
  <1>. QED
    BY <1>1, Invariance, PTL

-------------------------------------------------------------------------------
(* What the rows say of an exported pseudonym *)

\* A flat pseudonym resolves to the address whose row it is, whatever the
\* network and octet rows say.
LEMMA FlatResolves ==
    ASSUME NEW table, Sound(table), NEW a \in Addr, NEW t \in Token, table.flat[a] = t
    PROVE  Originals(table, t) = {a} /\ FlatHolders(table, t) = {a}
  <1>1. FlatHolders(table, t) = {a}
    BY NoneApart DEF FlatHolders, Sound, Distinct
  <1>. QED
    BY <1>1 DEF Originals

\* A joined pseudonym resolves to its address, unless it is a flat one too.
LEMMA JoinedResolves ==
    ASSUME NEW table, Sound(table), NEW a \in Addr, NEW t \in Token,
           table.net[a[1]] = t[1], table.host[a[2]] = t[2]
    PROVE  Originals(table, t) \in {{a}, FlatHolders(table, t)}
  <1>1. t[1] # None /\ t[2] # None
    BY NoneApart DEF Token
  <1>2. ASSUME NEW b \in Addr, table.net[b[1]] = t[1], table.host[b[2]] = t[2]
        PROVE  b = a
    <2>1. b[1] = a[1]
      BY <1>1, <1>2 DEF Sound, Distinct, Addr
    <2>2. b[2] = a[2]
      BY <1>1, <1>2 DEF Sound, Distinct, Addr
    <2>. QED
      BY <2>1, <2>2 DEF Addr
  <1>3. JoinedHolders(table, t) = {a}
    BY <1>2 DEF JoinedHolders
  <1>. QED
    BY <1>3 DEF Originals

\* Deanonymizer._sub: every pseudonym delivered resolves, to its own address
\* or, joined ones only, to the address whose flat pseudonym looks the same.
THEOREM PseudonymsResolve == Spec => []Resolves
  <1>1. IInv => Resolves
    <2> SUFFICES ASSUME IInv, NEW e \in exported
                 PROVE  \E t \in Token :
                          /\ BeforeSweep(e) = {t}
                          /\ CASE e.way = "flat"   -> Originals(saved, t) = {e.addr}
                               [] e.way = "subnet" -> Originals(saved, t) \in
                                                          {{e.addr}, FlatHolders(saved, t)}
                               [] e.way = "own"    -> Cardinality(Originals(saved, t)) = 1
      BY DEF Resolves
    <2>1. /\ e.addr \in Addr /\ e.token \in Token /\ e.way \in {"flat", "subnet", "own"}
          /\ Sound(saved) /\ Backed(saved, e)
      BY DEF IInv, TypeOK, Shown
    <2>2. PICK t \in Token : Way(saved, e.way, e.addr, t) /\ BeforeSweep(e) = {t}
      <3>1. CASE ~e.swept /\ Way(saved, e.way, e.addr, e.token)
        BY <2>1, <3>1 DEF BeforeSweep
      <3>2. ASSUME NEW t \in Token, e.swept, Way(saved, e.way, e.addr, t),
                   saved.flat[t] = e.token
            PROVE  BeforeSweep(e) = {t}
        <4>1. t \in Addr
          BY DEF Token, Addr
        <4>2. Originals(saved, e.token) = {t}
          BY <2>1, <3>2, <4>1, FlatResolves
        <4>. QED
          BY <3>2, <4>2 DEF BeforeSweep
      <3>. QED
        BY <2>1, <3>1, <3>2 DEF Backed
    <2>3. CASE e.way = "flat"
      <3>1. Originals(saved, t) = {e.addr}
        BY <2>1, <2>2, <2>3, FlatResolves DEF Way
      <3>. QED
        BY <2>2, <2>3, <3>1
    <2>4. CASE e.way = "subnet"
      <3>1. Originals(saved, t) \in {{e.addr}, FlatHolders(saved, t)}
        BY <2>1, <2>2, <2>4, JoinedResolves DEF Way
      <3>. QED
        BY <2>2, <2>4, <3>1
    <2>5. CASE e.way = "own"
      <3>1. PICK b \in Addr : saved.flat[b] = t
        BY <2>2, <2>5 DEF Way
      <3>2. Originals(saved, t) = {b}
        BY <2>1, <3>1, FlatResolves
      <3>3. Cardinality(Originals(saved, t)) = 1
        BY <3>2, FS_Singleton
      <3>. QED
        BY <2>2, <2>5, <3>3
    <2>. QED
      BY <2>1, <2>3, <2>4, <2>5
  <1>. QED
    BY <1>1, Invariance, PTL

\* Vault.get_or_create: within one way of mapping, no two addresses ever share
\* a pseudonym, whichever requests showed them.
THEOREM WaysKeepApart == Spec => []ApartWithinWay
  <1>1. IInv => ApartWithinWay
    <2> SUFFICES ASSUME IInv, NEW d \in exported, NEW e \in exported,
                        d.way = e.way, d.token = e.token, ~d.swept, ~e.swept
                 PROVE  d.addr = e.addr
      BY DEF ApartWithinWay
    <2>1. /\ d.addr \in Addr /\ e.addr \in Addr
          /\ e.way \in {"flat", "subnet", "own"} /\ Sound(saved)
          /\ Way(saved, e.way, d.addr, e.token) /\ Way(saved, e.way, e.addr, e.token)
      BY DEF IInv, TypeOK, Shown, Backed
    <2>2. e.token # None /\ e.token[1] # None /\ e.token[2] # None
      BY <2>1, NoneApart DEF Way, Token
    <2>3. CASE e.way = "flat"
      BY <2>1, <2>2, <2>3 DEF Way, Sound, Distinct
    <2>4. CASE e.way = "subnet"
      <3>1. d.addr[1] = e.addr[1] /\ d.addr[2] = e.addr[2]
        BY <2>1, <2>2, <2>4 DEF Way, Sound, Distinct, Addr
      <3>. QED
        BY <2>1, <3>1 DEF Addr
    <2>5. CASE e.way = "own"
      BY <2>1, <2>5 DEF Way
    <2>. QED
      BY <2>1, <2>3, <2>4, <2>5
  <1>. QED
    BY <1>1, Invariance, PTL

\* pseudo_ipv4_subnet: the pseudonyms of two addresses share a network exactly
\* if the addresses do, across all exports of the tenant.
THEOREM GroupingKept == Spec => []SubnetsKept
  <1>1. IInv => SubnetsKept
    <2> SUFFICES ASSUME IInv, NEW d \in exported, NEW e \in exported,
                        d.way = "subnet", ~d.swept, e.way = "subnet", ~e.swept
                 PROVE  d.token[1] = e.token[1] <=> d.addr[1] = e.addr[1]
      BY DEF SubnetsKept
    <2>1. /\ d.addr[1] \in Nets \cup PNets /\ e.addr[1] \in Nets \cup PNets
          /\ d.token[1] # None
          /\ saved.net[d.addr[1]] = d.token[1] /\ saved.net[e.addr[1]] = e.token[1]
          /\ Distinct(saved.net, Nets \cup PNets)
      BY NoneApart DEF IInv, TypeOK, Shown, Backed, Way, Sound, Token, Addr
    <2>. QED
      BY <2>1 DEF Distinct
  <1>. QED
    BY <1>1, Invariance, PTL

\* Vault.owns: a request that maps a delivered flat pseudonym by the flat way
\* recognises it, whatever else it has looked up before.
THEOREM FlatPassesThrough == Spec => []FlatReanonymized
  <1>1. IInv => FlatReanonymized
    <2> SUFFICES ASSUME IInv, NEW d \in exported, NEW e \in output,
                        d.way = "flat", e.addr = d.token, e.way = "flat"
                 PROVE  FALSE
      BY DEF FlatReanonymized
    <2>1. e.addr \in foreign
      BY DEF IInv
    <2>2. \E b \in Addr : saved.flat[b] = d.token
      BY DEF IInv, TypeOK, Shown, Backed, Way, Token, Addr
    <2>. QED
      BY <2>1, <2>2 DEF IInv
  <1>. QED
    BY <1>1, Invariance, PTL

===============================================================================
