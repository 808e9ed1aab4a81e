---------------------------- MODULE HostNamesProofs ----------------------------
(****************************************************************************)
(* What holds of host tokens for every set of names, labels and documents.  *)
(* The inductive invariant says what a row may hold (RowsSound), that the   *)
(* committed rows are never contradicted by the request's (Extends), and    *)
(* that every pair put in an output is backed by a row (Backed).            *)
(****************************************************************************)
EXTENDS HostNames, FiniteSetTheorems, TLAPS

Table == [Names -> Token \cup {NoToken}]

\* The alias row of label n is the first label of the token of an FQDN that has it.
AliasOf(table, n, f) ==
    /\ n \in Shorts /\ Label[f] = n
    /\ table[f] = TokenOf(f)
    /\ table[n] = RootOf(TokenOf(f))

\* A row is empty, the name's own token, or an alias.
RowsSound(table) ==
    \A n \in Names : \/ table[n] \in {NoToken, TokenOf(n)}
                     \/ \E f \in Fqdns : AliasOf(table, n, f)

\* Rows are only ever added.
Extends(table, later) ==
    \A n \in Names : table[n] # NoToken => later[n] = table[n]

\* The short name of f, shown as the first label of the token of f.
LinkOf(table, p, f) ==
    Label[f] = p[1] /\ table[f] = TokenOf(f) /\ p[2] = RootOf(TokenOf(f))

\* The pair p can be reversed with this table.
Backed(table, p) ==
    /\ p[1] \in Fqdns => table[p[1]] = p[2] /\ p[2] = TokenOf(p[1])
    /\ p[1] \in Shorts => \/ table[p[1]] = p[2]
                          \/ \E f \in Fqdns : LinkOf(table, p, f)
    /\ p[1] \in Names => p[2] \in Token
    /\ p[1] \in Token => p[2] = p[1]
    /\ p[2] \in Token => Owns(table, p[2])

\* In the document, a short name with one candidate shows that candidate's label.
LinkedInv ==
    doc # NoDoc =>
        \A q \in output :
            q[1] \in Shorts /\ Cardinality(Candidates(q[1])) = 1
            => \E f \in Candidates(q[1]) : q[2] = RootOf(TokenOf(f))

IInv ==
    /\ TypeOK
    /\ RowsSound(rows) /\ RowsSound(saved) /\ Extends(saved, rows)
    /\ \A p \in output : Backed(rows, p)
    /\ \A p \in exported : Backed(saved, p)
    /\ \A t \in todo \cap Token : Owns(rows, t)
    /\ doc = NoDoc => todo = {} /\ output = {}
    /\ LinkedInv

-------------------------------------------------------------------------------
(* Tokens and tables *)

\* TokenOf is injective, and so is RootOf after it.
LEMMA TokenFacts ==
    ASSUME NEW n \in Names
    PROVE  /\ TokenOf(n) \in Token /\ TokenOf(n).tag = n
           /\ TokenOf(n).dotted = (n \in Fqdns)
           /\ RootOf(TokenOf(n)) \in Token /\ RootOf(TokenOf(n)).tag = n
           /\ RootOf(TokenOf(n)).dotted = FALSE
           /\ TokenOf(n) # NoToken /\ RootOf(TokenOf(n)) # NoToken
  <1>1. (n \in Fqdns) \in BOOLEAN
    OBVIOUS
  <1>2. /\ TokenOf(n) \in Token /\ TokenOf(n).tag = n
        /\ TokenOf(n).dotted = (n \in Fqdns)
    BY <1>1 DEF TokenOf, Token
  <1>3. /\ RootOf(TokenOf(n)) \in Token /\ RootOf(TokenOf(n)).tag = n
        /\ RootOf(TokenOf(n)).dotted = FALSE
    BY <1>2 DEF RootOf, Token
  <1>. QED
    BY <1>2, <1>3, HostNamesAssumption

\* A later table owns what an earlier one does.
LEMMA OwnsExtends ==
    ASSUME NEW table \in Table, NEW later \in Table, Extends(table, later),
           NEW t, Owns(table, t)
    PROVE  Owns(later, t)
  <1>1. PICK n \in Names : \/ table[n] = t
                           \/ table[n] # NoToken /\ ~t.dotted /\ RootOf(table[n]) = t
    BY DEF Owns
  <1>2. table[n] # NoToken /\ t \in Token
    BY <1>1, HostNamesAssumption DEF Owns
  <1>. QED
    BY <1>1, <1>2 DEF Owns, Extends

\* A later table backs what an earlier one does.
LEMMA BackedExtends ==
    ASSUME NEW table \in Table, NEW later \in Table, Extends(table, later),
           NEW p, Backed(table, p)
    PROVE  Backed(later, p)
  <1>1. p[1] \in Fqdns => later[p[1]] = p[2]
    BY TokenFacts DEF Backed, Extends, Names
  <1>2. p[1] \in Shorts => \/ later[p[1]] = p[2]
                           \/ \E f \in Fqdns : LinkOf(later, p, f)
    <2>1. CASE p[1] \in Shorts /\ table[p[1]] = p[2]
      BY <2>1, HostNamesAssumption DEF Backed, Extends, Names
    <2>2. ASSUME NEW f \in Fqdns, LinkOf(table, p, f) PROVE LinkOf(later, p, f)
      BY <2>2, TokenFacts DEF LinkOf, Extends, Names
    <2>. QED
      BY <2>1, <2>2 DEF Backed
  <1>3. p[2] \in Token => Owns(later, p[2])
    BY OwnsExtends DEF Backed
  <1>. QED
    BY <1>1, <1>2, <1>3 DEF Backed

\* get_or_create adds at most the name's own row.
LEMMA GetOrCreateFacts ==
    ASSUME NEW table \in Table, RowsSound(table), NEW n \in Names
    PROVE  /\ GetOrCreate(table, n) \in Table /\ RowsSound(GetOrCreate(table, n))
           /\ Extends(table, GetOrCreate(table, n))
           /\ GetOrCreate(table, n)[n] \in Token
           /\ n \in Fqdns => GetOrCreate(table, n)[n] = TokenOf(n)
  <1>1. CASE table[n] # NoToken
    <2>1. n \in Fqdns => table[n] = TokenOf(n)
      BY <1>1, HostNamesAssumption DEF RowsSound, AliasOf, Names
    <2>. QED
      BY <1>1, <2>1 DEF GetOrCreate, Extends, Table
  <1>2. CASE table[n] = NoToken
    <2> DEFINE new == [table EXCEPT ![n] = TokenOf(n)]
    <2>1. GetOrCreate(table, n) = new
      BY <1>2 DEF GetOrCreate
    <2>2. new \in Table /\ new[n] = TokenOf(n) /\ \A m \in Names : m # n => new[m] = table[m]
      BY TokenFacts DEF Table
    <2> HIDE DEF new
    <2>3. Extends(table, new)
      BY <1>2, <2>2 DEF Extends
    <2>4. ASSUME NEW m \in Names, NEW f \in Fqdns, m # n, AliasOf(table, m, f)
          PROVE  AliasOf(new, m, f)
      BY <1>2, <2>2, <2>4, TokenFacts DEF AliasOf, Names
    <2>5. RowsSound(new)
      BY <2>2, <2>4 DEF RowsSound
    <2>. QED
      BY <2>1, <2>2, <2>3, <2>5, TokenFacts
  <1>. QED
    BY <1>1, <1>2

\* register_alias adds at most the alias of the label.
LEMMA RegisterAliasFacts ==
    ASSUME NEW table \in Table, RowsSound(table), NEW f \in Fqdns, table[f] = TokenOf(f)
    PROVE  /\ RegisterAlias(table, f) \in Table /\ RowsSound(RegisterAlias(table, f))
           /\ Extends(table, RegisterAlias(table, f))
           /\ RegisterAlias(table, f)[f] = TokenOf(f)
  <1> DEFINE s == Label[f]
             new == [table EXCEPT ![s] = RootOf(table[f])]
  <1>0. s \in Shorts /\ s \in Names /\ f \in Names /\ f # s
    BY HostNamesAssumption DEF Names
  <1>1. CASE RegisterAlias(table, f) = table
    BY <1>1 DEF Extends
  <1>2. CASE RegisterAlias(table, f) = new /\ table[s] = NoToken
    <2>1. /\ new \in Table /\ new[s] = RootOf(TokenOf(f))
          /\ \A m \in Names : m # s => new[m] = table[m]
      BY <1>0, TokenFacts DEF Table
    <2> HIDE DEF new
    <2>2. Extends(table, new)
      BY <1>2, <2>1 DEF Extends
    <2>3. ASSUME NEW m \in Names, NEW g \in Fqdns, m # s, AliasOf(table, m, g)
          PROVE  AliasOf(new, m, g)
      BY <1>2, <2>1, <2>3, TokenFacts DEF AliasOf, Names
    <2>4. AliasOf(new, s, f)
      BY <1>0, <2>1 DEF AliasOf
    <2>5. RowsSound(new)
      BY <2>1, <2>3, <2>4 DEF RowsSound
    <2>. QED
      BY <1>0, <1>2, <2>1, <2>2, <2>5
  <1>. QED
    BY <1>1, <1>2 DEF RegisterAlias

\* Mapping an FQDN: its row, then the alias of its label.
LEMMA FqdnFacts ==
    ASSUME NEW table \in Table, RowsSound(table), NEW f \in Fqdns, NEW new,
           new = RegisterAlias(GetOrCreate(table, f), f)
    PROVE  /\ new \in Table /\ RowsSound(new) /\ Extends(table, new)
           /\ new[f] = TokenOf(f)
  <1> DEFINE mid == GetOrCreate(table, f)
  <1>1. /\ mid \in Table /\ RowsSound(mid) /\ Extends(table, mid)
        /\ mid[f] = TokenOf(f)
    BY GetOrCreateFacts DEF Names
  <1> HIDE DEF mid
  <1>2. /\ RegisterAlias(mid, f) \in Table /\ RowsSound(RegisterAlias(mid, f))
        /\ Extends(mid, RegisterAlias(mid, f))
        /\ RegisterAlias(mid, f)[f] = TokenOf(f)
    BY <1>1, RegisterAliasFacts
  <1>3. new = RegisterAlias(mid, f)
    BY DEF mid
  <1>. QED
    BY <1>1, <1>2, <1>3 DEF Extends

-------------------------------------------------------------------------------
(* Steps *)

\* A value mapped with sound rows that back its pair preserves the invariant.
LEMMA ProduceKeeps ==
    ASSUME IInv, NEW v, NEW t \in Shown, NEW table \in Table,
           RowsSound(table), Extends(rows, table), Backed(table, <<v, t>>),
           (v \in Shorts /\ Cardinality(Candidates(v)) = 1)
               => \E f \in Candidates(v) : t = RootOf(TokenOf(f)),
           Produce(v, t, table)
    PROVE  IInv'
  <1>1. /\ v \in todo /\ todo' = todo \ {v} /\ rows' = table
        /\ output' = output \cup {<<v, t>>}
        /\ saved' = saved /\ doc' = doc /\ exported' = exported /\ docs' = docs
    BY DEF Produce
  <1>2. rows \in Table /\ saved \in Table /\ v \in Values
    BY <1>1 DEF IInv, TypeOK, Table
  <1>3. TypeOK'
    BY <1>1, <1>2 DEF IInv, TypeOK, Table
  <1>4. Extends(saved', rows')
    BY <1>1, <1>2 DEF IInv, Extends, Table
  <1>5. ASSUME NEW p \in output' PROVE Backed(table, p)
    <2>1. CASE p \in output
      <3>1. Backed(rows, p)
        BY <2>1 DEF IInv
      <3>. QED
        BY <1>2, <3>1, BackedExtends
    <2>. QED
      BY <1>1, <2>1
  <1>6. ASSUME NEW u \in todo' \cap Token PROVE Owns(table, u)
    <2>1. Owns(rows, u)
      BY <1>1 DEF IInv
    <2>. QED
      BY <1>2, <2>1, OwnsExtends
  <1>7. LinkedInv'
    <2>1. SUFFICES ASSUME doc # NoDoc, NEW q \in output', q[1] \in Shorts,
                          Cardinality(Candidates(q[1])) = 1
                   PROVE  \E f \in Candidates(q[1]) : q[2] = RootOf(TokenOf(f))
      BY <1>1 DEF LinkedInv, Candidates
    <2>2. CASE q = <<v, t>>
      BY <2>1, <2>2
    <2>3. CASE q \in output
      BY <2>1, <2>3 DEF IInv, LinkedInv
    <2>. QED
      BY <1>1, <2>2, <2>3
  <1>8. (doc = NoDoc => todo = {} /\ output = {})'
    BY <1>1 DEF IInv
  <1>9. RowsSound(rows') /\ RowsSound(saved') /\ \A p \in exported' : Backed(saved', p)
    BY <1>1 DEF IInv
  <1>. QED
    BY <1>1, <1>3, <1>4, <1>5, <1>6, <1>7, <1>8, <1>9 DEF IInv

LEMMA PassOwnTokenKeeps ==
    ASSUME IInv, NEW v \in todo, PassOwnToken(v)
    PROVE  IInv'
  <1>1. Owns(rows, v) /\ Produce(v, v, rows) /\ v \in Token
    BY DEF PassOwnToken, Owns
  <1>2. rows \in Table /\ RowsSound(rows) /\ Extends(rows, rows)
    BY DEF IInv, TypeOK, Table, Extends
  <1>3. v \notin Names
    BY <1>1, HostNamesAssumption
  <1>4. Backed(rows, <<v, v>>)
    BY <1>1, <1>3 DEF Backed, Names
  <1>. QED
    BY <1>1, <1>2, <1>3, <1>4, ProduceKeeps DEF Shown, Names

LEMMA MaskUnknownKeeps ==
    ASSUME IInv, NEW v \in todo, MaskUnknown(v)
    PROVE  IInv'
  <1>1. v \in Token \cup Foreign /\ ~Owns(rows, v) /\ Produce(v, Masked, rows)
    BY DEF MaskUnknown
  <1>2. rows \in Table /\ RowsSound(rows) /\ Extends(rows, rows)
    BY DEF IInv, TypeOK, Table, Extends
  <1>3. v \notin Token /\ v \notin Names
    BY <1>1, HostNamesAssumption DEF IInv
  <1>4. Backed(rows, <<v, Masked>>)
    BY <1>3, HostNamesAssumption DEF Backed, Names
  <1>. QED
    BY <1>1, <1>2, <1>3, <1>4, ProduceKeeps DEF Shown, Names

LEMMA MapFqdnKeeps ==
    ASSUME IInv, NEW v \in todo, MapFqdn(v)
    PROVE  IInv'
  <1>1. PICK table : /\ table = RegisterAlias(GetOrCreate(rows, v), v)
                     /\ v \in Fqdns /\ Produce(v, table[v], table)
    BY DEF MapFqdn
  <1>2. rows \in Table /\ RowsSound(rows)
    BY DEF IInv, TypeOK, Table
  <1>3. /\ table \in Table /\ RowsSound(table) /\ Extends(rows, table)
        /\ table[v] = TokenOf(v)
    BY <1>1, <1>2, FqdnFacts
  <1>4. v \in Names /\ v \notin Shorts /\ v \notin Token /\ TokenOf(v) \in Token
    BY <1>1, HostNamesAssumption, TokenFacts DEF Names
  <1>5. Owns(table, TokenOf(v))
    BY <1>3, <1>4 DEF Owns
  <1>6. Backed(table, <<v, table[v]>>)
    BY <1>1, <1>3, <1>4, <1>5 DEF Backed
  <1>. QED
    BY <1>1, <1>3, <1>4, <1>6, ProduceKeeps DEF Shown

LEMMA MapLinkedShortKeeps ==
    ASSUME IInv, NEW v \in todo, MapLinkedShort(v)
    PROVE  IInv'
  <1>1. PICK f \in Candidates(v) :
            Produce(v, RootOf(RegisterAlias(GetOrCreate(rows, f), f)[f]),
                    RegisterAlias(GetOrCreate(rows, f), f))
    BY DEF MapLinkedShort
  <1>2. PICK table : table = RegisterAlias(GetOrCreate(rows, f), f)
    OBVIOUS
  <1>3. rows \in Table /\ RowsSound(rows) /\ v \in Shorts
    BY DEF IInv, TypeOK, Table, MapLinkedShort
  <1>4. f \in Fqdns /\ Label[f] = v
    BY <1>1 DEF Candidates
  <1>5. /\ table \in Table /\ RowsSound(table) /\ Extends(rows, table)
        /\ table[f] = TokenOf(f)
    BY <1>2, <1>3, <1>4, FqdnFacts
  <1> DEFINE t == RootOf(TokenOf(f))
  <1>6. Produce(v, t, table)
    BY <1>1, <1>2, <1>5
  <1>7. /\ v \in Names /\ v \notin Fqdns /\ v \notin Token
        /\ f \in Names /\ TokenOf(f) \in Token /\ TokenOf(f) # NoToken
        /\ t \in Token /\ ~t.dotted
    BY <1>3, <1>4, HostNamesAssumption, TokenFacts DEF Names
  <1>8. Owns(table, t)
    BY <1>5, <1>7 DEF Owns
  <1>9. LinkOf(table, <<v, t>>, f)
    BY <1>4, <1>5 DEF LinkOf
  <1>10. Backed(table, <<v, t>>)
    <2> HIDE DEF t
    <2>. QED
      BY <1>4, <1>7, <1>8, <1>9 DEF Backed
  <1>11. t \in Shown
    BY <1>7 DEF Shown
  <1>. QED
    BY <1>1, <1>5, <1>6, <1>10, <1>11, ProduceKeeps

LEMMA MapPlainShortKeeps ==
    ASSUME IInv, NEW v \in todo, MapPlainShort(v)
    PROVE  IInv'
  <1>1. PICK table : /\ table = GetOrCreate(rows, v)
                     /\ v \in Shorts /\ Cardinality(Candidates(v)) # 1
                     /\ Produce(v, table[v], table)
    BY DEF MapPlainShort
  <1>2. rows \in Table /\ RowsSound(rows)
    BY DEF IInv, TypeOK, Table
  <1>3. v \in Names /\ v \notin Fqdns /\ v \notin Token
    BY <1>1, HostNamesAssumption DEF Names
  <1>4. /\ table \in Table /\ RowsSound(table) /\ Extends(rows, table)
        /\ table[v] \in Token
    BY <1>1, <1>2, <1>3, GetOrCreateFacts
  <1>5. Owns(table, table[v])
    BY <1>3, <1>4 DEF Owns
  <1>6. Backed(table, <<v, table[v]>>)
    BY <1>3, <1>4, <1>5 DEF Backed
  <1>. QED
    BY <1>1, <1>4, <1>6, ProduceKeeps DEF Shown

\* A document may hold tokens, but only tokens of earlier exports.
LEMMA OpenKeeps ==
    ASSUME IInv, NEW values \in SUBSET Material, NEW linked \in BOOLEAN, Open(values, linked)
    PROVE  IInv'
  <1>1. /\ doc = NoDoc /\ docs < MaxDocs /\ docs' = docs + 1
        /\ doc' = [values |-> values, linked |-> linked] /\ todo' = values /\ output' = {}
        /\ rows' = rows /\ saved' = saved /\ exported' = exported
    BY DEF Open
  <1>2. values \subseteq Values
    BY DEF Material, Values, IInv, TypeOK, Shown
  <1>3. TypeOK'
    <2>1. docs' \in 0..MaxDocs
      BY <1>1, HostNamesAssumption DEF IInv, TypeOK
    <2>2. doc' \in [values : SUBSET Values, linked : BOOLEAN]
      BY <1>1, <1>2
    <2>. QED
      BY <1>1, <1>2, <2>1, <2>2 DEF IInv, TypeOK
  <1>4. ASSUME NEW t \in values \cap Token PROVE Owns(rows, t)
    <2>1. PICK p \in exported : t = p[2]
      BY HostNamesAssumption DEF Material
    <2>2. Owns(saved, t)
      BY <2>1 DEF IInv, Backed
    <2>. QED
      BY <2>2, OwnsExtends DEF IInv, TypeOK, Table
  <1>5. LinkedInv'
    BY <1>1 DEF LinkedInv
  <1>6. doc' # NoDoc
    BY <1>1, <1>2, HostNamesAssumption DEF Values
  <1>. QED
    BY <1>1, <1>3, <1>4, <1>5, <1>6 DEF IInv

\* The commit makes the rows that back the output permanent.
LEMMA ExportKeeps ==
    ASSUME IInv, Export
    PROVE  IInv'
  <1>1. /\ saved' = rows /\ exported' = exported \cup output /\ doc' = NoDoc
        /\ output' = {} /\ rows' = rows /\ todo' = {} /\ docs' = docs
    BY DEF Export
  <1>2. TypeOK'
    BY <1>1 DEF IInv, TypeOK
  <1>3. ASSUME NEW p \in exported' PROVE Backed(rows, p)
    <2>1. CASE p \in exported
      <3>1. Backed(saved, p)
        BY <2>1 DEF IInv
      <3>. QED
        BY <3>1, BackedExtends DEF IInv, TypeOK, Table
    <2>. QED
      BY <1>1, <2>1 DEF IInv
  <1>4. Extends(rows, rows)
    BY DEF Extends
  <1>5. LinkedInv'
    BY <1>1 DEF LinkedInv
  <1>. QED
    BY <1>1, <1>2, <1>3, <1>4, <1>5 DEF IInv

\* A roll-back returns to rows that back every export.
LEMMA FailKeeps ==
    ASSUME IInv, Fail
    PROVE  IInv'
  <1>1. /\ rows' = saved /\ doc' = NoDoc /\ todo' = {} /\ output' = {}
        /\ saved' = saved /\ exported' = exported /\ docs' = docs
    BY DEF Fail
  <1>2. TypeOK'
    BY <1>1 DEF IInv, TypeOK
  <1>3. Extends(saved, saved)
    BY DEF Extends
  <1>4. LinkedInv'
    BY <1>1 DEF LinkedInv
  <1>. QED
    BY <1>1, <1>2, <1>3, <1>4 DEF IInv

LEMMA InitIInv == Init => IInv
  <1> SUFFICES ASSUME Init PROVE IInv
    OBVIOUS
  <1>1. TypeOK
    BY HostNamesAssumption DEF Init, TypeOK
  <1>2. RowsSound(rows) /\ RowsSound(saved) /\ Extends(saved, rows)
    BY DEF Init, RowsSound, Extends
  <1>. QED
    BY <1>1, <1>2 DEF Init, IInv, LinkedInv

LEMMA NextIInv == IInv /\ [Next]_vars => IInv'
  <1> SUFFICES ASSUME IInv, [Next]_vars PROVE IInv'
    OBVIOUS
  <1>1. CASE UNCHANGED vars
    <2>1. /\ TypeOK' /\ LinkedInv'
          /\ (\A t \in todo \cap Token : Owns(rows, t))'
      BY <1>1 DEF vars, IInv, TypeOK, LinkedInv, Candidates
    <2>. QED
      BY <1>1, <2>1 DEF vars, IInv
  <1>2. ASSUME NEW v \in todo, \/ PassOwnToken(v) \/ MaskUnknown(v) \/ MapFqdn(v)
                               \/ MapLinkedShort(v) \/ MapPlainShort(v)
        PROVE  IInv'
    BY <1>2, PassOwnTokenKeeps, MaskUnknownKeeps, MapFqdnKeeps, MapLinkedShortKeeps,
       MapPlainShortKeeps
  <1>. QED
    BY <1>1, <1>2, OpenKeeps, ExportKeeps, FailKeeps DEF Next

\* The invariant holds throughout.
THEOREM Invariance == Spec => []IInv
  BY InitIInv, NextIInv, PTL DEF Spec

\* Every variable keeps its type, the pairs put in outputs included.
THEOREM TypesHold == Spec => []TypeOK
  <1>1. IInv => TypeOK
    BY DEF IInv
  <1>. QED
    BY <1>1, Invariance, PTL

-------------------------------------------------------------------------------
(* What the rows say of an exported token *)

\* A row that is there is dotted and the name's own, or is tagged with the name
\* or with an FQDN it is the label of.
LEMMA RowTag ==
    ASSUME NEW table \in Table, RowsSound(table), NEW m \in Names, table[m] # NoToken
    PROVE  \/ table[m] = TokenOf(m) /\ table[m].tag = m /\ table[m].dotted = (m \in Fqdns)
           \/ /\ ~table[m].dotted
              /\ table[m].tag \in Fqdns /\ Label[table[m].tag] = m /\ m \in Shorts
  <1>1. CASE table[m] = TokenOf(m)
    BY <1>1, TokenFacts
  <1>2. CASE \E f \in Fqdns : AliasOf(table, m, f)
    <2>1. PICK f \in Fqdns : AliasOf(table, m, f)
      BY <1>2
    <2>2. RootOf(TokenOf(f)).tag = f /\ RootOf(TokenOf(f)).dotted = FALSE
      BY TokenFacts DEF Names
    <2>. QED
      BY <2>1, <2>2 DEF AliasOf
  <1>. QED
    BY <1>1, <1>2 DEF RowsSound

\* Only the name itself has the row of a name's token.
LEMMA HoldersOfToken ==
    ASSUME NEW table \in Table, RowsSound(table), NEW n \in Names, table[n] = TokenOf(n)
    PROVE  Originals(table, TokenOf(n)) = {n}
  <1>0. TokenOf(n).tag = n /\ TokenOf(n).dotted = (n \in Fqdns) /\ TokenOf(n) # NoToken
    BY TokenFacts
  <1>1. ASSUME NEW m \in Names, table[m] = TokenOf(n) PROVE m = n
    <2>1. \/ table[m].tag = m
          \/ table[m].tag \in Fqdns /\ ~table[m].dotted
      BY <1>0, <1>1, RowTag
    <2>2. CASE table[m].tag \in Fqdns /\ ~table[m].dotted
      BY <1>0, <1>1, <2>2
    <2>. QED
      BY <1>0, <1>1, <2>1, <2>2
  <1>2. Holders(table, TokenOf(n)) = {n}
    BY <1>1 DEF Holders
  <1>. QED
    BY <1>2 DEF Originals

\* The first label of the token of f resolves to the short name that is its
\* label, when that has the alias row, and to f otherwise.
LEMMA HoldersOfRoot ==
    ASSUME NEW table \in Table, RowsSound(table), NEW f \in Fqdns, table[f] = TokenOf(f)
    PROVE  Originals(table, RootOf(TokenOf(f))) \in {{f}, {Label[f]}}
  <1> DEFINE t == RootOf(TokenOf(f))
  <1>0. f \in Names /\ Label[f] \in Shorts /\ f \notin Shorts
    BY HostNamesAssumption DEF Names
  <1>9. t.tag = f /\ ~t.dotted /\ t # NoToken
    BY <1>0, TokenFacts
  <1>1. ASSUME NEW m \in Names, table[m] = t PROVE m = Label[f]
    <2>1. \/ table[m].tag = m /\ table[m].dotted = (m \in Fqdns)
          \/ Label[table[m].tag] = m
      BY <1>9, <1>1, RowTag
    <2>2. CASE table[m].tag = m /\ table[m].dotted = (m \in Fqdns)
      BY <1>0, <1>9, <1>1, <2>2
    <2>. QED
      BY <1>9, <1>1, <2>1, <2>2
  <1>2. CASE Holders(table, t) # {}
    BY <1>1, <1>2 DEF Holders, Originals
  <1>3. CASE Holders(table, t) = {}
    <2>1. ASSUME NEW m \in Names, table[m] # NoToken, table[m].dotted, RootOf(table[m]) = t
          PROVE  m = f
      <3>1. table[m] = TokenOf(m)
        BY <2>1, RowTag
      <3>2. RootOf(TokenOf(m)).tag = m
        BY TokenFacts
      <3>. QED
        BY <1>9, <2>1, <3>1, <3>2
    <2>2. f \in Continuations(table, t)
      BY <1>0, TokenFacts DEF Continuations
    <2>3. Continuations(table, t) = {f}
      BY <2>1, <2>2 DEF Continuations
    <2>4. Cardinality(Continuations(table, t)) = 1
      BY <2>3, FS_Singleton
    <2>. QED
      BY <1>3, <2>3, <2>4 DEF Originals
  <1>. QED
    BY <1>2, <1>3

\* Deanonymizer: the token exported for a host name resolves, and never to a
\* host that is neither it nor an FQDN it is the label of.
THEOREM TokensResolve == Spec => []ResolvesToHost
  <1>1. IInv => ResolvesToHost
    <2> SUFFICES ASSUME IInv, NEW p \in exported, p[1] \in Names
                 PROVE  /\ Originals(saved, p[2]) # {}
                        /\ \A n \in Originals(saved, p[2]) :
                               n = p[1] \/ (n \in Fqdns /\ Label[n] = p[1])
      BY DEF ResolvesToHost
    <2>1. saved \in Table /\ RowsSound(saved) /\ Backed(saved, p)
      BY DEF IInv, TypeOK, Table
    <2>2. CASE saved[p[1]] = p[2] /\ p[2] = TokenOf(p[1])
      <3>1. Originals(saved, p[2]) = {p[1]}
        BY <2>1, <2>2, HoldersOfToken
      <3>. QED
        BY <3>1
    <2>3. ASSUME NEW f \in Fqdns, Label[f] = p[1], saved[f] = TokenOf(f),
                 p[2] = RootOf(TokenOf(f))
          PROVE  Originals(saved, p[2]) \in {{f}, {p[1]}}
      BY <2>1, <2>3, HoldersOfRoot
    <2>4. ASSUME NEW f \in Fqdns, AliasOf(saved, p[1], f), saved[p[1]] = p[2]
          PROVE  Originals(saved, p[2]) \in {{f}, {p[1]}}
      BY <2>3, <2>4 DEF AliasOf
    <2>5. ASSUME NEW f \in Fqdns, LinkOf(saved, p, f)
          PROVE  Originals(saved, p[2]) \in {{f}, {p[1]}}
      BY <2>3, <2>5 DEF LinkOf
    <2>6. \/ saved[p[1]] = p[2] /\ p[2] = TokenOf(p[1])
          \/ \E f \in Fqdns : AliasOf(saved, p[1], f) /\ saved[p[1]] = p[2]
          \/ \E f \in Fqdns : LinkOf(saved, p, f)
      BY <2>1, HostNamesAssumption DEF Backed, RowsSound, Names
    <2>7. CASE \E f \in Fqdns : \/ AliasOf(saved, p[1], f) /\ saved[p[1]] = p[2]
                                \/ LinkOf(saved, p, f)
      <3>1. PICK f \in Fqdns : \/ AliasOf(saved, p[1], f) /\ saved[p[1]] = p[2]
                               \/ LinkOf(saved, p, f)
        BY <2>7
      <3>2. Originals(saved, p[2]) \in {{f}, {p[1]}}
        BY <3>1, <2>4, <2>5
      <3>3. Label[f] = p[1]
        BY <3>1 DEF AliasOf, LinkOf
      <3>. QED
        BY <3>2, <3>3
    <2>. QED
      BY <2>2, <2>6, <2>7
  <1>. QED
    BY <1>1, Invariance, PTL

\* Anonymizer._map: a token of this vault that comes back in a document is left
\* as it is, whether it has a row of its own or only continues into one.
THEOREM TokensPassThrough == Spec => []ReanonymizedUnchanged
  <1>1. IInv => ReanonymizedUnchanged
    BY DEF IInv, ReanonymizedUnchanged, Backed
  <1>. QED
    BY <1>1, Invariance, PTL

\* _resolve_bare_host: the short name with one candidate in the document shows
\* the first label of that candidate's token, in any order of the two.
THEOREM ShortNamesLinked == Spec => []LinkedInDocument
  <1>1. IInv => LinkedInDocument
    <2> SUFFICES ASSUME IInv, doc # NoDoc, NEW p \in output, NEW q \in output,
                        q[1] \in Shorts, Candidates(q[1]) = {p[1]}
                 PROVE  q[2] = RootOf(p[2])
      BY DEF LinkedInDocument
    <2>1. p[1] \in Fqdns
      BY DEF Candidates
    <2>2. p[2] = TokenOf(p[1])
      BY <2>1 DEF IInv, Backed
    <2>3. Cardinality(Candidates(q[1])) = 1
      BY FS_Singleton
    <2>. QED
      BY <2>2, <2>3 DEF IInv, LinkedInv
  <1>. QED
    BY <1>1, Invariance, PTL

===============================================================================
