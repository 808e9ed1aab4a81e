----------------------------- MODULE VaultProofs ------------------------------
(****************************************************************************)
(* Theorems about Vault, for any names, pseudonyms, derivation, connections *)
(* and salts allowed by VaultAssumption.                                    *)
(****************************************************************************)
EXTENDS Vault, TLAPS

-------------------------------------------------------------------------------
(* The inductive invariant *)

Injective(table) ==
    \A m, n \in Names : table[m] # NoToken /\ table[m] = table[n] => m = n

\* What the open transaction sees keeps every committed row and adds to them;
\* without an open transaction there is nothing to add.
TableInv ==
    /\ Injective(dirty)
    /\ \A n \in Names : committed[n] # NoToken => dirty[n] = committed[n]
    /\ writer = NoConn => dirty = committed

\* A connection holds the write lock only between its first write and the
\* commit, and its program counter says what it is working on.
PositionOf(c) ==
    /\ pc[c] \in {"idle", "queued", "answer"} => writer # c
    /\ pc[c] = "queued" => c \in Web
    /\ pc[c] \in {"touch", "probe", "insert", "alias"} => cur[c] \in Names
    /\ pc[c] = "touch" => View(c)[cur[c]] # NoToken
    /\ pc[c] = "insert" => salt[c] < MaxSalt
    /\ pc[c] = "alias" => /\ Label[cur[c]] \in Names
                          /\ cache[c][cur[c]] # NoToken

PositionInv == \A c \in Conns : PositionOf(c)

\* The output of a connection agrees with the table it sees.
OutputBacked ==
    \A c \in Conns : \A n \in Names, t \in Tokens :
        <<n, t>> \in out[c] => View(c)[n] = t

\* Neither Reversible nor SkippedSaltsTaken is inductive by itself: a delivery
\* must find its rows committed, which OutputBacked and the closed transaction
\* of PositionOf give, and a salt skipped stays skipped
\* for cause only while the tables grow.
IInv ==
    /\ TypeOK
    /\ TableInv
    /\ PositionInv
    /\ CacheBacked
    /\ OutputBacked
    /\ Reversible
    /\ SkippedSaltsTaken

-------------------------------------------------------------------------------

\* Opening an empty vault establishes the inductive invariant.
LEMMA InitIInv == Init => IInv
  <1> SUFFICES ASSUME Init PROVE IInv
    OBVIOUS
  <1> USE VaultAssumption DEF Init
  <1>1. TypeOK
    BY DEF TypeOK, Table, Row, EmptyTable, Steps, Conns
  <1>2. TableInv
    BY DEF TableInv, Injective, EmptyTable
  <1>3. PositionInv
    BY DEF PositionInv, PositionOf
  <1>4. CacheBacked /\ OutputBacked /\ Reversible /\ SkippedSaltsTaken
    BY DEF CacheBacked, OutputBacked, Reversible, SkippedSaltsTaken, EmptyTable
  <1>. QED
    BY <1>1, <1>2, <1>3, <1>4 DEF IInv


\* A request's arrival preserves the inductive invariant.
LEMMA ArriveKeeps ==
    ASSUME IInv, NEW c \in Conns, Arrive(c)
    PROVE  IInv'
  <1> USE VaultAssumption DEF IInv, Arrive, store
  <1>1. TypeOK'
    BY DEF TypeOK, Table, Row, Steps, PositionInv, PositionOf, View, Conns
  <1>2. PositionInv'
    BY DEF PositionInv, PositionOf, TypeOK, Table, Row, View, TableInv
  <1>3. /\ TableInv' /\ CacheBacked' /\ OutputBacked'
        /\ Reversible' /\ SkippedSaltsTaken'
    BY DEF TableInv, Injective, CacheBacked, View, OutputBacked, Reversible,
       SkippedSaltsTaken, View, TokenFree, TypeOK, PositionInv, PositionOf
  <1>. QED
    BY <1>1, <1>2, <1>3 DEF IInv

\* Taking app.LOCK preserves the inductive invariant.
LEMMA AcquireKeeps ==
    ASSUME IInv, NEW c \in Conns, Acquire(c)
    PROVE  IInv'
  <1> USE VaultAssumption DEF IInv, Acquire, store
  <1>1. TypeOK'
    BY DEF TypeOK, Table, Row, Steps, PositionInv, PositionOf, View, Conns
  <1>2. PositionInv'
    BY DEF PositionInv, PositionOf, TypeOK, Table, Row, View, TableInv
  <1>3. /\ TableInv' /\ CacheBacked' /\ OutputBacked'
        /\ Reversible' /\ SkippedSaltsTaken'
    BY DEF TableInv, Injective, CacheBacked, View, OutputBacked, Reversible,
       SkippedSaltsTaken, View, TokenFree, TypeOK, PositionInv, PositionOf
  <1>. QED
    BY <1>1, <1>2, <1>3 DEF IInv

\* An answer from the cache of get_or_create preserves it: the cache is backed.
LEMMA CacheHitKeeps ==
    ASSUME IInv, NEW c \in Conns, NEW n \in Names, CacheHit(c, n)
    PROVE  IInv'
  <1> USE VaultAssumption DEF IInv, CacheHit, Emit, store
  <1>1. TypeOK'
    BY DEF TypeOK, Table, Row, Steps, PositionInv, PositionOf, View, Conns
  <1>2. PositionInv'
    BY DEF PositionInv, PositionOf, TypeOK, Table, Row, View, TableInv
  <1>3. CacheBacked'
    BY DEF CacheBacked, TypeOK, Table, Row, View, TableInv, PositionInv,
       PositionOf
  <1>4. OutputBacked'
    BY DEF OutputBacked, CacheBacked, TableInv, TypeOK, Table, Row, PositionInv,
       PositionOf, View, Conns
  <1>5. TableInv' /\ Reversible' /\ SkippedSaltsTaken'
    BY DEF TableInv, Injective, Reversible, SkippedSaltsTaken, View, TokenFree,
       TypeOK, PositionInv, PositionOf
  <1>. QED
    BY <1>1, <1>2, <1>3, <1>4, <1>5 DEF IInv

\* The first SELECT of get_or_create preserves it: the salt starts at 0.
LEMMA SelectRowKeeps ==
    ASSUME IInv, NEW c \in Conns, NEW n \in Names, SelectRow(c, n)
    PROVE  IInv'
  <1> USE VaultAssumption DEF IInv, SelectRow, store
  <1>1. TypeOK'
    BY DEF TypeOK, Table, Row, Steps, PositionInv, PositionOf, View, Conns
  <1>2. PositionInv'
    BY DEF PositionInv, PositionOf, TypeOK, Table, Row, View, TableInv
  <1>3. SkippedSaltsTaken'
    BY DEF SkippedSaltsTaken, TypeOK, Table, Row, View, TokenFree, Candidate,
       TableInv, PositionInv, PositionOf, Salts
  <1>4. TableInv' /\ CacheBacked' /\ OutputBacked' /\ Reversible'
    BY DEF TableInv, Injective, CacheBacked, View, OutputBacked, Reversible
  <1>. QED
    BY <1>1, <1>2, <1>3, <1>4 DEF IInv

\* Counting a hit preserves it, although it opens a transaction.
LEMMA TouchRowKeeps ==
    ASSUME IInv, NEW c \in Conns, TouchRow(c)
    PROVE  IInv'
  <1> USE VaultAssumption DEF IInv, TouchRow, Emit, CanWrite
  <1>1. TypeOK'
    BY DEF TypeOK, Table, Row, Steps, PositionInv, PositionOf, View, Conns
  <1>2. TableInv'
    BY DEF TableInv, Injective, TypeOK, Table, Row, TokenFree, View,
       PositionInv, PositionOf
  <1>3. PositionInv'
    BY DEF PositionInv, PositionOf, TypeOK, Table, Row, View, TableInv
  <1>4. CacheBacked'
    BY DEF CacheBacked, TypeOK, Table, Row, View, TableInv, PositionInv,
       PositionOf
  <1>5. OutputBacked'
    BY DEF OutputBacked, CacheBacked, TableInv, TypeOK, Table, Row, PositionInv,
       PositionOf, View, Conns
  <1>6. SkippedSaltsTaken'
    BY DEF SkippedSaltsTaken, TypeOK, Table, Row, View, TokenFree, Candidate,
       TableInv, PositionInv, PositionOf, Salts
  <1>7. Reversible'
    BY DEF Reversible
  <1>. QED
    BY <1>1, <1>2, <1>3, <1>4, <1>5, <1>6, <1>7 DEF IInv

\* Going on to the next salt preserves it: the one left is taken.
LEMMA ProbeTakenKeeps ==
    ASSUME IInv, NEW c \in Conns, ProbeTaken(c)
    PROVE  IInv'
  <1> USE VaultAssumption DEF IInv, ProbeTaken, Candidate, store
  <1>1. TypeOK'
    BY DEF TypeOK, Table, Row, Steps, PositionInv, PositionOf, View, Conns
  <1>2. PositionInv'
    BY DEF PositionInv, PositionOf, TypeOK, Table, Row, View, TableInv
  <1>3. SkippedSaltsTaken'
    BY DEF SkippedSaltsTaken, TypeOK, Table, Row, View, TokenFree, Candidate,
       TableInv, PositionInv, PositionOf, Salts
  <1>4. TableInv' /\ CacheBacked' /\ OutputBacked' /\ Reversible'
    BY DEF TableInv, Injective, CacheBacked, View, OutputBacked, Reversible
  <1>. QED
    BY <1>1, <1>2, <1>3, <1>4 DEF IInv

\* Finding a free candidate preserves it, whatever becomes of the candidate.
LEMMA ProbeFreeKeeps ==
    ASSUME IInv, NEW c \in Conns, ProbeFree(c)
    PROVE  IInv'
  <1> USE VaultAssumption DEF IInv, ProbeFree, store
  <1>1. TypeOK'
    BY DEF TypeOK, Table, Row, Steps, PositionInv, PositionOf, View, Conns
  <1>2. PositionInv'
    BY DEF PositionInv, PositionOf, TypeOK, Table, Row, View, TableInv
  <1>3. SkippedSaltsTaken'
    BY DEF SkippedSaltsTaken, TypeOK, Table, Row, View, TokenFree, Candidate,
       TableInv, PositionInv, PositionOf, Salts
  <1>4. TableInv' /\ CacheBacked' /\ OutputBacked' /\ Reversible'
    BY DEF TableInv, Injective, CacheBacked, View, OutputBacked, Reversible
  <1>. QED
    BY <1>1, <1>2, <1>3, <1>4 DEF IInv

\* The INSERT of get_or_create preserves it: the table stays injective.
LEMMA InsertRowKeeps ==
    ASSUME IInv, NEW c \in Conns, InsertRow(c)
    PROVE  IInv'
  <1> USE VaultAssumption DEF IInv, InsertRow, Emit, CanWrite
  <1>1. /\ cur[c] \in Names
        /\ Candidate(c) \in Tokens
        /\ Candidate(c) # NoToken
    BY DEF TypeOK, PositionInv, PositionOf, Candidate, Salts
  <1>2. /\ dirty' \in Table
        /\ cache' \in [Conns -> Table]
        /\ cache'[c][cur[c]] = Candidate(c)
    BY <1>1 DEF TypeOK, Table, Row
  <1>3. out' \in [Conns -> SUBSET (Names \X Tokens)]
    BY <1>1 DEF TypeOK
  <1>4. pc' \in [Conns -> Steps]
    BY DEF TypeOK, Steps
  <1>5. TypeOK'
    BY <1>2, <1>3, <1>4 DEF TypeOK
  <1>6. TableInv'
    BY <1>1 DEF TableInv, Injective, TypeOK, Table, TokenFree, View
  <1>7. ASSUME NEW d \in Conns PROVE PositionOf(d)'
    <2>1. CASE d = c
      BY <1>1, <1>2, <2>1 DEF PositionOf, TypeOK
    <2>2. CASE d # c
      BY <2>2 DEF PositionInv, PositionOf, TableInv, TypeOK, View
    <2>. QED
      BY <2>1, <2>2
  <1>8. PositionInv'
    BY <1>7 DEF PositionInv
  <1>9. CacheBacked'
    BY <1>1 DEF CacheBacked, TypeOK, Table, Row, View, TableInv
  <1>10. OutputBacked'
    <2>1. ASSUME NEW d \in Conns, NEW n \in Names, NEW t \in Tokens,
                 <<n, t>> \in out'[d]
          PROVE  View(d)'[n] = t
      <3>1. CASE <<n, t>> \in out[d]
        <4>1. View(d)[n] = t /\ t # NoToken
          BY <3>1 DEF OutputBacked
        <4>. QED
          BY <4>1 DEF View, TableInv, TypeOK, Table
      <3>2. CASE <<n, t>> \notin out[d]
        <4>1. d = c /\ n = cur[c] /\ t = Candidate(c)
          BY <1>2, <2>1, <3>2 DEF TypeOK
        <4>. QED
          BY <4>1 DEF View, TypeOK, Table
      <3>. QED
        BY <3>1, <3>2
    <2>. QED
      BY <2>1 DEF OutputBacked
  <1>11. SkippedSaltsTaken'
    BY DEF SkippedSaltsTaken, TypeOK, Table, Row, View, TokenFree, TableInv
  <1>12. Reversible'
    BY DEF Reversible
  <1>. QED
    BY <1>5, <1>6, <1>8, <1>9, <1>10, <1>11, <1>12 DEF IInv

\* Losing the race for a name preserves it: the re-read row is in the table.
LEMMA InsertSameNameKeeps ==
    ASSUME IInv, NEW c \in Conns, InsertSameName(c)
    PROVE  IInv'
  <1> USE VaultAssumption DEF IInv, InsertSameName, Emit, CanWrite
  <1>1. TypeOK'
    BY DEF TypeOK, Table, Row, Steps, PositionInv, PositionOf, View, Conns
  <1>2. TableInv'
    BY DEF TableInv, Injective, TypeOK, Table, Row, TokenFree, View,
       PositionInv, PositionOf
  <1>3. PositionInv'
    BY DEF PositionInv, PositionOf, TypeOK, Table, Row, View, TableInv
  <1>4. CacheBacked'
    BY DEF CacheBacked, TypeOK, Table, Row, View, TableInv, PositionInv,
       PositionOf
  <1>5. OutputBacked'
    BY DEF OutputBacked, CacheBacked, TableInv, TypeOK, Table, Row, PositionInv,
       PositionOf, View, Conns
  <1>6. SkippedSaltsTaken'
    BY DEF SkippedSaltsTaken, TypeOK, Table, Row, View, TokenFree, Candidate,
       TableInv, PositionInv, PositionOf, Salts
  <1>7. Reversible'
    BY DEF Reversible
  <1>. QED
    BY <1>1, <1>2, <1>3, <1>4, <1>5, <1>6, <1>7 DEF IInv

\* Losing the race for a pseudonym preserves it: the salt left is taken.
LEMMA InsertTokenTakenKeeps ==
    ASSUME IInv, NEW c \in Conns, InsertTokenTaken(c)
    PROVE  IInv'
  <1> USE VaultAssumption DEF IInv, InsertTokenTaken, CanWrite, Candidate
  <1>1. TypeOK'
    BY DEF TypeOK, Table, Row, Steps, PositionInv, PositionOf, View, Conns
  <1>2. TableInv'
    BY DEF TableInv, Injective, TypeOK, Table, Row, TokenFree, View,
       PositionInv, PositionOf
  <1>3. PositionInv'
    BY DEF PositionInv, PositionOf, TypeOK, Table, Row, View, TableInv
  <1>4. CacheBacked'
    BY DEF CacheBacked, TypeOK, Table, Row, View, TableInv, PositionInv,
       PositionOf
  <1>5. SkippedSaltsTaken'
    BY DEF SkippedSaltsTaken, TypeOK, Table, Row, View, TokenFree, Candidate,
       TableInv, PositionInv, PositionOf, Salts
  <1>6. OutputBacked' /\ Reversible'
    BY DEF OutputBacked, Reversible, View, TableInv, TypeOK
  <1>. QED
    BY <1>1, <1>2, <1>3, <1>4, <1>5, <1>6 DEF IInv

\* register_alias for a label in the cache preserves it.
LEMMA AliasCachedKeeps ==
    ASSUME IInv, NEW c \in Conns, AliasCached(c)
    PROVE  IInv'
  <1> USE VaultAssumption DEF IInv, AliasCached, store
  <1>1. TypeOK'
    BY DEF TypeOK, Table, Row, Steps, PositionInv, PositionOf, View, Conns
  <1>2. PositionInv'
    BY DEF PositionInv, PositionOf, TypeOK, Table, Row, View, TableInv
  <1>3. /\ TableInv' /\ CacheBacked' /\ OutputBacked'
        /\ Reversible' /\ SkippedSaltsTaken'
    BY DEF TableInv, Injective, CacheBacked, View, OutputBacked, Reversible,
       SkippedSaltsTaken, View, TokenFree, TypeOK, PositionInv, PositionOf
  <1>. QED
    BY <1>1, <1>2, <1>3 DEF IInv

\* The INSERT of register_alias preserves it: label and root were free.
LEMMA AliasAddedKeeps ==
    ASSUME IInv, NEW c \in Conns, AliasAdded(c)
    PROVE  IInv'
  <1> USE VaultAssumption DEF IInv, AliasAdded, CanWrite
  <1>1. TypeOK'
    BY DEF TypeOK, Table, Row, Steps, PositionInv, PositionOf, View, Conns
  <1>2. TableInv'
    BY DEF TableInv, Injective, TypeOK, Table, Row, TokenFree, View,
       PositionInv, PositionOf
  <1>3. PositionInv'
    BY DEF PositionInv, PositionOf, TypeOK, Table, Row, View, TableInv
  <1>4. CacheBacked'
    BY DEF CacheBacked, TypeOK, Table, Row, View, TableInv, PositionInv,
       PositionOf
  <1>5. OutputBacked'
    BY DEF OutputBacked, CacheBacked, TableInv, TypeOK, Table, Row, PositionInv,
       PositionOf, View, Conns
  <1>6. SkippedSaltsTaken'
    BY DEF SkippedSaltsTaken, TypeOK, Table, Row, View, TokenFree, Candidate,
       TableInv, PositionInv, PositionOf, Salts
  <1>7. Reversible'
    BY DEF Reversible
  <1>. QED
    BY <1>1, <1>2, <1>3, <1>4, <1>5, <1>6, <1>7 DEF IInv

\* A refused alias preserves it: the table does not change.
LEMMA AliasRefusedKeeps ==
    ASSUME IInv, NEW c \in Conns, AliasRefused(c)
    PROVE  IInv'
  <1> USE VaultAssumption DEF IInv, AliasRefused, CanWrite
  <1>1. TypeOK'
    BY DEF TypeOK, Table, Row, Steps, PositionInv, PositionOf, View, Conns
  <1>2. TableInv'
    BY DEF TableInv, Injective, TypeOK, Table, Row, TokenFree, View,
       PositionInv, PositionOf
  <1>3. PositionInv'
    BY DEF PositionInv, PositionOf, TypeOK, Table, Row, View, TableInv
  <1>4. CacheBacked'
    BY DEF CacheBacked, TypeOK, Table, Row, View, TableInv, PositionInv,
       PositionOf
  <1>5. SkippedSaltsTaken'
    BY DEF SkippedSaltsTaken, TypeOK, Table, Row, View, TokenFree, Candidate,
       TableInv, PositionInv, PositionOf, Salts
  <1>6. OutputBacked' /\ Reversible'
    BY DEF OutputBacked, Reversible, View, TableInv, TypeOK
  <1>. QED
    BY <1>1, <1>2, <1>3, <1>4, <1>5, <1>6 DEF IInv

\* A sweep preserves it: it only shows rows of the table it sees.
LEMMA SweepRowKeeps ==
    ASSUME IInv, NEW c \in Conns, NEW n \in Names, SweepRow(c, n)
    PROVE  IInv'
  <1> USE VaultAssumption DEF IInv, SweepRow, store
  <1>1. View(c)[n] \in Tokens
    BY DEF TypeOK, Table, Row, View
  <1>2. TypeOK'
    BY <1>1 DEF TypeOK, Table, Row
  <1>3. /\ TableInv' /\ PositionInv' /\ CacheBacked'
        /\ Reversible' /\ SkippedSaltsTaken'
    BY DEF TableInv, Injective, PositionInv, PositionOf, CacheBacked, View,
           Reversible, SkippedSaltsTaken, TokenFree, TypeOK
  <1>4. OutputBacked'
    BY <1>1 DEF OutputBacked, TypeOK, View
  <1>. QED
    BY <1>2, <1>3, <1>4 DEF IInv

\* Opening the transaction for a field's statistics preserves it.
LEMMA RegisterFieldKeeps ==
    ASSUME IInv, NEW c \in Conns, RegisterField(c)
    PROVE  IInv'
  <1> USE VaultAssumption DEF IInv, RegisterField, CanWrite
  <1>1. \A d \in Conns : View(d)' = View(d)
    BY DEF View, TableInv, Conns
  <1>2. TypeOK' /\ TableInv'
    BY DEF TypeOK, Table, Row, TableInv, Injective
  <1>3. PositionInv'
    BY <1>1 DEF PositionInv, PositionOf, TypeOK
  <1>4. CacheBacked' /\ OutputBacked' /\ Reversible' /\ SkippedSaltsTaken'
    BY <1>1 DEF CacheBacked, OutputBacked, Reversible, SkippedSaltsTaken,
               TokenFree
  <1>. QED
    BY <1>2, <1>3, <1>4 DEF IInv

\* The commit preserves it: committed becomes what the connection saw.
LEMMA CommitKeeps ==
    ASSUME IInv, NEW c \in Conns, Commit(c)
    PROVE  IInv'
  <1> USE VaultAssumption DEF IInv, Commit, CommitWork, store
  <1>1. TypeOK'
    BY DEF TypeOK, Table, Row, Steps, PositionInv, PositionOf, View, Conns
  <1>2. TableInv'
    BY DEF TableInv, Injective, TypeOK, Table, Row, TokenFree, View,
       PositionInv, PositionOf
  <1>3. PositionInv'
    BY DEF PositionInv, PositionOf, TypeOK, Table, Row, View, TableInv
  <1>4. CacheBacked'
    BY DEF CacheBacked, TypeOK, Table, Row, View, TableInv, PositionInv,
       PositionOf
  <1>5. Reversible'
    BY DEF Reversible, TypeOK, Table, Row, TableInv, CacheBacked, OutputBacked,
       PositionInv, PositionOf, View
  <1>6. SkippedSaltsTaken'
    <2> SUFFICES ASSUME NEW d \in Conns, pc[d] \in {"probe", "insert"}, d # c,
                        NEW s \in 0..(salt[d] - 1)
                 PROVE  ~TokenFree(View(d)', Prf[cur[d]][s])
      BY DEF SkippedSaltsTaken, TypeOK
    <2>1. Prf[cur[d]][s] # NoToken
      BY DEF TypeOK, PositionInv, PositionOf, Salts
    <2>2. ~TokenFree(View(d), Prf[cur[d]][s])
      BY DEF SkippedSaltsTaken
    <2>3. \A n \in Names : View(d)[n] # NoToken => View(d)'[n] = View(d)[n]
      BY DEF TableInv, View
    <2>. QED
      BY <2>1, <2>2, <2>3 DEF TokenFree
  <1>7. OutputBacked'
    BY DEF OutputBacked, View, TableInv, TypeOK
  <1>. QED
    BY <1>1, <1>2, <1>3, <1>4, <1>5, <1>6, <1>7 DEF IInv

\* A delivery preserves it: everything handed out is committed.
LEMMA DeliverKeeps ==
    ASSUME IInv, NEW c \in Conns, Deliver(c)
    PROVE  IInv'
  <1> USE VaultAssumption DEF IInv, Deliver, Discard, Deliveries, EmptyTable,
     store
  <1>1. TypeOK'
    <2>1. \A p \in out[c] : p[1] \in Names /\ p[2] \in Tokens
      BY DEF TypeOK
    <2>2. ASSUME NEW d \in delivered', d \notin delivered
          PROVE  d \in [name : Names, token : Tokens, early : BOOLEAN]
      <3>1. PICK p \in out[c] :
                     d = [name |-> p[1], token |-> p[2], early |-> FALSE]
        BY <2>2
      <3>. QED
        BY <2>1, <3>1
    <2>3. delivered' \subseteq [name : Names, token : Tokens, early : BOOLEAN]
      BY <2>2 DEF TypeOK
    <2>. QED
      BY <2>3 DEF TypeOK, Table, Row, Steps, Conns
  <1>2. PositionInv'
    BY DEF PositionInv, PositionOf, TypeOK, Table, Row, View, TableInv
  <1>3. CacheBacked'
    BY DEF CacheBacked, TypeOK, Table, Row, View, TableInv, PositionInv,
       PositionOf
  <1>4. OutputBacked'
    BY DEF OutputBacked, CacheBacked, TableInv, TypeOK, Table, Row, PositionInv,
       PositionOf, View, Conns
  <1>5. Reversible'
    BY DEF Reversible, TypeOK, Table, Row, TableInv, CacheBacked, OutputBacked,
       PositionInv, PositionOf, View
  <1>6. TableInv' /\ SkippedSaltsTaken'
    BY DEF TableInv, Injective, SkippedSaltsTaken, View, TokenFree, TypeOK,
       PositionInv, PositionOf
  <1>. QED
    BY <1>1, <1>2, <1>3, <1>4, <1>5, <1>6 DEF IInv

\* An answer that fails after the commit preserves it.
LEMMA WithholdKeeps ==
    ASSUME IInv, NEW c \in Conns, Withhold(c)
    PROVE  IInv'
  <1> USE VaultAssumption DEF IInv, Withhold, Discard, EmptyTable, store
  <1>1. TypeOK'
    BY DEF TypeOK, Table, Row, Steps, PositionInv, PositionOf, View, Conns
  <1>2. PositionInv'
    BY DEF PositionInv, PositionOf, TypeOK, Table, Row, View, TableInv
  <1>3. CacheBacked'
    BY DEF CacheBacked, TypeOK, Table, Row, View, TableInv, PositionInv,
       PositionOf
  <1>4. OutputBacked'
    BY DEF OutputBacked, CacheBacked, TableInv, TypeOK, Table, Row, PositionInv,
       PositionOf, View, Conns
  <1>5. TableInv' /\ Reversible' /\ SkippedSaltsTaken'
    BY DEF TableInv, Injective, Reversible, SkippedSaltsTaken, View, TokenFree,
       TypeOK, PositionInv, PositionOf
  <1>. QED
    BY <1>1, <1>2, <1>3, <1>4, <1>5 DEF IInv

\* The early output of anonymize-pst preserves it: Reversible excludes it.
LEMMA WriteEarlyKeeps ==
    ASSUME IInv, NEW c \in Conns, WriteEarly(c)
    PROVE  IInv'
  <1> USE VaultAssumption DEF IInv, WriteEarly, Deliveries, store
  <1>1. TypeOK'
    <2>1. \A p \in out[c] : p[1] \in Names /\ p[2] \in Tokens
      BY DEF TypeOK
    <2>2. ASSUME NEW d \in delivered', d \notin delivered
          PROVE  d \in [name : Names, token : Tokens, early : BOOLEAN]
      <3>1. PICK p \in out[c] :
                     d = [name |-> p[1], token |-> p[2], early |-> TRUE]
        BY <2>2
      <3>. QED
        BY <2>1, <3>1
    <2>3. delivered' \subseteq [name : Names, token : Tokens, early : BOOLEAN]
      BY <2>2 DEF TypeOK
    <2>. QED
      BY <2>3 DEF TypeOK, Table, Row, Steps, Conns
  <1>2. PositionInv'
    BY DEF PositionInv, PositionOf, TypeOK, Table, Row, View, TableInv
  <1>3. Reversible'
    BY DEF Reversible, TypeOK, Table, Row, TableInv, CacheBacked, OutputBacked,
       PositionInv, PositionOf, View
  <1>4. TableInv' /\ CacheBacked' /\ OutputBacked' /\ SkippedSaltsTaken'
    BY DEF TableInv, Injective, CacheBacked, View, OutputBacked,
       SkippedSaltsTaken, View, TokenFree, TypeOK, PositionInv, PositionOf
  <1>. QED
    BY <1>1, <1>2, <1>3, <1>4 DEF IInv

\* The late commit of anonymize-pst preserves it.
LEMMA CommitEarlyKeeps ==
    ASSUME IInv, NEW c \in Conns, CommitEarly(c)
    PROVE  IInv'
  <1> USE VaultAssumption DEF IInv, CommitEarly, CommitWork, Discard,
     EmptyTable, store
  <1>1. TypeOK'
    BY DEF TypeOK, Table, Row, Steps, PositionInv, PositionOf, View, Conns
  <1>2. TableInv'
    BY DEF TableInv, Injective, TypeOK, Table, Row, TokenFree, View,
       PositionInv, PositionOf
  <1>3. PositionInv'
    BY DEF PositionInv, PositionOf, TypeOK, Table, Row, View, TableInv
  <1>4. CacheBacked'
    BY DEF CacheBacked, TypeOK, Table, Row, View, TableInv, PositionInv,
       PositionOf
  <1>5. OutputBacked'
    BY DEF OutputBacked, CacheBacked, TableInv, TypeOK, Table, Row, PositionInv,
       PositionOf, View, Conns
  <1>6. Reversible'
    BY DEF Reversible, TypeOK, Table, Row, TableInv, CacheBacked, OutputBacked,
       PositionInv, PositionOf, View
  <1>7. SkippedSaltsTaken'
    <2> SUFFICES ASSUME NEW d \in Conns, pc[d] \in {"probe", "insert"}, d # c,
                        NEW s \in 0..(salt[d] - 1)
                 PROVE  ~TokenFree(View(d)', Prf[cur[d]][s])
      BY DEF SkippedSaltsTaken, TypeOK
    <2>1. Prf[cur[d]][s] # NoToken
      BY DEF TypeOK, PositionInv, PositionOf, Salts
    <2>2. ~TokenFree(View(d), Prf[cur[d]][s])
      BY DEF SkippedSaltsTaken
    <2>3. \A n \in Names : View(d)[n] # NoToken => View(d)'[n] = View(d)[n]
      BY DEF TableInv, View
    <2>. QED
      BY <2>1, <2>2, <2>3 DEF TokenFree
  <1>. QED
    BY <1>1, <1>2, <1>3, <1>4, <1>5, <1>6, <1>7 DEF IInv

\* Closing connections without a commit: an abort of one, a kill of several.
LEMMA RollBackKeeps ==
    ASSUME IInv, NEW S \in SUBSET Conns, RollBack(S), Discard(S),
           UNCHANGED <<delivered, served>>
    PROVE  IInv'
  <1> USE VaultAssumption DEF IInv, RollBack, Discard
  <1>1. TypeOK'
    BY DEF TypeOK, Table, Row, Steps, EmptyTable
  <1>2. TableInv'
    BY DEF TableInv, Injective
  <1>3. PositionInv'
    BY DEF PositionInv, PositionOf, TableInv, TypeOK, View
  <1>4. CacheBacked'
    BY DEF CacheBacked, TypeOK, Table, View, TableInv, EmptyTable
  <1>5. OutputBacked'
    BY DEF OutputBacked, TypeOK, View, TableInv
  <1>6. SkippedSaltsTaken'
    BY DEF SkippedSaltsTaken, TypeOK, View, TokenFree
  <1>7. Reversible'
    BY DEF Reversible
  <1>. QED
    BY <1>1, <1>2, <1>3, <1>4, <1>5, <1>6, <1>7 DEF IInv

\* A step that changes nothing preserves the inductive invariant.
LEMMA StutterKeeps == IInv /\ UNCHANGED vars => IInv'
  BY DEF IInv, vars, TypeOK, TableInv, Injective, PositionInv, PositionOf, View,
         CacheBacked, OutputBacked, Reversible, SkippedSaltsTaken, TokenFree

\* Every step of the vault's users preserves the inductive invariant.
LEMMA NextIInv == IInv /\ [Next]_vars => IInv'
  <1> SUFFICES ASSUME IInv, [Next]_vars PROVE IInv'
    OBVIOUS
  <1>1. ASSUME NEW c \in Conns, GetOrCreate(c) PROVE IInv'
    BY <1>1, CacheHitKeeps, SelectRowKeeps, TouchRowKeeps, ProbeTakenKeeps,
       ProbeFreeKeeps, InsertRowKeeps, InsertSameNameKeeps,
       InsertTokenTakenKeeps DEF GetOrCreate
  <1>2. ASSUME NEW c \in Conns, RegisterAlias(c) PROVE IInv'
    BY <1>2, AliasCachedKeeps, AliasAddedKeeps, AliasRefusedKeeps
       DEF RegisterAlias
  <1>6. ASSUME NEW c \in Conns, Around(c) PROVE IInv'
    BY <1>6, SweepRowKeeps, RegisterFieldKeeps DEF Around
  <1>3. ASSUME NEW c \in Conns, Abort(c) PROVE IInv'
    BY <1>3, RollBackKeeps DEF Abort
  <1>4. ASSUME NEW c \in Conns, Finish(c) PROVE IInv'
    <2>1. CASE Exhausted(c) \/ LockTimeout(c) \/ Reject(c)
      BY <1>3, <2>1 DEF Exhausted, LockTimeout, Reject
    <2>. QED
      BY <1>4, <2>1, CommitKeeps, DeliverKeeps, WithholdKeeps, WriteEarlyKeeps,
         CommitEarlyKeeps DEF Finish
  <1>5. ASSUME NEW P \in Processes, Crash(P) PROVE IInv'
    <2>1. P \in SUBSET Conns
      BY DEF Processes, Conns
    <2>. QED
      BY <1>5, <2>1, RollBackKeeps DEF Crash
  <1>. QED
    BY <1>1, <1>2, <1>4, <1>5, <1>6, ArriveKeeps, AcquireKeeps, StutterKeeps
       DEF Next, Step

-------------------------------------------------------------------------------
(* Theorems *)

\* The inductive invariant holds in every reachable state.
THEOREM Invariance == Spec => []IInv
  BY InitIInv, NextIInv, PTL DEF Spec

\* Every variable stays in its type.
THEOREM Typing == Spec => []TypeOK
  BY Invariance, PTL DEF IInv

\* A token that left the program after its commit resolves for ever to the
\* name it stands for, under every interleaving of threads, CLI runs, aborts
\* and kills.
THEOREM ReversibleAlways == Spec => []Reversible
  BY Invariance, PTL DEF IInv

\* What a connection's cache answers is backed by the table it sees.
THEOREM CachesAreBacked == Spec => []CacheBacked
  BY Invariance, PTL DEF IInv

\* The pseudonym space is declared exhausted only when every candidate of the
\* name is taken.
THEOREM SaltsSkippedForCause == Spec => []SkippedSaltsTaken
  BY Invariance, PTL DEF IInv

\* Two names never share a pseudonym on disk.
LEMMA InjectiveCommitted == IInv => Injective(committed)
  BY DEF IInv, TableInv, Injective

\* Two names are never handed out under one token.
THEOREM NamesNeverMerge == Spec => []NoMergedNames
  <1>1. IInv => NoMergedNames
    BY InjectiveCommitted, VaultAssumption
       DEF IInv, Reversible, NoMergedNames, Injective, TypeOK
  <1>. QED
    BY <1>1, Invariance, PTL

\* What a step may do to the committed table and to what has left the program.
LEMMA StepEffect ==
    ASSUME IInv, [Next]_vars
    PROVE  \/ UNCHANGED <<committed, delivered>>
           \/ committed' = dirty /\ UNCHANGED delivered
           \/ \E c \in Conns : /\ pc[c] = "answer"
                               /\ delivered' = delivered \cup Deliveries(c, FALSE)
                               /\ UNCHANGED committed
           \/ \E c \in Conns : /\ delivered' = delivered \cup Deliveries(c, TRUE)
                               /\ UNCHANGED committed
  <1>1. ASSUME NEW c \in Conns, GetOrCreate(c)
        PROVE  UNCHANGED <<committed, delivered>>
    BY <1>1 DEF GetOrCreate, CacheHit, SelectRow, TouchRow, ProbeTaken,
       ProbeFree,
       InsertRow, InsertSameName, InsertTokenTaken, store
  <1>2. ASSUME NEW c \in Conns,
               RegisterAlias(c) \/ Around(c) \/ Acquire(c) \/ Arrive(c)
                   \/ Withhold(c)
        PROVE  UNCHANGED <<committed, delivered>>
    BY <1>2 DEF RegisterAlias, AliasCached, AliasAdded, AliasRefused, Acquire,
       Arrive, Withhold, Around, SweepRow, RegisterField, store
  <1>3. ASSUME NEW c \in Conns, Exhausted(c) \/ LockTimeout(c) \/ Reject(c)
        PROVE  UNCHANGED <<committed, delivered>>
    BY <1>3 DEF Exhausted, LockTimeout, Reject, Abort, RollBack
  <1>4. ASSUME NEW P \in Processes, Crash(P)
        PROVE  UNCHANGED <<committed, delivered>>
    BY <1>4 DEF Crash, RollBack
  <1>5. ASSUME NEW c \in Conns, Commit(c) \/ CommitEarly(c)
        PROVE  /\ committed' = dirty \/ UNCHANGED committed
               /\ UNCHANGED delivered
    BY <1>5 DEF Commit, CommitEarly, CommitWork, store
  <1>6. ASSUME NEW c \in Conns, Deliver(c)
        PROVE  /\ pc[c] = "answer"
               /\ delivered' = delivered \cup Deliveries(c, FALSE)
               /\ UNCHANGED committed
    BY <1>6 DEF Deliver, store
  <1>7. ASSUME NEW c \in Conns, WriteEarly(c)
        PROVE  /\ delivered' = delivered \cup Deliveries(c, TRUE)
               /\ UNCHANGED committed
    BY <1>7 DEF WriteEarly, store
  <1>8. CASE UNCHANGED vars
    BY <1>8 DEF vars
  <1>. QED
    BY <1>1, <1>2, <1>3, <1>4, <1>5, <1>6, <1>7, <1>8 DEF Next, Step, Finish

\* No step changes or loses a committed row.
THEOREM RowsNeverChange == Spec => RowsArePermanent
  <1>1. IInv /\ [Next]_vars =>
            [\A n \in Names : committed[n] # NoToken
                                  => committed'[n] = committed[n]]_vars
    BY StepEffect DEF IInv, TableInv
  <1>. QED
    BY <1>1, Invariance, PTL DEF Spec, RowsArePermanent

-------------------------------------------------------------------------------
(* Refinement *)

Handed == {<<d.name, d.token>> : d \in {e \in delivered : ~e.early}}

\* The vault keeps the promise of TokenStore: each of its steps binds names
\* for good, hands out what is bound, or is invisible.
THEOREM VaultKeepsPromise == Spec => KeepsPromise
  <1>1. Init => Promise!Init
    BY DEF Init, EmptyTable, Promise!Init
  <1>2. IInv /\ IInv' /\ [Next]_vars => [Promise!Next]_(Promise!vars)
    <2> SUFFICES ASSUME IInv, IInv', [Next]_vars
                 PROVE  Promise!Next \/ UNCHANGED <<committed, Handed>>
      BY DEF Promise!vars, Handed
    <2>1. CASE UNCHANGED <<committed, delivered>>
      BY <2>1 DEF Handed
    <2>2. CASE committed' = dirty /\ UNCHANGED delivered
      <3>1. Promise!Bind
        BY <2>2 DEF IInv, TableInv, Injective, TypeOK, Table, Row,
           Promise!Bind, Promise!Injective, Promise!Extends
      <3>. QED
        BY <3>1 DEF Promise!Next
    <2>3. ASSUME NEW c \in Conns, UNCHANGED committed,
                 delivered' = delivered \cup Deliveries(c, FALSE)
          PROVE  Promise!Next
      <3>1. TypeOK' /\ Reversible'
        BY DEF IInv
      <3>2. ASSUME NEW p \in Handed'
            PROVE  p[1] \in Names /\ p[2] # NoToken /\ committed[p[1]] = p[2]
        <4>1. PICK d \in delivered' : ~d.early /\ p = <<d.name, d.token>>
          BY DEF Handed
        <4>2. d.name \in Names /\ d.token \in Tokens
          BY <3>1 DEF TypeOK
        <4>3. committed[d.name] = d.token
          BY <2>3, <3>1, <4>1 DEF Reversible
        <4>. QED
          BY <4>1, <4>2, <4>3, VaultAssumption
      <3>3. Handed \subseteq Handed'
        BY <2>3 DEF Handed
      <3>4. Promise!HandOut
        BY <2>3, <3>2, <3>3 DEF Promise!HandOut, Handed
      <3>. QED
        BY <3>4 DEF Promise!Next
    <2>4. ASSUME NEW c \in Conns, UNCHANGED committed,
                 delivered' = delivered \cup Deliveries(c, TRUE)
          PROVE  UNCHANGED <<committed, Handed>>
      BY <2>4 DEF Deliveries, Handed
    <2>. QED
      BY <2>1, <2>2, <2>3, <2>4, StepEffect
  <1>. QED
    BY <1>1, <1>2, Invariance, PTL DEF Spec, KeepsPromise, Promise!Spec

===============================================================================
