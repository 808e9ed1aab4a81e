-------------------------------- MODULE Vault ---------------------------------
(****************************************************************************)
(* The tenant vault (class Vault of logmask.py) with everything that writes *)
(* to it at the same time: the threads of the web application, serialised   *)
(* by app.LOCK, and CLI processes, which know nothing of that lock and only *)
(* meet the others in SQLite.                                               *)
(*                                                                          *)
(* SQLite and the sqlite3 module are external and modelled as the code uses *)
(* them: statements see the connection's own open transaction or else the   *)
(* last commit; the first INSERT or UPDATE of a connection opens a          *)
(* transaction and takes the single write lock, which is kept until commit  *)
(* or rollback, also when that statement fails on a constraint; a statement *)
(* that waits for the write lock longer than the timeout raises.            *)
(****************************************************************************)
EXTENDS Naturals

CONSTANTS
    Names,        \* what blind_index tells apart: kind and normalised value
    Tokens,       \* pseudonyms
    Web,          \* request threads of the web application
    Cli,          \* CLI runs, one process each
    Early,        \* those of Cli that run anonymize-pst
    Prf,          \* Prf[n][s]: the pseudonym the builder derives from n, salt s
    Label,        \* Label[n]: short label of an FQDN, NoName for other names
    Root,         \* Root[t]: the first label of the masked FQDN t
    MaxSalt,      \* salts tried before PseudonymSpaceExhausted (4096)
    MaxRequests,  \* bound: requests served per connection slot
    NoName, NoToken, NoConn

Conns == Web \cup Cli
Salts == 0..(MaxSalt - 1)

ASSUME VaultAssumption ==
    /\ Web \cap Cli = {} /\ Early \subseteq Cli
    /\ NoName \notin Names /\ NoToken \notin Tokens /\ NoConn \notin Conns
    /\ MaxSalt \in Nat \ {0} /\ MaxRequests \in Nat
    /\ Prf \in [Names -> [Salts -> Tokens]]
    /\ Label \in [Names -> Names \cup {NoName}]
    /\ Root \in [Tokens -> Tokens]

VARIABLES
    committed,  \* table mappings on disk: committed[n] is n's pseudonym
    dirty,      \* the same table as the open transaction sees it
    writer,     \* the connection whose transaction is open, or NoConn
    lock,       \* holder of app.LOCK, or NoConn
    pc,         \* where each connection is
    cur, salt,  \* the name being mapped and the salt being tried
    cache,      \* Vault._cache of each connection
    out,        \* pairs <<name, token>> in the output being built
    delivered,  \* what left the program: [name, token, early]
    served      \* requests started per slot (bounded by MaxRequests)

store == <<committed, dirty, writer>>
vars == <<committed, dirty, writer, lock, pc, cur, salt, cache, out, delivered,
          served>>

Row == Tokens \cup {NoToken}
Table == [Names -> Row]
Steps == {"idle", "queued", "ready", "touch", "probe", "insert", "alias",
          "answer", "written"}
EmptyTable == [n \in Names |-> NoToken]

TypeOK ==
    /\ committed \in Table
    /\ dirty \in Table
    /\ writer \in Conns \cup {NoConn}
    /\ lock \in Web \cup {NoConn}
    /\ pc \in [Conns -> Steps]
    /\ cur \in [Conns -> Names \cup {NoName}]
    /\ salt \in [Conns -> 0..MaxSalt]
    /\ cache \in [Conns -> Table]
    /\ out \in [Conns -> SUBSET (Names \X Tokens)]
    /\ delivered \subseteq [name : Names, token : Tokens, early : BOOLEAN]
    /\ served \in [Conns -> 0..MaxRequests]

-------------------------------------------------------------------------------
(* Helpers *)

\* The table as a statement of connection c sees it.
View(c) == IF writer = c THEN dirty ELSE committed

TokenFree(table, t) == \A n \in Names : table[n] # t

\* The pseudonym proposed for the name being mapped, at the current salt.
Candidate(c) == Prf[cur[c]][salt[c]]

\* The write lock is free or already ours.
CanWrite(c) == writer \in {NoConn, c}

Emitted(c) == {p[1] : p \in out[c]}

\* get_or_create returns t for n; an FQDN goes on to register its short label.
Emit(c, n, t) ==
    /\ cache' = [cache EXCEPT ![c] = [@ EXCEPT ![n] = t]]
    /\ out' = [out EXCEPT ![c] = @ \cup {<<n, t>>}]
    /\ pc' = [pc EXCEPT ![c] = IF Label[n] = NoName THEN "ready" ELSE "alias"]

\* The Vault and Anonymizer objects of the connections in S are gone.
Discard(S) ==
    /\ pc' = [c \in Conns |-> IF c \in S THEN "idle" ELSE pc[c]]
    /\ cur' = [c \in Conns |-> IF c \in S THEN NoName ELSE cur[c]]
    /\ salt' = [c \in Conns |-> IF c \in S THEN 0 ELSE salt[c]]
    /\ cache' = [c \in Conns |-> IF c \in S THEN EmptyTable ELSE cache[c]]
    /\ out' = [c \in Conns |-> IF c \in S THEN {} ELSE out[c]]

\* Faulty variant: app.LOCK acquired without "with", never released on error.
RollBackKeepsLock(S) ==
    /\ IF writer \in S THEN writer' = NoConn /\ dirty' = committed
                       ELSE UNCHANGED <<writer, dirty>>
    /\ UNCHANGED <<committed, lock>>

\* db.close() without commit, or the hot journal after a kill.
RollBack(S) ==
    /\ IF writer \in S THEN writer' = NoConn /\ dirty' = committed
                       ELSE UNCHANGED <<writer, dirty>>
    /\ lock' = IF lock \in S THEN NoConn ELSE lock
    /\ UNCHANGED committed

\* Faulty variant: db.close() where vault.commit() should be.
CommitWorkLost(c) ==
    IF writer = c THEN /\ dirty' = committed
                       /\ writer' = NoConn
                       /\ UNCHANGED committed
                  ELSE UNCHANGED store

CommitWork(c) ==
    IF writer = c THEN /\ committed' = dirty
                       /\ writer' = NoConn
                       /\ UNCHANGED dirty
                  ELSE UNCHANGED store

Init ==
    /\ committed = EmptyTable
    /\ dirty = EmptyTable
    /\ writer = NoConn
    /\ lock = NoConn
    /\ pc = [c \in Conns |-> "idle"]
    /\ cur = [c \in Conns |-> NoName]
    /\ salt = [c \in Conns |-> 0]
    /\ cache = [c \in Conns |-> EmptyTable]
    /\ out = [c \in Conns |-> {}]
    /\ delivered = {}
    /\ served = [c \in Conns |-> 0]

-------------------------------------------------------------------------------
(* Opening a vault *)

\* A request reaches its worker thread, or a CLI command starts; the CLI opens
\* its vault at once, the thread first has to get app.LOCK.
Arrive(c) ==
    /\ pc[c] = "idle"
    /\ served[c] < MaxRequests
    /\ served' = [served EXCEPT ![c] = @ + 1]
    /\ pc' = [pc EXCEPT ![c] = IF c \in Web THEN "queued" ELSE "ready"]
    /\ UNCHANGED <<store, lock, cur, salt, cache, out, delivered>>

Acquire(c) ==
    /\ pc[c] = "queued"
    /\ lock = NoConn
    /\ lock' = c
    /\ pc' = [pc EXCEPT ![c] = "ready"]
    /\ UNCHANGED <<store, cur, salt, cache, out, delivered, served>>

-------------------------------------------------------------------------------
(* Vault.get_or_create, statement by statement.  A name answered before is  *)
(* answered by the cache and changes nothing: that is not repeated.         *)

CacheHit(c, n) ==
    /\ pc[c] = "ready"
    /\ n \notin Emitted(c)
    /\ cache[c][n] # NoToken
    /\ Emit(c, n, cache[c][n])
    /\ cur' = [cur EXCEPT ![c] = n]
    /\ UNCHANGED <<store, lock, salt, delivered, served>>

\* Faulty variant: the loop goes on from the salt of the name before.
SelectRowKeepsSalt(c, n) ==
    /\ pc[c] = "ready"
    /\ cache[c][n] = NoToken
    /\ cur' = [cur EXCEPT ![c] = n]
    /\ pc' = [pc EXCEPT ![c] = IF View(c)[n] # NoToken THEN "touch"
                                                    ELSE "probe"]
    /\ UNCHANGED <<store, lock, salt, cache, out, delivered, served>>

\* SELECT pseudonym ... WHERE bidx
SelectRow(c, n) ==
    /\ pc[c] = "ready"
    /\ cache[c][n] = NoToken
    /\ cur' = [cur EXCEPT ![c] = n]
    /\ salt' = [salt EXCEPT ![c] = 0]
    /\ pc' = [pc EXCEPT ![c] = IF View(c)[n] # NoToken THEN "touch"
                                                    ELSE "probe"]
    /\ UNCHANGED <<store, lock, cache, out, delivered, served>>

\* UPDATE ... SET hits = hits + 1: even a known name takes the write lock.
TouchRow(c) ==
    /\ pc[c] = "touch"
    /\ CanWrite(c)
    /\ writer' = c
    /\ Emit(c, cur[c], View(c)[cur[c]])
    /\ UNCHANGED <<committed, dirty, lock, cur, salt, delivered, served>>

\* SELECT 1 ... WHERE pseudonym: the candidate is taken, on to the next salt.
ProbeTaken(c) ==
    /\ pc[c] = "probe"
    /\ salt[c] < MaxSalt
    /\ ~TokenFree(View(c), Candidate(c))
    /\ salt' = [salt EXCEPT ![c] = @ + 1]
    /\ UNCHANGED <<store, lock, pc, cur, cache, out, delivered, served>>

ProbeFree(c) ==
    /\ pc[c] = "probe"
    /\ salt[c] < MaxSalt
    /\ TokenFree(View(c), Candidate(c))
    /\ pc' = [pc EXCEPT ![c] = "insert"]
    /\ UNCHANGED <<store, lock, cur, salt, cache, out, delivered, served>>

\* Faulty variant: no UNIQUE constraint on the pseudonym.
InsertRowNotUnique(c) ==
    /\ pc[c] = "insert"
    /\ CanWrite(c)
    /\ View(c)[cur[c]] = NoToken
    /\ writer' = c
    /\ dirty' = [dirty EXCEPT ![cur[c]] = Candidate(c)]
    /\ Emit(c, cur[c], Candidate(c))
    /\ UNCHANGED <<committed, lock, cur, salt, delivered, served>>

InsertRow(c) ==
    /\ pc[c] = "insert"
    /\ CanWrite(c)
    /\ View(c)[cur[c]] = NoToken
    /\ TokenFree(View(c), Candidate(c))
    /\ writer' = c
    /\ dirty' = [dirty EXCEPT ![cur[c]] = Candidate(c)]
    /\ Emit(c, cur[c], Candidate(c))
    /\ UNCHANGED <<committed, lock, cur, salt, delivered, served>>

\* Faulty variant: the re-read row is used without looking whether there is one.
InsertSameNameUnchecked(c) ==
    /\ pc[c] = "insert"
    /\ CanWrite(c)
    /\ View(c)[cur[c]] # NoToken \/ ~TokenFree(View(c), Candidate(c))
    /\ writer' = c
    /\ Emit(c, cur[c], View(c)[cur[c]])
    /\ UNCHANGED <<committed, dirty, lock, cur, salt, delivered, served>>

\* Faulty variant: the token of the other connection's row taken for granted.
InsertSameNameAssumed(c) ==
    /\ pc[c] = "insert"
    /\ CanWrite(c)
    /\ View(c)[cur[c]] # NoToken
    /\ writer' = c
    /\ Emit(c, cur[c], Candidate(c))
    /\ UNCHANGED <<committed, dirty, lock, cur, salt, delivered, served>>

\* IntegrityError, and the re-read finds the row another connection committed
\* since SelectRow: its pseudonym is used.
InsertSameName(c) ==
    /\ pc[c] = "insert"
    /\ CanWrite(c)
    /\ View(c)[cur[c]] # NoToken
    /\ writer' = c
    /\ Emit(c, cur[c], View(c)[cur[c]])
    /\ UNCHANGED <<committed, dirty, lock, cur, salt, delivered, served>>

\* IntegrityError on the pseudonym, given to another name since ProbeFree.
InsertTokenTaken(c) ==
    /\ pc[c] = "insert"
    /\ CanWrite(c)
    /\ View(c)[cur[c]] = NoToken
    /\ ~TokenFree(View(c), Candidate(c))
    /\ writer' = c
    /\ salt' = [salt EXCEPT ![c] = @ + 1]
    /\ pc' = [pc EXCEPT ![c] = "probe"]
    /\ UNCHANGED <<committed, dirty, lock, cur, cache, out, delivered, served>>

-------------------------------------------------------------------------------
(* Vault.register_alias: the short label of the FQDN just mapped *)

AliasCached(c) ==
    /\ pc[c] = "alias"
    /\ cache[c][Label[cur[c]]] # NoToken
    /\ pc' = [pc EXCEPT ![c] = "ready"]
    /\ UNCHANGED <<store, lock, cur, salt, cache, out, delivered, served>>

\* Faulty variant: INSERT OR REPLACE on the label.
AliasReplaced(c) ==
    LET label == Label[cur[c]]
        root == Root[cache[c][cur[c]]]
    IN  /\ pc[c] = "alias"
        /\ cache[c][label] = NoToken
        /\ CanWrite(c)
        /\ TokenFree(View(c), root)
        /\ writer' = c
        /\ dirty' = [dirty EXCEPT ![label] = root]
        /\ cache' = [cache EXCEPT ![c] = [@ EXCEPT ![label] = root]]
        /\ pc' = [pc EXCEPT ![c] = "ready"]
        /\ UNCHANGED <<committed, lock, cur, salt, out, delivered, served>>

\* Faulty variant: the alias takes a root that another name has for token.
AliasStolen(c) ==
    LET label == Label[cur[c]]
        root == Root[cache[c][cur[c]]]
    IN  /\ pc[c] = "alias"
        /\ cache[c][label] = NoToken
        /\ CanWrite(c)
        /\ View(c)[label] = NoToken
        /\ writer' = c
        /\ dirty' = [dirty EXCEPT ![label] = root]
        /\ cache' = [cache EXCEPT ![c] = [@ EXCEPT ![label] = root]]
        /\ pc' = [pc EXCEPT ![c] = "ready"]
        /\ UNCHANGED <<committed, lock, cur, salt, out, delivered, served>>

AliasAdded(c) ==
    LET label == Label[cur[c]]
        root == Root[cache[c][cur[c]]]
    IN  /\ pc[c] = "alias"
        /\ cache[c][label] = NoToken
        /\ CanWrite(c)
        /\ View(c)[label] = NoToken
        /\ TokenFree(View(c), root)
        /\ writer' = c
        /\ dirty' = [dirty EXCEPT ![label] = root]
        /\ cache' = [cache EXCEPT ![c] = [@ EXCEPT ![label] = root]]
        /\ pc' = [pc EXCEPT ![c] = "ready"]
        /\ UNCHANGED <<committed, lock, cur, salt, out, delivered, served>>

\* IntegrityError: the label or the root is in the table, which stays as it is.
AliasRefused(c) ==
    LET label == Label[cur[c]]
    IN  /\ pc[c] = "alias"
        /\ cache[c][label] = NoToken
        /\ CanWrite(c)
        /\ \/ View(c)[label] # NoToken
           \/ ~TokenFree(View(c), Root[cache[c][cur[c]]])
        /\ writer' = c
        /\ pc' = [pc EXCEPT ![c] = "ready"]
        /\ UNCHANGED <<committed, dirty, lock, cur, salt, cache, out, delivered,
                       served>>

-------------------------------------------------------------------------------
(* What else a request does with its connection *)

\* sweep_known: a name of the text that is in the vault is replaced by the
\* pseudonym of its row, without a hit and without the cache.
SweepRow(c, n) ==
    /\ pc[c] = "ready"
    /\ View(c)[n] # NoToken
    /\ out' = [out EXCEPT ![c] = @ \cup {<<n, View(c)[n]>>}]
    /\ UNCHANGED <<store, lock, pc, cur, salt, cache, delivered, served>>

\* Vault.register_field: an upsert into table fields, for the write lock's sake.
RegisterField(c) ==
    /\ pc[c] = "ready"
    /\ CanWrite(c)
    /\ writer' = c
    /\ UNCHANGED <<committed, dirty, lock, pc, cur, salt, cache, out, delivered,
                   served>>

-------------------------------------------------------------------------------
(* The end of a request *)

Deliveries(c, early) ==
    {[name |-> p[1], token |-> p[2], early |-> early] : p \in out[c]}

\* vault.commit(), db.close() and, in the web application, the end of the
\* critical section.
Commit(c) ==
    /\ pc[c] = "ready"
    /\ c \notin Early
    /\ CommitWork(c)
    /\ lock' = IF lock = c THEN NoConn ELSE lock
    /\ pc' = [pc EXCEPT ![c] = "answer"]
    /\ UNCHANGED <<cur, salt, cache, out, delivered, served>>

\* The response is returned, the output file written.
Deliver(c) ==
    /\ pc[c] = "answer"
    /\ delivered' = delivered \cup Deliveries(c, FALSE)
    /\ Discard({c})
    /\ UNCHANGED <<store, lock, served>>

\* What runs between the commit and the answer raises (audit, output file).
Withhold(c) ==
    /\ pc[c] = "answer"
    /\ Discard({c})
    /\ UNCHANGED <<store, lock, delivered, served>>

\* cmd_anonymize_pst writes its output file first ...
WriteEarly(c) ==
    /\ pc[c] = "ready"
    /\ c \in Early
    /\ delivered' = delivered \cup Deliveries(c, TRUE)
    /\ pc' = [pc EXCEPT ![c] = "written"]
    /\ UNCHANGED <<store, lock, cur, salt, cache, out, served>>

\* ... and commits the vault afterwards.
CommitEarly(c) ==
    /\ pc[c] = "written"
    /\ CommitWork(c)
    /\ Discard({c})
    /\ UNCHANGED <<lock, delivered, served>>

Abort(c) ==
    /\ RollBack({c})
    /\ Discard({c})
    /\ UNCHANGED <<delivered, served>>

\* PseudonymSpaceExhausted
Exhausted(c) ==
    /\ pc[c] = "probe"
    /\ salt[c] = MaxSalt
    /\ Abort(c)

\* "database is locked" after the 30 seconds of sqlite3.connect
LockTimeout(c) ==
    /\ pc[c] \in {"touch", "insert", "alias"}
    /\ ~CanWrite(c)
    /\ pc[c] = "alias" => cache[c][Label[cur[c]]] = NoToken
    /\ Abort(c)

\* The output is blocked, the input cannot be parsed, or a statement outside
\* get_or_create or the commit raises (RegisterField's busy timeout too).
Reject(c) ==
    /\ pc[c] \in {"ready", "written"}
    /\ Abort(c)

\* The web process or one CLI process is killed.
Processes == {Web} \cup {{c} : c \in Cli}

Crash(P) ==
    /\ \E c \in P : pc[c] # "idle"
    /\ RollBack(P)
    /\ Discard(P)
    /\ UNCHANGED <<delivered, served>>

-------------------------------------------------------------------------------

GetOrCreate(c) ==
    \/ \E n \in Names : CacheHit(c, n) \/ SelectRow(c, n)
    \/ TouchRow(c) \/ ProbeTaken(c) \/ ProbeFree(c)
    \/ InsertRow(c) \/ InsertSameName(c) \/ InsertTokenTaken(c)

RegisterAlias(c) == AliasCached(c) \/ AliasAdded(c) \/ AliasRefused(c)

Around(c) == (\E n \in Names : SweepRow(c, n)) \/ RegisterField(c)

Finish(c) ==
    \/ Commit(c) \/ Deliver(c) \/ Withhold(c)
    \/ WriteEarly(c) \/ CommitEarly(c)
    \/ Exhausted(c) \/ LockTimeout(c) \/ Reject(c)

\* What a connection does by itself once it has something to do.
Step(c) ==
    Acquire(c) \/ GetOrCreate(c) \/ RegisterAlias(c) \/ Around(c) \/ Finish(c)

Next ==
    \/ \E c \in Conns : Arrive(c) \/ Step(c)
    \/ \E P \in Processes : Crash(P)

\* Threads and processes are scheduled, and the SQLite busy timeout makes a
\* blocked statement end; nothing obliges a request to arrive or a process to
\* be killed.
Fairness == \A c \in Conns : WF_vars(Step(c))

Spec == Init /\ [][Next]_vars
FairSpec == Spec /\ Fairness

-------------------------------------------------------------------------------
(* Properties *)

\* Every token of an export that left the program resolves to the name it
\* replaced, whatever other connections commit, roll back or lose to a kill.
\* (cmd_anonymize_pst delivers before it commits: see PstExportsReversible.)
Reversible ==
    \A d \in delivered : ~d.early => committed[d.name] = d.token

\* No two names ever left the program under the same token, also when two
\* connections raced for it: the UNIQUE constraint has the last word.
NoMergedNames ==
    \A d, e \in delivered :
        ~d.early /\ ~e.early /\ d.token = e.token => d.name = e.name

\* A connection moves past a salt only because the pseudonym is in the table it
\* sees, so PseudonymSpaceExhausted is raised only when every candidate is
\* taken for good and never because of a race or of another's rollback.
SkippedSaltsTaken ==
    \A c \in Conns : pc[c] \in {"probe", "insert"} =>
        \A s \in 0..(salt[c] - 1) : ~TokenFree(View(c), Prf[cur[c]][s])

\* What a connection remembers or is about to hand out is in the table it
\* sees: its cache never outlives the transaction that backed it.
CacheBacked ==
    \A c \in Conns : \A n \in Names :
        cache[c][n] # NoToken => View(c)[n] = cache[c][n]

\* A row, once committed, is never changed and never lost, by any step.
RowsArePermanent ==
    [][\A n \in Names : committed[n] # NoToken
                            => committed'[n] = committed[n]]_vars

\* Every request that arrived is answered, refused or killed: app.LOCK and the
\* SQLite write lock are never held by connections waiting for one another.
EveryRequestEnds ==
    \A c \in Conns : pc[c] # "idle" ~> pc[c] = "idle"

\* The vault implements the promise of TokenStore.
Promise == INSTANCE TokenStore WITH
    bound <- committed,
    handed <- {<<d.name, d.token>> : d \in {e \in delivered : ~e.early}}

KeepsPromise == Promise!Spec

\* Stated by logmask.py:8-9 of every export: reversal needs the vault and the
\* key, and nothing else.  Once no anonymize-pst is running, what it wrote
\* resolves.  The code breaks it: the file is written before the commit.
PstExportsReversible ==
    (\A c \in Early : pc[c] = "idle") =>
        \A d \in delivered : d.early => committed[d.name] = d.token

===============================================================================
