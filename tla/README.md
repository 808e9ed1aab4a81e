# A TLA+ model of LogMask

LogMask pseudonymises security logs: it replaces host names, users, addresses
and other identities by tokens derived from a key, keeps the originals encrypted
in a SQLite vault per tenant, and can turn tokens back into originals. This
directory models its core, model-checks it with TLC and proves its main
guarantees with TLAPS.

## The system

| Component | Source | State it keeps | Operations | Interacts with |
|---|---|---|---|---|
| Tenant vault | `logmask.py` 134-338, `app.py` 450-458 | tables `mappings`, `fields`; per connection a transaction, `_cache`, `_owned` | `get_or_create`, `register_alias`, `owns`, `reverse`, `lookup_original`, `register_field`, `commit` | every request of the web application, under `app.LOCK`; CLI processes, without it |
| Anonymizer | `logmask.py` 1024-1910 | counters, label index, DLP findings | `process`, `_map`, `set_host_label_index` | vault, DLP, kits |
| IPv4 pseudonyms | `logmask.py` 900-992 | rows of kinds `ipv4`, `ipv4net`, `ipv4host` | flat, subnet-preserving, `ip_strict` | vault |
| Deanonymizer | `logmask.py` 1937-2030 | counters | `_sub`, `process` | vault |
| Sweeps | `logmask.py` 2560-2744 | none | `sweep_known`, `_sweep_from_vault` | vault |
| Safe mode | `logmask.py` 3100-3227 | none | residual scan, redaction, pseudonymisation of residuals | vault, DLP |
| DLP policy | `dlp.py` | none | detection, overlap resolution, `apply` | Anonymizer |
| CSV | `logmask.py` 3230-3566 | per-column counters, policy | `transform`, `process` | Anonymizer, kits |
| Structured formats | `structured.py` | per-field statistics | one processor per format, final sweep | Anonymizer, vault, kits |
| Documents | `docx_anon.py`, `pdf_anon.py`, `pst_anon.py` | none | extract, scrub, rebuild | Anonymizer, vault |
| Vault and secret reset | `app.py` 461-490, 1798-1891 | vault files, key file, `MASTER` | rename to an archive, new key | vault files open elsewhere |
| Accounts | `auth.py`, `app.py` 375-446 | users, sessions, tenants, append-only audit | login, sessions, password, roles | every request |
| Settings | `app.py` 94-287, `vendor_kits.py` | files with in-process caches | load, save, reload | Anonymizer |
| Web interface | `static/index.html` | none | - | API |

What makes it hard, and what makes it correct:

* **Vault.** Web requests are serialised by `app.LOCK`, CLI runs are not, and
  `get_or_create` is several SQL statements: probe, insert, re-read after a lost
  race. A request may be killed, refused, or time out on SQLite's write lock
  after part of its output is built. Correct means: what leaves the program
  resolves, two names never share a token, a row never changes, a request
  always ends.
* **Host names.** The token of a short name depends on the FQDNs of its
  document, on alias rows of earlier documents and on the order of the values.
  Correct means: a token resolves to its host, an export treated again does not
  change, and within a document a host is named alike.
* **IPv4.** Composed addresses and flat addresses share one range without
  being checked against each other.
* **Reset.** Renames of files that others have open, in several steps that a
  kill or an error may cut short, with names of one-second resolution. Correct
  means: what was given out stays reversible, a vault is never served under a
  key that cannot read it, archives keep the key they belong to.
* **Accounts.** Requests read a role, a password or a session and act on it
  later, while others change it. Correct means: no session outlives what it
  rests on, rights are no older than the request, and text goes out, pseudonymised
  or restored, after its audit row.
* **Settings.** Caches keyed by modification time, reloaded by threads that do
  not take the lock, while files are truncated and rewritten, within one tick of
  the file system's clock too. Correct means: a cache never keeps old content
  under a new time, and what shares a time stays within what the file said then.
* **Documents and verdicts.** What becomes of a value depends on configuration,
  kit, name and values of its field, format, safe mode and DLP policy; the
  verdicts of API and CLI differ. Correct means: nothing is delivered in clear
  without a reason, a name the vault knows least of all, and safe mode refuses
  nothing it could elide.

`PROJECT.json` lists these hazards one by one, each at its line.

## Modules

| Module | What it is |
|---|---|
| `TokenStore` | Abstract specification: tokens are bound to names, for good and injectively, and only bound tokens leave the program. |
| `Vault` | The vault and its concurrent users, one action per SQL statement. Implements `TokenStore`. |
| `MCVault` | Small instances of `Vault`: two FQDNs with a common label and two short names, whose candidate pseudonyms overlap. |
| `VaultProofs` | Theorems about `Vault`, for every instance. |
| `HostNames` | Host tokens over a sequence of documents: label index, alias rows, recognition of issued tokens, resolution. |
| `MCHostNames` | Two FQDNs with a common four-character label, a third with a three-character label, and a name that only looks like a token. |
| `Ipv4` | IPv4 pseudonyms over a sequence of requests: flat, subnet-preserving, `ip_strict`, the final sweep, resolution. |
| `MCIpv4` | Two customer networks, two synthetic ones, two last octets. |
| `Accounts` | Users, sessions, roles and the audit trail under concurrent requests. |
| `MCAccounts` | An administrator, a reverser and a free name, and nine requests they may make. |
| `TenantFiles` | Key, vaults and archives in the data directory under requests, CLI commands, resets and kills. |
| `MCTenantFiles` | Two tenants, two requests, one command. |
| `Settings` | Field overrides, keep list and vendor kits: files, caches, and threads that load and save them. |
| `Documents` | One document from request to verdict; extends `Settings`, whose steps it interleaves with. |
| `MCDocuments` | Documents of one and two cells in every setting, and two that an administrator interferes with. |
| `AccountsProofs`, `TenantFilesProofs`, `HostNamesProofs`, `Ipv4Proofs` | Theorems about the module each is named after, for every instance. |
| `SettingsProofs` | Lemmas: what every step of `Settings` preserves. |
| `DocumentsProofs` | Theorems about `Documents` with `Settings`, for every document, configuration and DLP policy. |

### Vault

`committed` is the table on disk, `dirty` the table as the open transaction sees
it, `writer` the connection that has one, `lock` the holder of `app.LOCK`. Each
connection slot has a program counter, the name and salt it works on, its
`_cache`, and the output it builds. A slot starts as many requests as
`MaxRequests` allows; each has a fresh `Vault` object, as in the code.

| Code | Actions |
|---|---|
| request or command starts, `with LOCK`, `Vault(...)` | `Arrive`, `Acquire` |
| `get_or_create` 211-220 | `CacheHit`, `SelectRow`, `TouchRow` |
| salt loop 235-257 | `ProbeTaken`, `ProbeFree`, `InsertRow`, `InsertSameName`, `InsertTokenTaken`, `Exhausted` |
| `register_alias` | `AliasCached`, `AliasAdded`, `AliasRefused` |
| `sweep_known`, `register_field` | `SweepRow`, `RegisterField` |
| `vault.commit()`, answer, failure after the commit | `Commit`, `Deliver`, `Withhold` |
| `cmd_anonymize_pst` 3895-3899 | `WriteEarly`, `CommitEarly` |
| rollback, `close()` without commit, busy timeout, kill | `Reject`, `LockTimeout`, `Crash` |

A name is what `blind_index` tells apart: kind and normalised value together.
`Prf` stands for the builder applied to `prf(...)`; it is an arbitrary function,
so pseudonyms may collide in any way. SQLite is external and modelled as the
code relies on it: a connection reads its own transaction or the last commit;
the first INSERT or UPDATE opens a transaction and takes the only write lock,
also when it then fails on a constraint; waiting too long raises. A
kill rolls back. Disk corruption is not modelled, vault files moved while
open are the subject of `TenantFiles`.

Two constraints of the schema do most of the work: `bidx` is the primary key and
`pseudonym` is UNIQUE. `InsertRow` and `AliasAdded` are enabled exactly when both
hold; the other outcomes of the same statement are actions of their own.

The web application commits an output even if it is flagged as blocked, the CLI
rolls it back; to the vault these are `Commit` and `Reject`.

### HostNames

`Vault` shows that requests see the vault as if they ran one after the other, so
`HostNames` runs documents in sequence and looks at values instead. A
token is the name it is drawn from plus its form (`host-x.masked.local` is
dotted, `host-x` is not). `rows` and `saved` are the table with and without the
current request. A document is any set of up to `MaxValues` names, tokens of
earlier exports and look-alikes; structured documents have the label index
(`linked`), CSV and text have none. Its values are mapped in any order, by
`MapFqdn`, `MapLinkedShort` (`_resolve_bare_host`), `MapPlainShort`,
`PassOwnToken` (`owns`) and `MaskUnknown`; then `Export` commits or `Fail` rolls
back. The option `keep_domain` and collisions of pseudonyms are left out here.

### Ipv4

An address is a /24 network and a last octet; `rows` holds the kinds `ipv4`,
`ipv4net` and `ipv4host`. Here the pseudonym space is small and collisions are
the subject: `Draw` is `get_or_create` with the candidate left open among the
free ones. A request is a set of addresses, of the customer or taken from
earlier exports, each in an `ip_strict` column or not, with two options: `subnet`
(`preserve_subnet`, default of the API, never set for documents) and `sweeps`
(text and documents end with `sweep_known`, CSV and JSON do not sweep
addresses). `PassOwnToken` and `MapFlat` are `_map`, `MapSubnet` and `Exhausted`
are `pseudo_ipv4_subnet`, `foreign` is the cache of negative answers of `owns`,
and `Delivered` is the sweep. The two scopes 198.18 and 198.19 share no pseudonym; one is
modelled. IPv6 and `ip_mode` are left out.

### Accounts

`users`, `sessions`, `failures` and `audit` are the tables of `auth.py`. A
request is a program in a slot of `req`: `Arrive` notes the time,
`SelectSession` and `SelectTenants` (or `Touch`, which reads the tenants in its
own transaction) are the statements of `AuthStore.session`, and the handler's
steps follow. Python's `sqlite3` opens a transaction at the first write, so each
SELECT before it reads the last commit: `change_password` is `VerifyPassword`
and `ChangePassword`, `update_user` is `ReadAccount` and `WriteAccount`.
`authenticate` starts with a DELETE and is one step. `Fail` ends a request
anywhere: a refused permission, a weak password, a locked database.

| Code | Actions |
|---|---|
| `authenticate` | `LoginLimited`, `LoginRefused`, `LoginAccepted` |
| `session` | `SelectSession`, `RevokeLapsed`, `Touch`, `SelectTenants` |
| logout, `change_password` | `Logout`, `VerifyPassword`, `ChangePassword` |
| `create_user` | `Create` |
| PATCH of a user, `update_user` | `ValidateTenants`, `ReadAccount`, `WriteAccount` |
| endpoints on a tenant, audit, answer | `Work`, `Audit`, `Deliver` |

`Work` stands for the endpoints that pseudonymise or restore text and write an
audit row before they answer, and for the reports, `api_fields` and `api_stats`
(`app.py` 1674-1720), which answer at once and leave no row: `Audited` tells
them apart by their permission, and `delivered` notes which of the two an answer
was. A login and its audit row are one step; a result is modelled with the row
separate. Hashes, CSRF tokens, audit of failures and the pruning of old rows are left out.
`entitled` and `overlapped` are history: the rights the user of a request has had since
it arrived, and whether two patches were ever in flight at once (`Arrive` notes it).

### TenantFiles

`vaults` maps the path of a vault (live, archived by a vault reset, archived by
a secret reset, with its stamp) to its committed rows; `keyFile` and `oldKeys`
are `master.key` and its archives; `master` is `MASTER` in memory. A row carries
the key it was encrypted under. A secret reset (`SecretStamp`, `SecretAcquire`,
`ArchiveVault`, `ArchiveKey`, `TruncateKey`, `WriteKey`, `ReloadMaster`) may fail at every
rename and write (`FailReset`) and the process be killed (`Kill`); `Start` and
`StartWithNewKey` are `_master` at import. A CLI command reads the key, then
opens the vault, and its handle follows a rename. SQLite refuses a first write
on a file that was renamed and lets an open transaction commit; an archive that
another rename replaces has no name any more (`Lost`).

An archive is named by the second of its reset, and nothing in the code keeps
two resets a second apart. The model does not either: a stamp may be taken again
(`resetsAt` counts how often), and a rename onto an archive replaces it.
`replacedRows` and `replacedKeys` note what was in archives that a reset of the
same second replaced; they are what is lost, and `Recoverable` says that nothing
else is.

Rows of the CLI are excepted from `LiveUnderMaster` and `PairedArchives`: a
command that read the old key before a reset and opened the vault after it
writes rows of the old key into the new vault. `Recoverable` covers them, since
the old key is in its archive. `cmd_init` is left out; with `--force` it
overwrites the key without an archive.

### Settings and Documents

A file has a modification time and a body (what it says of each field, or
`Torn` between truncation and write); a cache has the same. `Worker` is the
request under `app.LOCK`; `Admins` serve the endpoints of configuration, which
do not take it. A load is `LoadStat`, `LoadRead`, `LoadStore`, `LoadReturn`; a
save is `PostOverride`, `SaveTruncate`, `SaveWrite`, `SaveReset` and a load that
is published; the registry of kits is rebuilt by `KitStat`, `BuildRegistry`,
`StoreKits`, `StoreAliases`, for a request only if its time has changed, for an
administrator always and without the lock. Files may change any number of times
within one tick: `versions` and `kitVersions` are history, what a file has said
at its present time, and so what a cache that carries this time may hold; a save
trims the former, because it empties the cache. `rivals` is what other threads
had read for a rebuild of their own when a rebuild recorded its time. The loaders of the term lists have the same shape
and are not instantiated.

`Documents` adds the request. A document is a sequence of cells; a cell is a
field and a set of items, an item a class of values that the code treats alike
(listed in the module). `NameClass` says what the catalogues know of a field's
name.

| Code | Definitions |
|---|---|
| `resolve_field`, `apply_safe_policy`, `default_policy` | `ResolveField`, `ApplySafePolicy`, `DefaultPolicy`, `PolicyDone` |
| `Anonymizer.process`, `process_dlp_field`, `dlp.apply` | `Process`, `ProcessDlpField`, `DlpOutcome` |
| `sweep_known`, residual scan, redaction | `SweepKnown`, `Residuals`, `RedactResiduals` |
| CSV, JSON/NDJSON, headers, text | `CsvCell`, `StructuredCell`, `HeaderCell`, `TextCell` |
| `detect_vendor_kit`, `match_rule` | `ReloadKits`, `DetectVendorKit`, `KitSays`, `Fail` |
| `transform_scalar` with `_decision_cache` | `Transform`, `DecisionFor` |
| final sweep, verdict of API and CLI | `FinalSweep`, `Verdict` |

"Delivered" and "refused" are the verdict. The API answers a refused document with
the output and a flag `blocked`, on which the interface refuses to hand it out;
the CLI writes nothing. Left out: the forced catalogue, decisions of workflow
profiles, the kind `ioc` in text, LEEF headers, JSON keys and the CEF headers
other than the name, transposed tables, the memo tables of `transform_scalar`
(`_pt_keep`, `_pt_text`), the vault's commit or rollback at the end (which is in
`Vault`). `exposed` of a structured result is never set without `failed`, and is
one with it here.

## Runs

| Run | Instance | Result |
|---|---|---|
| `vault` | one web thread and one CLI command, one request each; 4 names, 4 tokens, 2 salts | 7 properties hold (81 thousand states) |
| `vault_live` | two web threads and one `anonymize-pst`, one request each; 2 names | every request ends |
| `vault_pst` | one `anonymize-pst` | violates `PstExportsReversible` |
| `hostnames` | 2 documents of up to 3 values | 4 properties hold (78 thousand states) |
| `hostnames_ambiguous` | the same | violates `AmbiguousNotGuessed` |
| `ipv4` | up to 4 values in up to 4 requests | 5 properties hold (186 thousand states) |
| `ipv4_merge` | 2 values | violates `AddressesApart` |
| `accounts` | 3 users, 2 requests in flight, 3 in all, 2 cookies, clock to 2 | 7 properties hold (2.8 million states) |
| `accounts_wildcard` | the same users, 2 patches | violates `WildcardReserved` |
| `tenantfiles` | 2 tenants, 2 requests, 1 command; 3 keys, 1 row, 2 resets, 2 kills, clock to 1 | 4 properties hold (1.6 million states) |
| `tenantfiles_second` | 1 tenant, 1 request, 1 command; 1 row, 2 resets, one second | violates `NothingDestroyed` |
| `documents` | documents of 1 or 2 cells; for 2 of them one administrator, 2 edits, clock to 2 | 9 properties hold (1.4 million states) |

The passing runs check:

* `Reversible`, `NoMergedNames`, `RowsArePermanent`, `KeepsPromise`: what left
  the program after a commit resolves, to one name, for ever, whatever other
  connections commit, roll back or lose to a kill; `KeepsPromise` says so as a
  refinement of `TokenStore`.
* `SkippedSaltsTaken`: the space is reported exhausted for cause only.
* `CacheBacked`: the cache never answers what the table does not hold.
* `EveryRequestEnds`: `app.LOCK` and SQLite's lock are never waited for in a
  circle; a waiting connection is served or times out.
* `ResolvesToHost`: a host token is turned back into its host, or, for a
  linked short name, into the FQDN it is the label of.
* `ReanonymizedUnchanged`: tokens of earlier exports stay as they are, also
  the bare `host-x` that has no row of its own.
* `LinkedInDocument`: with a label index the order of short name and FQDN in
  the document makes no difference.
* `Resolves`: a flat pseudonym resolves to its address for ever; a joined one
  too, unless it is also a flat one; what the sweep puts in the place of a
  pseudonym resolves to that pseudonym.
* `ApartWithinWay`, `SubnetsKept`, `FlatReanonymized`: what survives mixing the
  modes. Within one way addresses stay apart, subnet mode keeps the grouping, and
  a flat pseudonym treated again in flat mode stays.

* `LiveSessionsAuthentic`, `EndedForGood`: a password change, a reset or a
  deactivation ends every session that rests on what it replaces, whatever was in
  flight, and no request in flight revives one.
* `AdminsEverywhere`, `AdministratorRemains`: concurrent patches leave an
  administrator all tenants; patches that do not overlap leave an administrator.
* `EntitledSinceArrival`, `AuditedBeforeDelivered`: work on a tenant was
  permitted at some moment since the request arrived, and text that was
  pseudonymised or restored goes out after its audit row. The reports have no
  such row.
* `LiveUnderMaster`: the application never serves a vault of a former key, unless
  a reset failed after it archived the key and the application went on.
* `Recoverable`, `PairedArchives`: resets cut short anywhere, also while commands
  have the files open, lose no row and no key but those in an archive that a
  reset of the same second replaced; and an archived vault belongs to the archived
  key of its stamp, unless two secret resets took that stamp.
* `CacheCurrent`: a cache with the time of its file holds what the file has said
  at that time. Truncating, reading and writing may fall in one tick: then a
  loader can store the empty reading under the time of the new content, and it
  is the save's emptying of the cache that keeps this from lasting, unless a
  loader had read before and stores after. With no such loader the cache
  holds the content.
* `KitsCurrent`: when nobody is rebuilding it, a registry with the time of the
  kits holds what they have said at that time, or what a rebuild that overlapped
  had read: an administrator's `force_reload` beside a request's rebuild can leave
  that. Without such an overlap KITS and ALIASES agree.
* `NoMailDelivered`, `ClearForAReason`, `BlockedNotDelivered`, `IdentitySwept`:
  what can be in clear in a delivered document. `BlockedNotDelivered` excepts the
  one gap there is: headers of structured files in the CLI, whose verdict
  (`logmask.py` 3809) does not look at DLP blocks. `IdentitySwept` excepts a final
  sweep that raised, which the code swallows.
* `SafeModeDelivers`: what safe mode may refuse.
* `SameFieldSameTreatment`: edits during a document do not split it.

The definitions marked "Faulty variant" are plausible slips in the code. Each
stands before the definition it would replace; with the replacement TLC finds
the corresponding property violated, which shows that the property depends on
that code.

**Bounds.** In `vault` two FQDNs have the same candidates and a common label,
and the label and a further short name have their roots for candidates: with two
salts every branch of `get_or_create` and `register_alias`, exhaustion and both
reasons for a refused alias included, is reached. With one request per
connection every statement of one can fall between any two of the other, and
either can start after the other has ended. A third connection adds nothing to
safety, which the theorems cover for any number; `vault_live` has one because
contention for `app.LOCK` needs two threads and contention for SQLite an
outsider, and makes do with two names because waiting does not depend on which
name is waited for. In `hostnames`
three values are what an ambiguous label takes, and two documents what
history takes. In `ipv4` each network, synthetic network and octet has one rival,
which suffices for two pseudonyms to coincide; a pseudonym treated again in
subnet mode asks for a third synthetic network, which is not there. Four values
allow an export, its second treatment, and two more addresses after it.

In `accounts` every property relates two requests, or a request and a login; a
third request allows one to use what the two have changed. One failure is enough
to be limited, and the clock reaches the idle limit, the age limit and the end of the
window. In `tenantfiles` the properties relate one tenant's files to the key and
to another tenant's. One row is enough: each property speaks of one row at a
time, no step depends on which rows a file has, and a request or a command may
also end without one, leaving the file it has opened. Three keys allow a second
reset or a restart without a key; two resets, of either kind, fall in one second
or in two; with two kills a restart may be killed as well. In `documents` two cells suffice for one to bear on the other (what the
vault learns, what the majority of a column is, which value a decision was made
from). The documents that an administrator interferes with have one field that
override, keep list and kit all speak of; two edits are one before and one after
a load, two ticks tell a file from its successor. The other documents are on
their way alone, from every configuration they may find.

**Deadlock** is not checked: a slot that has served `MaxRequests` stops, a
document ends, and counters reach their bounds. For the vault the stronger
`EveryRequestEnds` is checked instead.

**Fairness.** `FairSpec` assumes that each thread or process that can take a
step of its own eventually takes one (`WF` of `Step(c)`): they are scheduled by
the operating system, and SQLite's busy timeout ends a wait. Arrivals and kills
are not fair. Python's lock is not fair between threads; a thread could in
principle be overtaken for ever, which the bound on requests excludes.

**What the violations show.**

* `vault_pst`: `cmd_anonymize_pst` writes the output, then commits
  (`logmask.py` 3895-3899). A failing commit or a kill in between leaves an
  output that no vault can reverse. The other commands commit first.
* `hostnames_ambiguous`: `{a: web01.milano.local, b: web01.roma.local, host:
  web01}` gives `web01` the root of the Milan host, because the alias row of the
  first FQDN answers after `_resolve_bare_host` has declined. The test in
  `tests/test_pseudo_identity.py` puts the short name first.
* `ipv4_merge`: `pseudo_ipv4_subnet` never compares the joined address with the
  flat pseudonyms. With about 2000 addresses of either kind in one vault some
  dozens coincide, and the flat address is what they all resolve to.
* `accounts_wildcard`: `update_user` reads the role and writes it back
  (`auth.py` 516-547). If another patch makes the account an administrator in
  between, a patch that resets the password writes `reverser` back and leaves
  the tenant `*`, which the code says is reserved for administrators.
* `tenantfiles_second`: both resets name their archives by the second
  (`app.py` 1825, 1860), and `Path.rename` replaces a file of that name. A row is
  committed and given out, the vault is archived, a command opens the vault
  anew, and a second reset within the second renames it onto the first archive.
  A second secret reset within the second replaces the archived key in the same
  way. The docstrings say that nothing is destroyed (1806-1808, 1850).

One more disagreement is visible in the modules without a run:
`transform_scalar` (`structured.py` 344-398) has no branch for `redact`. A JSON
field with that override and a name like `status` is delivered in clear; in CSV
it is elided. The CHANGELOG (166-167) says that overrides hold in every format.

## Theorems

Every invariant and action property of the passing runs, and the refinement of
`TokenStore`, is also a theorem of the specification, proved for all values of
the constants: any number of names, connections, requests, tenants, threads or
cells, in `Vault` any function for the keyed derivation, and no limit but the
bounds themselves, which may be as large as one likes.

| Module | Theorem | Property |
|---|---|---|
| `VaultProofs` | `Typing` | `TypeOK` |
| | `ReversibleAlways` | `Reversible` |
| | `NamesNeverMerge` | `NoMergedNames` |
| | `CachesAreBacked` | `CacheBacked` |
| | `SaltsSkippedForCause` | `SkippedSaltsTaken` |
| | `RowsNeverChange` | `RowsArePermanent` |
| | `VaultKeepsPromise` | `KeepsPromise` |
| `AccountsProofs` | `TypesHold` | `TypeOK` |
| | `ResetLocksOut` | `LiveSessionsAuthentic` |
| | `AdminsHaveWildcard` | `AdminsEverywhere` |
| | `WorkWasAllowed` | `EntitledSinceArrival` |
| | `NothingUnaudited` | `AuditedBeforeDelivered` |
| | `NoLockout` | `AdministratorRemains` |
| | `EndedStaysEnded` | `EndedForGood` |
| `TenantFilesProofs` | `TypesHold` | `TypeOK` |
| | `ServedVaultsReadable` | `LiveUnderMaster` |
| | `NothingLost` | `Recoverable` |
| | `ArchivesMatch` | `PairedArchives` |
| `HostNamesProofs` | `TypesHold` | `TypeOK` |
| | `TokensResolve` | `ResolvesToHost` |
| | `TokensPassThrough` | `ReanonymizedUnchanged` |
| | `ShortNamesLinked` | `LinkedInDocument` |
| `Ipv4Proofs` | `TypesHold` | `TypeOK` |
| | `PseudonymsResolve` | `Resolves` |
| | `WaysKeepApart` | `ApartWithinWay` |
| | `GroupingKept` | `SubnetsKept` |
| | `FlatPassesThrough` | `FlatReanonymized` |
| `DocumentsProofs` | `TypesHold` | `TypeOK` |
| | `CachesStayCurrent` | `CacheCurrent` |
| | `RegistryStaysCurrent` | `KitsCurrent` |
| | `NoMailLeaves` | `NoMailDelivered` |
| | `OnlyForAReason` | `ClearForAReason` |
| | `BlockedStays` | `BlockedNotDelivered` |
| | `SweptEverywhere` | `IdentitySwept` |
| | `SafeModeRefuses` | `SafeModeDelivers` |
| | `TreatedAlike` | `SameFieldSameTreatment` |

Each proof is one inductive invariant, `IInv`, with a lemma per action (or per
kind of action) that the step preserves it, and the properties drawn from it.

* **Vault.** `Reversible` alone is not inductive: `Deliver` needs to know that
  the rows behind its output are committed. `OutputBacked` says that the output
  agrees with the table the connection sees; `PositionInv` that a connection at
  "answer" has no transaction, so the table it sees is the committed one;
  `TableInv` that the open transaction only adds to the committed table and is
  injective, which makes every commit harmless to what was delivered before.
  `NoMergedNames` then follows from injectivity, `RowsArePermanent` and the
  refinement from `StepEffect`, a summary of what a step does to the committed
  table and to what was delivered.
* **Accounts.** The invariants say where a request in flight stands: what its
  handler has checked and read (`StandingInv`), and that what it read of its user
  is something the user was entitled to while it was in flight
  (`EntitlementInv`). `SessionInv` keeps ended sessions on accounts that exist.
  `AdministratorRemains` needs `SoloInv`: while no two patches have overlapped,
  the one in flight acts for a user who still is an active administrator, and what
  it read of its own account is still true. It follows that the patch either
  leaves that administrator or changes somebody else. Without the hypothesis the
  last two administrators can demote each other.
* **TenantFiles.** `BaseInv`: who is past its stamp holds
  `app.LOCK`, the key file is where the steps of the reset have left it
  (`LockInv`), a command's handle is on a file of its tenant or on one without a
  name (`HandleInv`), and what the web application has in a served vault is under
  the key file, with nothing left in the vaults a reset has passed (`LiveInv`).
  That suffices for `LiveUnderMaster`. `IInv` adds that what is archived under a
  stamp comes from resets that took it (`StampInv`), that every row given out and
  every key in use is on disk or was in a replaced archive (`KeptInv`), and that
  what a reset has archived under a stamp of its own is under the key it will
  archive (`PairInv`). None of it assumes that resets are a second apart.
* **HostNames.** A row is empty, the name's own token, or an alias of an FQDN
  whose row is there (`RowsSound`); rows are only added, so what an earlier
  export rests on stays (`Extends`); every pair put in an output is backed by
  rows (`Backed`). `LinkedInv` carries the link between short name and FQDN from
  the moment the document arrives, in any order of mapping.
* **Ipv4.** No two rows of a kind share a pseudonym (`Sound`), rows are only
  added (`Grows`), and each address shown is backed by the rows of its way
  (`Backed`). The cache of negative answers of `owns` stays right because
  what a request found foreign is a pseudonym of no committed row.
* **Settings.** A load takes the file's time before it reads, and a rebuild of
  the registry its time before it loads; and times only grow (`TimesOrdered`,
  `KitTimes`), so a file that is written either keeps its time, and has said one
  thing more at it, or gets a time that no cache and no thread knows. Hence what
  a thread is about to store has been said at the time it saw, whenever the file
  still has that time (`StoresCurrent`, `KitsKnown`). `OneBuilder` says, as long
  as no rebuild overlaps, that one thread at a time is between the two stores
  of the registry. No hypothesis on clock or threads is needed.
* **Documents.** First one value: whatever the decision, format and mode, what a
  cell leaves in clear is reported or has its reason (`CellSound`), and what it
  leaves in clear, the user name apart, depends on the request, the field, its
  decision and the items only (`LastingSound`), not on what the vault has
  learnt. Then the request: decisions keep the reason they were made for
  (`DecisionsInv`), although configuration may have changed since; every cell
  put out keeps what was true of it (`CellsInv`), through the final sweep too;
  and the verdict looks at all of it. The steps of the administrators leave the
  document alone and preserve the invariant of `Settings`.

**Assumptions.** The named `ASSUME`s of the modules, which TLC evaluates on each
instance: null values lie outside the sets they complete; bounds are natural
numbers; web and CLI connections are disjoint; names that look like tokens count
as look-alikes; jobs and DLP policies have their shape; configuration says only
what its loader accepts (`Sayable`: overrides of unknown actions are dropped, a
keep list only keeps). `AccountsAssumption` includes `SoundStart`: the database is
one the program has left, with an administrator as `bootstrap_admin` makes one.

The invariants were found with TLC before they were proved: those of
`HostNames`, `Ipv4` and `TenantFiles` on the instances of the runs (`Ipv4` with three
values), and that of `Documents` on all 1.4 million states of its run. The
attempt to prove `SoloInv` showed that overlap has to be noted when a patch
arrives: a patch that has passed its checks before another one arrives, and writes after
it, overlaps with it too, and can leave no administrator.

Only model-checked: `EveryRequestEnds`, a liveness property, which the prover
cannot handle. The runs that expect a violation say what does not hold.

## Not modelled, and the plan

* Regular expressions, file formats, kit contents and the web interface are text
  and data. `Documents` represents what the expressions find by classes of
  values; that a given expression finds what it should is for tests.
* The builders of the other tokens are pure functions. `Vault` leaves open which
  collisions they have.
* The two strategies of `sweep_known` differ in how they scan text.
* `workflows.py` chooses options of a request before it starts.
* `Documents` with two savers at once: an update is lost (`app.py` 240), which
  needs no model to see. The instance has one administrator, who may rebuild
  the registry beside the request; the theorems cover any number.
* Vault and files are not composed: `TenantFiles` takes from `Vault` that a
  commit is atomic and that delivered rows are committed.

To come: an abstract specification of what a tenant's files promise, with
`TenantFiles` shown to implement it as `Vault` implements `TokenStore`, and
statements about the parts of hazards that no property covers yet.
