# Verification of the ZATCA e-invoicing library and server

TLA+ models of `@dokhna-tech/zatca` (packages/core), its storage adapters and
the standalone server (packages/server), model-checked with TLC and, but for the
liveness properties, proved with TLAPS. Paths below are relative to the
repository's `packages/` unless they begin with `docs/`.

## 1. Inventory

The library issues Saudi e-invoices: every document of an EGS unit (a point of
sale, identified by VAT number and EGS uuid) carries a number from a counter
and the hash of its predecessor, is signed, recorded and reported to ZATCA, the
tax authority. The server does this for many tenants over HTTP and obtains
their certificates ("onboarding").

| Component | State | Operations | Correct when |
|---|---|---|---|
| Issuers, `core/src/issue/*` | none of their own; locals across awaits | `issueInvoice` and eight issuers: claim number, read head, build, record | numbers are unique and gapless, links are heads, a returned call is recorded |
| Builders, `core/src/invoices`, `templates`, `xml`, `crypto/sign.ts`, `crypto/hash.ts`, `qr` | a template and a document under construction | populate, add lines and totals, hash, sign, QR code | the finished document verifies, chains, and says the same thing everywhere |
| Storage contract, memory adapter | counter rows per scope and month, records, chain heads | `incrementCounter`, `getPreviousHash`, `recordInvoice`, `updateInvoiceStatus` | each is atomic; records never change but for their status |
| Postgres and Mongo adapters | the same in tables with a unique index and `created_at` | the same, several queries each | the queries together behave atomically; the served head is as new as overlap allows |
| `POST /invoices` and idempotency store, `server/src/routes/tenant-invoices.ts`, `middleware/idempotency.ts` | in-flight and committed slots with expiry | `begin`, `commit`, `release` around issue, submit, status, audit | one key runs once at a time, replays are faithful, slots are not left behind |
| Registries, `server/src/tenants/registry-*.ts`, ciphers | tenants, encrypted credentials, API keys | `create` ... `softDelete`, `put`, `get`, `issue`, `resolve`, `revoke` | the three backends cannot be told apart; vault, keys and deletion keep their promises |
| Admin and tenant routes, `server/src/routes/admin-*.ts`, `tenant-invoices.ts`, unit of work, semaphore | open transactions, slots, the cap | create, patch, delete, issue and revoke keys, onboard, rotate, cancel | effects and audit rows match, revoked keys are not served, the cap is exact, requests end |
| Onboarding run, `server/src/onboarding/run.ts`, `/unlock` | tenant state and claim, vault, certificate expiry, audit rows | claim (CAS), handshake, save (unit of work), mark failed, unlock, delete | one run at a time, credentials consistent, a crash does not wedge, deletion is final |
| `core.onboard`, compliance runner, HTTP client, openssl, `core/src/onboarding`, `compliance`, `api`, `crypto/generate-*.ts` | key, temporary files, certificate, scenario results, attempts, progress row | CSR, OTP exchange, six scenarios, CSID exchange, progress | artifacts belong together, a CSID follows passed scenarios, progress is that of the run |
| Audit list, redaction, certificate verification, config, CLI, metrics | | | not modelled, see section 7 |

How they interact: the route calls the dispatcher, which calls the storage
adapter twice before and once after the document is built; every call is an
await, so any other request of the process, or any other process on the same
database, runs in between. The onboarding route calls `runOnboarding`, which
uses the tenant row as a distributed lock with a time limit and then writes
vault, expiry, state and audit in one unit of work: a transaction on Postgres,
four writes one after the other elsewhere.

What is hard to test: the interleavings between those awaits, answers that are
lost after the work was done, processes that die while they hold a number, a
slot or a claim, work that outlasts the slot or claim it was done under, and
the boundaries of months and windows. `PROJECT.json` lists these hazards line by
line with the properties that cover them.

## 2. Modules

| Module | Contents |
|---|---|
| `InvoiceIssue` | issuers over an atomic adapter; properties; inductive invariant |
| `InvoiceIssue_proofs` | its theorems |
| `InvoiceStore` | abstract: `recordInvoice` as one step |
| `RecordInvoice` | `recordInvoice` of the database adapters, query by query; refines `InvoiceStore` |
| `RecordInvoice_proofs` | its theorems, the refinement among them |
| `InvoiceRoute` | `POST /invoices` with the idempotency store |
| `InvoiceRoute_proofs` | its theorems |
| `Amounts` | doubles, truncation, line, tax and monetary totals (operators) |
| `UblDocument` | templates, first-match replacement, the XML document (operators) |
| `SignedDocument` | hashing, signing, QR codes (operators) |
| `DocumentBuild` | the eight builders over these three |
| `DocumentBuild_proofs` | its theorems, and what the recursive definitions of the four compute |
| `Onboarding` | `runOnboarding`, the lock, `/unlock`, deletion |
| `Onboarding_proofs` | its theorems |
| `HttpClient` | attempts and retries of a call to ZATCA |
| `CsrGeneration` | openssl probe, key pair, temporary files, CSR |
| `CoreOnboard` | `core.onboard` and the compliance runner over these two; progress rows |
| `CoreOnboard_proofs` | its theorems |
| `RegistryTypes`, `RegistryMemory`, `RegistryPostgres`, `RegistryMongo` | the three registries as functions of their tables (operators) |
| `TenantRegistry` | the same calls to all three |
| `TenantRegistry_proofs` | its theorems, the agreement of the three among them |
| `TenantAdmin` | tenant and key routes in their unit of work |
| `AdminOnboard` | `/onboard` and `/credentials/rotate`: cap, idempotency, run; extends `TenantAdmin` |
| `TenantApi` | authentication, load and cancel; composes the two |
| `TenantApi_proofs` | theorems about the cap, the slots, authentication, cancelling and the unit of work |
| `MC...` | instances and symmetry sets for TLC |

Operators named `X_Y` are faulty variants of `X`; each shows that a property
notices a plausible mistake in `X`, and no specification uses them.

### InvoiceIssue

A call is a process with the arguments `req[c]`. `issueInvoice` and `Reject`
are the dispatcher and the issuer up to the first await: `requireSigning`,
`assertScope`, and the clock, which `incrementCounter` reads synchronously
before it reaches the counter row. `incrementCounter`, `getPreviousHash` and
`recordInvoice` are the three awaits. Phase 1 kinds skip the second and carry
the base hash. `Abort` is any rejection or the death of the process; a lost
answer is the step followed by `Abort`, or `recordInvoice` with `ack = FALSE`.
`updateInvoiceStatus` and `NextMonth` may happen at any time.

Abstractions: the eight issuers differ only in kind, so `Kind` is a parameter.
A call builds one document, so the call itself names the hash and the random
uuid (distinct documents have distinct hashes). `readAt` is a history variable:
the number of records when the head was read. XML, signature and
QR code are the subject of `DocumentBuild`; a serial is the pair of month and
number, without its formatting.

### RecordInvoice and InvoiceStore

One query and the code up to the next await are a step. `SelectExisting` takes
the timestamp when it finds no row, as the code evaluates `new Date()` while it
sends the INSERT; `InsertRow` runs later. `UniqueViolation` and `RereadWinner`
are the catch block. A call may be repeated with the same record after an error
or a success. `SortsById` distinguishes Postgres (`ORDER BY created_at DESC, id
DESC`) from Mongo (`createdAt` only, where `getPreviousHash` may be any of the
newest rows). The processes share one clock; skew between hosts would only add
further lag of the head.

`InvoiceStore` is what the contract promises: the first document stays, the
same record again is a no-op, anything else is a conflict. Equality includes
the status, so recording a document again after its status was updated is a
conflict as well; the abstract specification says so because `recordsEqual` of
all three adapters does.

### InvoiceRoute

A request is a process; a retry is another request with the same key. Actions
follow the handler: `Refuse`, `ProceedUnkeyed`, `Claim`, `Busy`, `Replay`
(arrival), `Issue` ... `UpdateStatus`, `Audit`, `Commit` (work), and `Release`
(the catch block). `commit` and `release` act on the key's entry whoever made
it, as the code does. ZATCA's decision and what the client learns of it are
separate choices in `Submit`, since a request that timed out may have been
processed and is counted as rejected, and one answered with 200 or 202 is
counted as accepted whatever its body says. `MaxWork` bounds how long a handler
runs.

### Onboarding

A run is one call of `runOnboarding`. `Claim` and `ClaimMisses` are the CAS
loop over the four expected states. Time is what is left of each claim, so no
clock bound is needed. With transactions the unit of work is `SaveAtomically`,
whose COMMIT answer may be lost; otherwise it is `PutVault`,
`setProductionExpiry`, `Promote` and `WriteAudit`. `Throws`, `MarkFailed` and
`MarkFailedSwallowed` are the error path, `Crash` the death of a replica.
`promoted` and `overran` are history variables. core.onboard is one step that
succeeds or throws; `CoreOnboard` has its inside.

### CoreOnboard, HttpClient, CsrGeneration

`http[r]` is the call of run r: `fetch` up to the head of the answer, `readBody`
after it (no timeout covers the body, and a body that breaks counts as a network
error whatever the status), retries as `Retries` allows. ZATCA is external: it
takes an OTP once and may process an attempt whose answer is lost, or is none of
200 and 202, which ends the call with an error (201, a redirect); it is not
assumed to check anything else, so that the properties rest on the code.
`CsrGeneration` has the probe, whose first result is kept for good, and the two
temporary files with a failure at every step; `safeUnlink` ignores its errors,
and a removal that fails although the file is there is not modelled.
`readProgress` and `writeProgress` are the two queries of
`recordOnboardingProgress`, `readForError` and `writeError` those of the failure
mark. Runs of one tenant overlap freely, since a run may outlast its lock;
`ProgressFaithful` speaks of those that did not.

### Registries

Each backend is a module of pure functions from its table and the arguments to
a new table and an answer (a value or an error code), written in the backend's
own terms: rows with NULL columns and the CASE of the CAS (Postgres), documents
with absent fields, `$set` and `$unset` (Mongo), maps (memory).
`TenantRegistry` gives the same call to the three and remembers whether they
answered alike. `Redeploy` restarts the server with another key ring, `Tick` is
the clock. Scrypt, base32 and AES are library code: a token resolves to the row
it was issued for, an envelope carries its key id.

### TenantAdmin, AdminOnboard, TenantApi

A process handles one request; a retry is another process. What the tables hold
only grows (created, deleted, issued, revoked, audit rows), so a database and
the writes of an open transaction are records of sets. READ COMMITTED: others
see a transaction's writes after its COMMIT, and wait for rows it has written.
Without transactions every write is visible and final. `ReadKeys` and `verify`
are the two halves of `resolve`, between which scrypt runs. The onboarding
routes take the semaphore before anything else, so that at the cap even a replay
is refused. `cancelInvoice`, `updateInvoiceStatus` and `auditCancelled` are the
cancel route with its `finally`. Any 200 or 202 is an answer `Answer` goes on
with: its `clearanceStatus` is CANCELLED or another, for which FAILED stands;
ZATCA has cancelled in the first case only, and the route looks at neither. A
call that throws may still have cancelled.

### DocumentBuild, Amounts, UblDocument, SignedDocument

A document is a record of the parts the code reads or writes by name, each a
sequence of elements; text that is neither is left out. A template is a function
from slots to tokens; a token is the sequence of its words, so that
`SET_CITY` is a prefix of `SET_CITY_SUBDIVISION`, and `Replace` takes the first
slot a token matches, as `String.prototype.replace` does. Hashes, signatures
and QR codes are terms that contain their arguments, hence injective; the
length limit of a TLV value is the constant `MaxLength` instead of 255 bytes.

Amounts are JavaScript doubles. A double is the decimal it stands for and the
side on which it errs; an operation has the set of results that are possible,
since which side it is depends on bits the model leaves out. `toFixedNoRounding`
cuts the printed number, so that 6.8999999999999995 loses a halala, and a number
below 1e-6, printed with an exponent, is cut after its leading digits. The
decimal is kept to 1e-6 riyals. Quantities and rates are natural numbers, which
is narrower than `lineItemSchema`; a document has at least one line, as the
schema demands.

The loops of the code (replacements, discounts, taxes, lines, elements that are
set or deleted) are recursive functions over the number of turns, such as
`Replaced`, `RunningSums` and `SetAll`; the proofs are about these.

A Phase 2 document names the hash of the last document of its kind, the head
that `getPreviousHash` serves its issuer; Phase 1 documents are not chained. A
counter value is the sequence of the counter row of its month (`counter`), so
the kinds share the values and every month starts with 1, while the chain goes
on over the months. A request names the month in which it is made.

## 3. Runs

| Run | Instance | Shows |
|---|---|---|
| `issue_chain` | 1 scope, 3 calls, 2 chained kinds and 1 Phase 1 kind, 1 shared id, 2 statuses, 2 months | serials unique, links exact, forks only by overlap, returned documents stored, records immutable |
| `record_race` | 2 calls, 2 ids, 2 documents, 3 clock values | atomicity (refinement), acknowledged documents stored, head lag explained |
| `route_replay` | 3 requests, 1 key or none, window 2, work at most 1 | one request per key at a time, duplicates explained |
| `route_slow` | 2 requests, window 1, work at most 2, fair | slots owned, replays faithful, slots settle |
| `onboard` | 2 runs, 1 unlock, lock of 2 units, with and without transactions, fair | lock exclusive, what is saved belongs together, deletion final, no wedge |
| `core_onboard` | 2 runs, 2 OTPs, 2 scenarios, one run retries once | artifacts coherent, CSID only after passed scenarios, issued twice only after a loss, progress right |
| `registry` | 2 tenants, 2 keys, 2 materials, 4 rings and a noop cipher, 4 tenant calls, 3 instants | backends indistinguishable, vault faithful, keys scoped, deletion final |
| `tenant_api` | 2 requests of any of the routes, 2 tenants, 2 keys, cap 1 with and 2 without transactions, fair | see the properties; every request ends |
| `document` | 2 documents: the first of 8 kinds with every choice of optional parts, the second with 5 sorts of lines, in the same month or the next; 2 certificates, UTC+3 | slots, digest, chain, QR code, times, parts and totals agree |

Why the bounds are enough to be interesting: two overlapping calls make every
race of two actors; the third call adds an actor that acts on what the race left
behind (a fork that is extended). One scope is enough for them, since nothing a
scope's calls touch belongs to another; that the tenants stay apart rests on the
theorems, which are about any number of scopes. Two ids give a conflict and an
unrelated row. Work shorter and longer than the window are separate instances
because the promise differs. Four registry calls are create, claim, another
operation and deletion, in any order; two scenarios are one that fails and one
that passes; two requests contain an operation and the one that undoes it, one
with transactions waiting for the other's rows. The lines of `document` are 2.30
x 3 less 1.40, 8.20, 0.10 x 3 less 0.30, and 0.333 x 2 and 20.40 x 3 with
another tax: a double below its decimal, a clean one, a rest that cancels, a cut
fraction, and a tax total that is three halalas above the line's; a second
document in the next month starts the counter again and continues the chain of
the first. The theorems remove the bounds.

Deadlock is checked in `tenant_api`, whose requests wait for each other's rows.
The other models end when their calls have ended, so it is not checked there.

Runs that are expected to fail state what a comment says and the code does not
do; `findings` in `PROJECT.json` quotes the lines.

| Run | What happens |
|---|---|
| `rejected_unmarked` | the status update of a submitted invoice addresses the invoice number, while the record is stored under a uuid; it throws and the record stays pending |
| `free_line` | 3 x 0.10 with a discount of 0.30 leaves 5.55e-17, which is printed with an exponent, and the line amounts to 5.55 |
| `icv_restarts` | two documents are issued in two months, and both have the counter value 1 |

The conditions in the passing properties record further limits of the code:
`SerialsUnique` is per month, because counter rows are; `ForkNeedsOverlap` and
`HeadLagsByOverlap` admit forks and a head that is not the last row, where calls
overlap; `ExclusiveExecution` is checked for work shorter than the window, since
an in-flight slot expires like any other; `LockExclusive` and `CredentialsMatch`
exclude, as `Undisturbed`, runs that outlast their lock, that fail after their
promotion took effect, and unlocks; `KeyOutlivesByOverlap` admits a key that is
issued while its tenant is being deleted, and a deletion that fails half-way
without transactions; `ServedWasEntitled` speaks of requests that came after the
revocation, and one whose key is revoked while scrypt runs on the row it has
read is served; `CancelAccounted` admits a record that is marked and audited as
cancelled on a 200 with the status FAILED; `ChainVerifies` compares counter
values within a month; `TotalsCohere` admits two halalas for every tax, and
speaks of documents whose lines are `Ordinary`: worth nothing, or at least
0.0001 riyals, and taxed at less than 100%. It excludes discounts above the
price, the rests of `free_line`, and taxes below 1e-6, which print with an
exponent.

### Disagreements met on the way

Each was found by modelling the lines named; the passing properties are stated
so as to admit them.

* `core/src/types/storage.ts:8` and `types/invoice.ts:147` call the invoice
  counter of an EGS monotonic; it is the sequence of a row per scope and month,
  and starts with 1 every month (`IcvRises`, the run `icv_restarts`).
* `docs/standalone-server-api.md:344` says the cancel route cancels the invoice
  with ZATCA and answers `{"status":"cancelled"}`; it does so for every 200 and
  202, also if `clearanceStatus` (`api/cancel-invoice.ts:46`) is FAILED, and
  marks the record cancelled and audits "ok" (`CancelAccounted` says nothing
  else does).
* `storage-mongo/README.md:39` says hash-chain writes are serialised per scope;
  the head is read one await before and stored one after, and two overlapping
  calls fork the chain (`ForkNeedsOverlap` says nothing else does).
* `docs/storage-adapters.md:266` says one chain covers all kinds; every issuer
  passes its kind, so each has its own.
* `middleware/idempotency.ts:4` says a retry does not execute again; an error
  after the submission releases the slot, and the retry submits a second
  document.
* `docs/standalone-server-operations.md:183` calls the onboarding lock
  distributed-correct; promotion and failure mark do not compare `claimedBy`, so
  a run that outlasted its claim clears that of its successor.
* `routes/admin-api-keys.ts:48` refuses to mint a key for a deleted tenant; the
  check is outside the unit of work. The key opens nothing, since authentication
  asks for the tenant again (`ServedWasEntitled`).
* `api/http-client.ts:16` says 4xx is not retried; it is when its body breaks.
* `onboarding/run.ts:238` says `setState` clears an earlier `lastError`; no
  registry does, and the error of a failed run outlives a later success.
* `routes/tenant-invoices.ts:134` expects `clearanceNumber` on the stored
  record; nothing stores it, so cancelling needs it in the request.
* `onboarding/onboard.ts:278` says production was short-circuited before; it is
  not.
* `validation/schemas.ts:307` says the builders validate again with the refined
  schema of their kind; none does. A credit note without `cancelation` becomes
  an invoice of type 388.
* `qr/tlv.ts:29` says no field exceeds 255 bytes; `vatName` has no limit, and a
  long one makes every document of the tenant fail after its number was taken.
* Debit notes cut the sum of two cut amounts again: 0.7 + 0.1 is printed as
  0.79. TaxInclusiveAmount is built from the taxes of the lines, TaxTotal from
  uncut ones, so the two differ: by three halalas for 20.40 x 3 with taxes of
  15% and 5% (12.21 against 12.24).
* `crypto/openssl-probe.ts:73` keeps a failed probe for the life of the process.

## 4. Fairness

`SlotSettles`: every await of a running handler is answered (the store is in
memory; a call to ZATCA has a timeout up to the head of its answer, and its body
is assumed to end). `NotWedged`: time passes and an admin who is refused keeps
asking; no run is assumed to finish, and runs may crash. `OpsEnd`: weak fairness
of every request's steps; a query, a hash or a call settles with an answer or a
failure, and a wait for the rows of another transaction is not an answer, so
that the property is about the transactions giving them back.

## 5. Proofs

`InvoiceIssue_proofs`, from `ConstantsAssumption` (base hash, calls and
supplied ids are distinct, kinds of the two phases are disjoint): for any sets
of scopes, kinds, calls, ids and statuses and any number of months

* `TypeCorrect`, `Invariance` (the inductive invariant `IInv`),
* `NumbersExact`: `SerialsUnique` and `NoNumberSkipped`,
* `ChainLinks`: `HeadIsNewest` and `LinkIsSnapshot`,
* `ReturnedIsStored`: `DoneIsRecorded`,
* `ForksExplained`: `ForkNeedsOverlap`,
* `RecordsNeverRewritten`: `RecordsImmutable`.

`IInv` strengthens the properties in three places. `CallsSound`: a call before
the counter holds no number (otherwise an increment could repeat one).
`ReadsAreHeads`: what a building call holds was the head at `readAt`, which
turns into `LinkIsSnapshot` when it records. `StoredOnce`: a stored chained
document belongs to one ended call, so its `readAt` no longer moves. The
invariant rests on a few lemmas about `IsHead` under `Append` and under a change
of status. `ForkNeedsOverlap` follows without induction: if the later of two
documents with one predecessor had read the head after the earlier was stored,
its predecessor would be the earlier document or a newer one, and by
`LinkIsSnapshot` no document precedes itself.

`RecordInvoice_proofs`, from `RecordAssumption`: `Invariance`,
`AckedDocuments` (`AckedIsStored`), `HeadLag` (`HeadLagsByOverlap`, for Postgres
and Mongo) and `Refinement` (`Spec => AtomicRecord`). Its `IInv` adds
`WinnerExists`, a refused INSERT has a row to find, so that the violation is
never rethrown, and `StampsFollow`, a stamp is not older than that of any row
its call could see.

`InvoiceRoute_proofs`, from `RouteAssumption` (a window is positive):
`TypeCorrect`; `NoWedgedSlot` (`InFlightOwned`) and `ReplaysAreFaithful`
(`ReplayFaithful`), for requests that are as slow as they like; and, if
`WorkFits` (`MaxWork < TTL`), `OneExecutionPerKey` (`ExclusiveExecution`) and
`DuplicatesAreExplained` (`DuplicateExplained`). `WorkFits` is a hypothesis of
the two theorems and not an assumption of the module, because the code does not
ensure it: without it both are false. `SlotInv` adds `EffectsInOrder` (where a
handler is tells what it has stored and audited) and `CommittedIsAnswer` (a
committed entry is that of a request that ended well). `WindowInv` adds that a
handler at work holds its own claim, with the expiry it set (`ClaimHeld`), that
an answer stays for its window (`AnswerKept`), and that executions of one key
follow each other (`ExecutionsApart`).

`Onboarding_proofs`, from `OnboardingAssumption` (a lock has a duration; the
absence of a run is not a run): `TypeCorrect`, `LockHolds` (`LockExclusive`),
`CredentialsAlwaysMatch` (`CredentialsMatch`), `DeletionFreezes`
(`DeletedFrozen`). `LockInv` says whose claim stands in the row (`ClaimStands`):
an undisturbed run past the lock finds its own, so that the CAS refuses all
others; `SavedTogether` and `SavedInOrder` say what the unit of work has written
at each of its places, with and without transactions.

`CoreOnboard_proofs`, from `ScenariosAssumption` (scenarios are distinct and
there is one), `RunAssumption` and `RetriesAssumption`: `TypeCorrect`,
`BundlesBelongTogether` (`BundleCoherent`), `CsidNeedsPass` (`CsidAfterPass`),
`ReissueExplained` (`ReissueNeedsLoss`), `ProgressIsFaithful`
(`ProgressFaithful`). `OnboardInv` follows the artifacts: a key file has the key
of its run (`OwnKey`), a certificate that is held, or is in an answer whose head
was received, is the run's own (`OwnCertificate`), likewise for the CSID
(`OwnCsid`), results that passed were checked (`PassedWasChecked`), and while no
effect went unheard there is one CSID at most (`HeardOnce`). `RowInv` is the
progress row of a run that is alone: what it read is what it writes back.

`TenantApi_proofs`, from `NoneAssumption`, `RecordAssumption` (the absence of a
value is none), `FoundedAssumption` (there is a tenant with a key to begin
with), `CapacityAssumption` (a cap is positive) and `AdminKeysAssumption` (the
server starts): `CapHolds` (`CapExact`), `OtpSpentOnce` (`OtpOncePerKey`),
`OnlyEntitledServed` (`ServedWasEntitled`), `CancellationsAccounted`
(`CancelAccounted`), `KeysOutliveByOverlapOnly` (`KeyOutlivesByOverlap`),
`AuditIsTrue` (`AuditMatches`) and `TypeCorrect`, for any number of requests. A
first invariant, `Shape`, says that a handler is at a place of its own route;
frame lemmas then say once what a step of each route may touch. On these stand
`CapInv` (exactly the handlers between `tryAcquire` and `finally` hold a slot,
and an idempotency entry is its claimant's until its window has passed),
`BarredStays` (what bars a request is still there when the check that looks for
it comes: a revoked key before the query, a key missing from the candidates
while scrypt runs, a deleted tenant before the last check), `CancelInv` (what
the route still has to mark and to audit follows from the answer it got), and
`WorkInv`: an open transaction has written what its request asks for, holds
those rows, and no two hold one, hence nobody else has written them when it
commits. `OutliveInv` adds that a request which has seen its tenant alive
overlaps with every deletion of it, and that a deletion past its
`revokeAllForTenant` has the keys of all requests it does not overlap with;
`AuditInv`, that what happens once is owed one row by one request.

`TenantRegistry_proofs`, from `MaterialsAssumption` (material has a production
part), `NullAssumption` (no stored value is the absence of one) and
`StartAssumption` (the clock is past the debounce interval, which is positive):
`RegistriesIndistinguishable` (`RegistriesAgree`), `VaultReturnsLastPut`
(`VaultFaithful`), `TokensStayScoped` (`KeysScoped`), `DeletedForGood`
(`DeletionIsFinal`), for any tenants, keys, key rings, material and number of
calls. Agreement is a simulation, `AgreeInv`: a Mongo document, and an object in
memory, is the Postgres row without its NULL columns (`Docs`); one lemma per
operation shows that the three outcomes are again alike and the answers equal,
the CAS of `setState` being the largest, and one per reader that nothing else
can be seen. Keys differ in `lastUsedAt`: `KeyAlike` bounds the lag, which needs
that the processes remember exactly what they last wrote (`LastUsed`); with a
debounce of 0 the bound is false, hence the assumption. `KeysInv` says that a
row's hash is of its own tenant and tail, and that the rows not revoked are the
keys alive; `VaultInv`, that each document seals what was last put.

`DocumentBuild_proofs`, from `BuildAssumption` (the optional parts of a request
are there at most once; it has line items, and they are well-typed) and
`SigningAssumption`: `Types` (`TypeOK`), `SlotsAreFilled` (`SlotsFilled`),
`SignaturesVerify` (`SignedVerifies`), `ChainHolds` (`ChainVerifies`),
`QrCodesMatch` (`QrMatches`), `AllTimesAgree` (`TimesAgree`), `PartsAreOnce`
(`PartsOnce`) and `AmountsCohere` (`TotalsCohere`), for any sequence of
requests, any number of lines, discounts and taxes, any amounts, certificates,
time zone and length limit. In four layers:

* Recursive functions. `Induction` takes a set in place of a predicate, and
  follows from the well-foundedness of the natural numbers; `Recursion` says
  that there is a function that starts with a base and goes on by a step, for
  any base and step, so that the recursive definitions have the values they
  should.
* Templates. `TokenPrefix`: of all tokens only that of the city is a prefix of
  another, that of the city subdivision. `ReplaceFills`: a replacement fills its
  own slot, that of the city if the subdivision is filled already. `ApplyFills`
  carries this through a sequence of replacements, and `OrderFacts` is what the
  populators' order must satisfy for it: every slot once, the subdivision before
  the city. Hence `Populated`, from which the parsed document has its parts
  (`RenderedDocument`).
* Documents. `PureIs` and `SignedPure`: what is hashed is what the declared
  transforms keep, since the signing code writes only where they delete. The
  lemmas `Finished...` give, for one document, each invariant from `Complete`,
  the state of a document that is about to be signed.
* Amounts. A double is `Tame` if it is not negative and not all error; tame
  doubles stay tame under addition and taxation and are cut by at most a halala
  (`TameCut`, `TamePlus`, `TamePercent`). `TaxWithin`: a tax below 100% on an
  amount and on the amount cut differ by a halala at most, `LineWithin`: so the
  sum of the taxes of a line is at most one halala per tax below, two above what
  it states, since the sum is cut as well. `TotalsWithin` adds the lines up.
  With a tax of 100% or a net amount below 0.0001 the lemmas are false, which is
  where `Ordinary` comes from.

`Inv` says for the document in hand how far it is (`InHand`, `Rendered`,
`Complete`, all its lines being results of the arithmetic of its family,
`LineOK`), and for the documents built (`Archive`) that each is right, is linked
to the Phase 2 document of its kind before it, and has a counter value above
those of its month before it (`LinkOK`). For the last, `Counted` says that no
document has a value its month's row has not reached, so that the next claim is
`Fresh`. The hash to be named next is part of it, because it is read when the
builder is made and used when the document is signed.

Every inductive invariant was checked with TLC on its run's instance before it
was proved.

Only model-checked: `SlotSettles`, `NotWedged` and `OpsEnd`, liveness, which is
outside the prover's reach together with ENABLED. The three runs that are
expected to fail are counterexamples and need no proof.

`NoNumberSkipped` and `HeadIsNewest` are part of an inductive invariant and
proved with it; no run repeats them. Of the type invariants that are theorems
the runs repeat that of `InvoiceIssue`.

## 6. Components and coverage

`PROJECT.json` lists every component with its status and maps every definition
to its lines. Of the modelled files the bodies of the operations are mapped;
interface declarations, doc comments, validation of single strings, the assembly
of error messages and helpers that only format are what is left.

## 7. Not modelled

* `AuditLog.list` (used by no route) and redaction, a pure function of payloads
  the models do not have; certificate verification (`certificates/verify.ts`,
  called by nothing in the packages).
* Cryptography, canonicalisation, DER and base64: library code. XML escaping and
  `$` patterns in values given to `String.prototype.replace`.
* Checks of single strings in the validation schemas; what they refuse appears
  as a refused request or a throwing builder.
* Configuration, CLI, logging, metrics and health routes, which have no effect
  on the properties; examples.
* Clock skew between hosts, Redis-backed idempotency stores (an interface only)
  and the inside of the databases, whose single statements and transactions are
  taken as atomic. Backoff delays.

## 8. What is left

Every invariant and action property that a run checks is a theorem. Worth
adding: fractional quantities and rates in `Amounts`, for which `Times` and
`Percent` would take a decimal; certificate verification, once something calls
it; and the Redis-backed idempotency store, once there is one.
