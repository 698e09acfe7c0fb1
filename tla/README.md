# aesmsg in TLA+

aesmsg carries end-to-end encrypted messages as links. A sender's client seals a
message to a recipient's public key and uploads the ciphertext; whoever has the
link may open it until its expiry or its number of opens is reached; the sender
may revoke it. The server keeps no plaintext and no key. This directory models
the parts of that system whose correctness depends on the order of events.

## 1. The system

| part | state it keeps | operations | what is hard about it |
|---|---|---|---|
| Link store, Postgres (`packages/server-store/src/pg`) | `links`, `link_ciphertexts` | createWithCiphertext, get, incrementOpens, revoke, adminPurge, expirePastDue, pruneTerminal | concurrent opens and creates; a sweep of three separate transactions; ids that become free again |
| Message API (`apps/api/src/handlers`) | requests suspended between two store calls | create, get, open, list, revoke | state read before one await and used after the next; answers lost after the commit |
| Expiry worker (`apps/worker`) | interval timer, run in flight, shutdown flag | sweep, start, stop, shutdown | death inside a sweep; a run longer than its interval; the force-exit timer |
| Operator purge (`server-store/src/admin`) | none of its own | adminPurge | races with opens and sweeps |
| Rate limiter (`server-store/src/redis`) | one counter per window | incrementAndGet | window edges, two clocks, failing closed |
| Memory store (`server-store/src/memory`) | maps | as Postgres | awaits inside loops over the maps |
| Migrations (`server-store/src/migrate.ts`) | `_migrations` | runMigrations | two processes booting, a failing file |
| Mobile identity (`apps/mobile/src/identity`) | three keychain items, machine state | init, setupNew, importIdentity, unlock, lock, rotate, wipe | every operation is a chain of awaits; locks, other calls and process deaths fall between them |
| Mobile encrypted storage (`storage`) | data key, one file per blob | get, set, wipe | get-then-set of the key; partial clear |
| Mobile create, sent links (`create`, `links`, `settings/wipe-orchestration.ts`) | one blob of records with revocation tokens | create, record, revoke, reconcile, revoke-all-then-wipe | read-modify-write without a lock; a link without its record |
| Mobile reader (`reader`, `navigation/ReaderFlow.tsx`) | one open session, the handlers of the mounted screen | peek, begin, clear; load, open, retry, authenticate, decrypt | an open whose answer is lost; remounts; superseding links |
| Mobile contacts, settings, backup state, reminders, subscription | blobs | read-modify-writes | overlapping writes; a trust flag applied to a changed key |
| Web app (`apps/webapp`) | IndexedDB stores, keys in memory guarded by an epoch | as mobile | an epoch checked before the last await |
| Crypto (`packages/crypto`) | none | seal, open, wrap, pad | pure functions |

How they interact: the clients call the API over HTTP and may lose an answer; the
API's handlers and the worker share only the database; the operator's command
calls the store directly. On a device every part runs on one JavaScript thread,
and control changes hands only at an await.

What makes each part correct, in short. Store: a link is opened at most as often as its
sender allowed and never after it closed; a row is never live without its
ciphertext; what closed stays closed and is erased in the end; only the holder of
the token (or the operator) closes it early. Identity: no private key is lost
unless the user wiped it, a wiped one never returns, a lock holds. Sent links:
each live link has a record with its token. Reader: one tap costs at most one
open. Worker: sweeps never stack and shutdown ends once.

`PROJECT.json` lists every component with its status and every hazard with its line.

## 2. Modules

| module | role |
|---|---|
| `LinkPromise` | abstract: what the server promises about one link |
| `LinkStore` | the Postgres tables, the suspended handlers, the sweep, the purge; states that it implements `LinkPromise` |
| `LinkStoreProofs` | the inductive invariant of `LinkStore` and its theorems |
| `LinkLifeProofs` | the life of a row and its ciphertext, and the proof that `LinkStore` implements `LinkPromise` |
| `Shutdown` | a server process (worker or API) from start to exit: scheduler, requests, pool, ordered teardown, force-exit deadline |
| `ShutdownProofs` | whose queries may meet an ended pool, for any number of sweeps and requests |
| `IdentityMachine` | the mobile identity over its keychain items |
| `IdentityMachineProofs` | its type correctness, for overlapping calls too |
| `IdentityKeysProofs` | when calls do not overlap: the safety of its keys, the agreement of memory and disk, and the wipe's promise; when they do: a single rotation loses no key; what is on disk only grows, but for a wipe |
| `WebIdentity` | the browser's identity over two IndexedDB stores, guarded by an epoch |
| `WebIdentityProofs` | its safety properties, for overlapping calls, that a lock holds, and that what is on disk only grows, but for a wipe |
| `SentLinks` | the sender of both clients: upload, local records, Links tab, revocation, wipe; composed with the server of `LinkPromise` |
| `SentLinksProofs` | its safety properties, for any number of messages and calls and either client |
| `Reader` | the recipient of both clients: metadata, the consuming open, the gate, decryption; composed with the server of `LinkPromise` |
| `ReaderProofs` | no open wasted, the gate never passed by, for any number of links and requests; what `LinkPromise` guarantees, and that no client holds more answers than it allows |
| `MCLinkStore`, `MCIdentityMachine` | symmetry and constant values for TLC |

`LinkPromise` is the joint of the composition: `LinkStore` is shown to implement
it (`KeepsPromise`), and both client modules take its actions as their server, so
that neither carries the tables of the other side.

### LinkStore

One action per SQL statement or transaction; between two of them anything else may
happen.

| code | model |
|---|---|
| `links` row, or none | `rows[i]`: `gen` (which create made it, or the id itself for a legacy row with a NULL token hash), status, expiry, budget, count, `terminalAt` |
| `link_ciphertexts` row | `blobs[i]`: the create whose ciphertext is stored |
| create: validation and `get`; the transaction; the 201 | `CreateCheck`; `CreateInsert`; `CreateRespond` |
| open: read the ciphertext; `incrementOpens`; the answer | `OpenReadBlob`; `OpenIncrement`; `OpenRespond` |
| a handler that dies or whose answer is lost | `LoseCreate`, `LoseOpen` |
| revoke and adminPurge transactions | `Revoke`, `AdminPurge` |
| the sweep's three statements; a worker death between them | `SweepExpire`, `SweepErase`, `SweepPrune`; `SweepAbort` |

Abstractions. A link's token is named by the create that minted it; hashing and
comparing are equality. A token a client made up is the same as none. The clocks
of database, API and worker are one `now`, a natural number up to `MaxTime`; the
clock-skew grace is part of `MaxLifetime`. Rate limiting and malformed bodies only
keep a request from starting. GET and list read one row and change nothing, so
they have no action. Legacy rows start unopened. A failing statement rolls its
transaction back; a connection lost during COMMIT is `LoseCreate` after
`CreateInsert`. `purged` and `opens[o].won` are history variables: the links a
purge closed while active, and the link an open consumed.

The invariants are stated over whole histories: `WithinBudget` counts the
opens a link's create request ever granted, also after the row was pruned and
the id belongs to another link.

### IdentityMachine

Each call is a record whose `pc` names the await it is suspended at. An action is
the code from one await to the next, with the keychain operation it issues.

| code | model |
|---|---|
| `aesmsg.wrapped-identity`, `aesmsg.retired-identities`, the device secret's slot, the encrypted storage | `envelope`, `retired`, `secret`, `blobs` |
| `IdentityState` | `session` |
| setupNew, importIdentity | `SetupStart` (a fresh key, or one from a backup), `SetupSecret`, `SetupPersist`, `SetupFinish` |
| unlock | `UnlockStart` (load), `UnlockNothing`, `UnlockPrompt`, `UnlockRetired`, `UnlockFinish`, `UnlockRewrap` |
| rotate | `RotateStart` (snapshot), `RotatePrompt`, `RotateLoad`, `RotateWrite` (retired list, then envelope), `RotateFinish` |
| revoke pass, then wipe | `WipeStart`, then one action per deletion, `WipeFinish` |
| background or idle lock; cancelled prompt or throwing await; process death | `Lock`; `CallFails`; `Crash` |

A wrapped key unwraps exactly under the secret it was wrapped with; secrets are
numbered in the order they are created. The order of the retired list is
dropped: the reader tries all of them. `fate` is history: a key is `kept` once the
user saw it as the identity, `doomed` when a wipe starts deleting, `wiped` when it
returns. `prompted` is history too: the call passed the biometric gate since the last lock.

`Overlap = FALSE` is the user who waits for each call. With `TRUE` calls overlap
as far as the screens let them: one setup at a time (`ActionScreen.busy`),
unlocks freely (the lock screen's button is never disabled), rotations freely
while unlocked (`KeysFlow`'s guard is per mount), and a wipe that was asked for
while unlocked may run its deletions at any later time, since its revoke pass is
a chain of awaits that a lock does not stop.

### Shutdown

| code | model |
|---|---|
| worker or API process | `role`, chosen in `Init`; both run the same controller with other steps (`Steps`) |
| scheduler: interval, entry of the run in flight, stop() | `timer`, `inFlight`, `awaited`; `Tick` (skipped while a run is in flight), `Begin("scheduler")` |
| a sweep or a request, as two queries on the shared pool | `Tick`, `Request`, `FirstAnswered`, `SecondQuery`, `Ends` |
| a client that hangs up while its handler goes on | `left`, `Disconnect` |
| first signal; each teardown step, awaited in order; a step that rejects, whatever is still in progress | `Signal`, `StepEnds`, `failed` |
| app.close() waits for connections; pool.end() refuses later queries and waits for earlier ones | `Settled("http")`; `pool`, `Issue`, `Settled("pool")` |
| force-exit timer, armed before the first step | `deadline`, `Deadline` |

`torn` is history: who was refused a query by an ended pool: a sweep, a request whose
client still waits, or an orphan whose client has hung up.

### WebIdentity

| code | model |
|---|---|
| IDENTITY_STORE, RETIRED_STORE, React state, `epochRef` | `stored`, `retired`, `tab`, `epoch` |
| mount effect | `Probe` |
| setupNew, importIdentity | `SetupStart`, `SetupSave`, `SetupFinish` |
| unlock and its background loop over the retired keys | `UnlockStart`, `UnlockNothing`, `UnlockFinish`, then `UnlockOlder` per key, `UnlockDone` |
| rotate: load; verify, last epoch check, read of the retired blob; transaction; state | `RotateStart`; `RotateCheck`, `RotateAbort`; `RotatePut`; `RotateFlip` |
| lock; from an unlocked screen, the revoke pass and the deletion of every store; wipe (from the unlock screen at once) | `Lock`; `WipeStart`, `Purge`; `WipeActive`, `WipeRetired`, `WipeFinish` |
| wrong passphrase or failing transaction; the same in wipe, after it has advanced the epoch; closed or reloaded tab | `CallFails`; `WipeFails`; `Reload` |

A record wraps a key under a passphrase; a retired entry opens only under the
passphrase it was wrapped with. `lock` is called by the auto-lock, armed only while
unlocked, and by a button of the identity screen, there only while unlocked; hence the
guard of `Lock`. `slips` remembers which of six kinds of mishap a
behaviour has had: a property names those that break it, and holds under all the
others. `since` is history: no lock or wipe since the call began.

### SentLinks

| code | model |
|---|---|
| create: seal; POST; answer; record (phone: read and write of one blob; browser: one row); reminder | `send[l].pc`, one action per await; `Served`, `Refused` for the server |
| compose screen, Cancel, `cancelledRef`, abort controller | `flow`, `Submit`, `Cancel`, `ComposeAnother` |
| Links tab: refresh, reconciliation of the answer | `list`, `shown`; `Refresh`, `ListServed`, `Display` |
| revoke, delete, clear | `RevokeStart`, `DeleteStart`, `CallStep`, `ClearHistory` |
| wipe dialog: revoke all, ask about the failures, destroy | `WipeStep` |
| process death, tab switch | `Kill`, `SwitchTab` |

`slips` counts overlaps, storage failures and kills up to `MaxSlips`; a property
that holds only of the careful user says `slips = 0`. `told`, `owed`,
`stranded` and `flow.stopped` (sends cancelled since the last submit) are history. The head and
the body of an answer arrive in two steps (`Answer`, `ReadToken`): between them neither the
timer nor the abort reaches the send.

### Reader

| code | model |
|---|---|
| open coordinator: peek, begin, clear, the settling of its request | `session`; `Peek`, `Begin`, `Cleared`, `Answered` and `Failed` |
| deep link, lock, unlock, notification, finish, process death | `DeepLink`, `Lock`, `Unlock`, `LeaveForLinks`, `Finish`, `Kill` |
| ReaderFlow: load, open, try again, probe, prompt, decrypt | `Metadata`, `TapOpen`, `Retry`, `Probe`, `Authenticate`, `Prompted`, `Decrypt` |
| browser page: intent, identity gate, open, close | `PageLoad`, `WantOpen`, `IdentityGate`, `WebRetry`, `WebClose` |
| the request and the server's side of it | `post`; `Serve`, `Refuse`, `Revoked` |

As in `SentLinks`, the head of an answer (`MetadataHead`, `Head`) comes before its body.
A handler is a thread whose `pc` names its await and whose `id` is what its
closure captured. `post[o].fate` is history: why the reader no longer has an
answer, if it does not. `screen.authed` is history: the text was shown after a
prompt. Malformed links (400), attachments and the `no_identity` state are left out.

## 3. What the runs check

| run | instance | shows |
|---|---|---|
| `races` | 1 id, 2 creates, 2 opens, 1 worker, budgets 1, 2, unlimited, clock 0..2 | eleven properties of `LinkStore` over every interleaving, id reuse after pruning included; every step is one of `LinkPromise` or invisible to it |
| `live` | 1 id, 1 create, 1 open, clock 0..4, retention 1 | past-due ciphertexts are erased, terminal rows forgotten |
| `docs_purge` | minimal | expiry does not erase in the step that flips the status, as the security model says |
| `redeploy` | 3 sweeps or requests, worker or API | whose queries a redeploy can refuse, and that it always ends |
| `sequential` | 3 keys, one call at a time, both KDF weights, 3 secrets | five properties of the identity with deaths, failures and locks at every await |
| `late_unlock` | 1 key | a lock during an unlock is forgotten |
| `two_rotations` | 3 keys | two overlapping rotations lose the key the first one announced |
| `epochs` | browser: 3 keys, 2 passphrases, a setup, 2 unlocks, a rotation, a wipe, one epoch, one kind of slip | six properties of the browser's identity with reloads and failures at every await |
| `sender` | 2 messages, 1 open, 1 call beside the wipe, 1 slip; phone and browser | eight properties of the sender with lost answers everywhere and one overlap, failure or kill |
| `false_revoke` | 1 message, 1 call, 1 slip | the user is told a link is revoked that still opens |
| `cancelled_send` | 2 messages, 1 slip, phone | a cancelled send is shown as the result once the next one is submitted |
| `recipient` | 2 links, 2 opens, 2 handlers, 1 slip; phone and browser | four properties of the reader with locks, kills, late and lost answers anywhere |

The runs that expect a violation state what a comment or a document says and find
the code doing otherwise; `PROJECT.json` quotes the lines under `findings`.

**`LinkStore`.** `WithinBudget` and `OpensAccounted`: concurrent, lost and retried
opens never exceed the budget and are all counted. `CiphertextRationed`: the ciphertext of a
bounded link leaves the server at most as often as its sender allowed, though a handler holds it from before the
consuming statement. Its hypothesis `~Reused` is needed: an open may read a link's ciphertext,
the link may be closed and pruned, another create may take the id, and the open then
consumes the new link and delivers the old ciphertext. `NeverLiveButEmpty`: a live row
always has its own ciphertext, a ciphertext always its row.
`OnlyPastDueAwaitsErasure`: the sole terminal rows with a ciphertext are those that
expired by time. `RevokedByRightHolder`: a tokened link is closed early only by
someone who can know its token. `RowKeepsIdentity`: no create overwrites another's
row. `TerminalIsFinal`: a closed row never changes, and goes only after the
retention window with its ciphertext. `NoLateOpen`: an open is granted only by a
link live at that moment, however long ago its ciphertext was read. `KeepsPromise`:
the refinement of `LinkPromise`.

**`Shutdown`.** `NothingTornOut`: a pool that the teardown has ended refuses no query of a
sweep, and none of a request whose client still waits unless `app.close()` failed. It is as
much as the code gives: TLC refutes `torn = {}` with a handler whose client hung up, and
with a request in progress when the drain rejects. `AlwaysExits`: after a signal the process ends, also when a
sweep, a request or a teardown step hangs.

**`IdentityMachine`.** `KeysRetained`: every key that was ever the identity comes
back with a relaunch and one prompt. `MemoryMatchesDisk`: at rest, the keys the
reader tries are those the next unlock would yield. `WipeIrreversible`: no key of a
wiped identity returns. `NeverOverwritten`: an envelope is replaced only when its
key is already on the retired list. `LockHolds`: after a lock, only a new prompt unlocks.

**`WebIdentity`.** The same four for the browser, each under every slip but those
it names. `LockHolds`: after a lock or a wipe no key enters memory but through a
call made since. `RetiredArrive`: an open session gets, in the end, every retired key that
opens (`Recoverable`, all at once), unless it is locked or wiped before.
Known to break them: a setup over a stored identity, two overlapping rotations and
an unreadable retired list lose keys (`KeysRetained`); a wipe while a rotation is
past its last epoch check lets the rotation write the identity back (`WipeIrreversible`).

**`SentLinks`.** `NoOrphanRecord`: a record is there only for a link the server has
had. `GoneIsGone`: the tab calls a link gone only when nobody can open it.
`HistoryExact`: the records are the links whose token arrived and that the user has
not removed since. `CarefulRevocation`: what the user was told is revoked cannot be
opened. `NothingStranded`: a wipe destroys no live link's token unasked.
`CancelledStaysSilent`: a cancelled send is not shown as the result, whatever overlaps or
fails, until the user submits again; without that proviso (`CancelledNotAnnounced`) it is false, as
`cancelled_send` shows. `OverlayOnlyAwaitsBody`: the Encrypting overlay goes away or waits for the
body of an answer whose head has arrived.

**`Reader`.** `OpenedOnce`: no second open of a link is spent while the first answer
is kept or on its way. `GuardHolds`: the phone shows text only unlocked and, with
the setting on, only after a prompt of that showing. `SpinnerOnlyAwaitsBody`: the
opaque spinner ends, or a handler waits for the body of an answer for ever.

**Bounds.** Two creates and two opens are enough for every pair of operations to
race; two opens overspend a budget of one, reach one of two and leave an unlimited
one open. A clock of 0..2 with a lifetime of 1 and retention 0 lets a link be
created, expire, be swept, pruned and its id be taken again. `live` uses a longer
clock and retention 1 so that the prune has to wait. In `sequential` three keys
allow a setup and two rotations, or a rotation, a wipe and a new setup; three secrets
allow two wipes.
Two slots that are both idle are the same slot: which of them an unlock (`WebIdentity`) or a
handler (`Reader`) takes is immaterial, and the models take one of them by `CHOOSE`.
`epochs` has one lock or wipe per behaviour (`MaxEpoch = 1`), which any number of suspended
calls can straddle; `Wrapped` has both passphrases, so that a setup with another
phrase leaves older entries unreadable. `sender` has two messages so that one
blob's read-modify-write can swallow the other's record, and one slip: `MaxSlips`
bounds overlaps, failures and kills together. `recipient` has two links so that
one can supersede the other, and two opens so that a second one can be wasted; a
third handler adds nothing, since a screen runs at most one and a prompt. The largest are
`recipient` (1,301,078 distinct states), `sender` (939,384) and `epochs` (676,066).
`redeploy` has three slots so that one run can skip while another is torn out.
Symmetry is used only where no liveness is checked. `sender` and `redeploy` may
stop: every message sent and every link dead, or the process gone.

**Fairness.**
- `LinkStore`: weak fairness of `Tick` (time passes) and of each worker's sweep (the
  supervisor restarts the process, `runOnStart` and the interval fire the job
  again); strong fairness of `SweepErase` and `SweepPrune`: a sweep may die at any
  statement any number of times, but not at the same one for ever.
- `Shutdown`: weak fairness of `Deadline` alone: a query may hang for ever, the timer may not.
- `WebIdentity`: the background loop and the last step of a rotation go on, as the event loop runs them.
- `SentLinks`: weak fairness of the send's local steps and of the upload up to the head of
  its answer, which `requestWithTimeout` bounds by a timer. Not of the body: the timer and the
  abort listener are gone once the head is there (`api/client.ts:136-139` on the phone, 126-129 in the
  browser), and `res.json()` (156, 142) has none.
- `Reader`: the handlers' local steps and requests up to the head, by the same timer.
Nothing is assumed of users, recipients, the server or the operator.

**Seen while modelling**, beside the findings:
- Rewrapping: `identity-machine.ts:213` checks only that the state is unlocked
  before it writes the lighter envelope. With `Heavy = BOOLEAN` and one unlock
  overlapping one rotation TLC refutes `KeysRetained` and `NeverOverwritten`: the
  rewrap overwrites the envelope the rotation has just written. The overlap theorems of
  section 4 therefore assume light envelopes.
- A body that stalls: `api/client.ts:66-67` says that a hung connection must not strand
  the Encrypting overlay, `CreateFlow.tsx:21-22` "never a dead overlay". Both hold up to the
  response head. After it the phone's overlay ends only by Cancel, the browser's and the
  spinner not by themselves.
- `shutdown.ts:28-29` of the API drains first "so no in-flight request is still using a
  pool/client we then tear out from under it". A handler whose client hung up is not drained, and a
  drain that rejects is followed by the pool at once.
- The reader on the phone is not remounted when the link under it is swapped
  (`App.tsx:161` has no key, `cancelledRef` is per mount): a late answer, metadata
  or text of the first link is shown under the second. `screen.of` records it.
- `reader-error.ts:22-24, 61-66` says that a transport failure consumed no open;
  an answer lost on its way back has consumed one (`fate = "lost"`).
- The browser's reader keeps a decrypted text on the page while the identity is locked.
- An open consumed while the id's row is live but its ciphertext was read before
  another create took the id answers 410 although it counted; a link whose create
  answer is lost stays live with nobody who can revoke it.
- A late unlock finishes over a wipe as it does over a lock: the wiped key is in
  memory until the process ends.

## 4. What is proved

Theorems hold for all values of the constants, under the module's named assumption.
Every safety property that a passing run checks is proved, and so is every action
property; those of `IdentityMachine`, but for the type invariant, when calls do not
overlap, and `KeysRetained` and `NeverOverwritten` also for calls that overlap a single rotation.
Beyond the runs' properties, the last part of
this section proves how the components fit together and that the disk only grows.

**`LinkStoreProofs`** (`StoreAssumption`: creates and ids are disjoint, opens are
finite, budgets are positive or unlimited, times are naturals): `TypeCorrect`,
`BudgetNeverExceeded` (`Spec => []WithinBudget`), `OpensCountExact`
(`Spec => []OpensAccounted`). `WithinBudget` is not inductive: it says nothing of
the row whose count decides whether the next open is granted. `IInv` adds what ties
them together:

- `RequestsOK`: a suspended or finished create holds a legal body, and only a
  stored one can have rows or opens;
- `RowsOwned`: a row's `gen` is a create that named this id and whose expiry and budget the row
  carries, or the legacy id itself, so that no two rows share one;
- `BudgetLeft`: an active bounded row has granted fewer opens than its budget, and
  `opens_count` is the number of `Winners`.

`WinnersFinite` gives the cardinalities, `RowEdits` the types of the edited rows,
`TypeStep` the type invariant; `HandlerFrame` and `RowFrame` cover the many actions
that touch only handlers or only rows; `StepIInv` goes through `Next` action by
action, with the work in `CreateInsert` and `OpenIncrement`.

**`LinkLifeProofs`** proves the other seven safety properties of the `races` run and
the refinement: `LiveNeverEmpty`, `ErasedOnClosing`, `RevocationRightful`,
`RowNeverReplaced`, `ClosedStaysClosed`, `LateOpenGainsNothing`, `NoCiphertextUnpaid`, and
`StoreKeepsPromise` (`Spec => KeepsPromise`). Its backbone is a list of the seven
things any step can do to the row and the ciphertext of one id (`RowMoves`): leave
them, create both, spend an open, withdraw, time out, erase, forget.
`EveryRowMoves` shows from `IInv` that there is no eighth; each property is then a
check of seven cases instead of every handler (`LifeInv` adds the three invariants
to `IInv`). For the refinement the abstract phase of a create is read off the row of
its id (`PhaseById`), so each row move is a move of at most one abstract link
(`PhaseMoves`). `InsertRefines`, `OpenRefines` and `WithdrawRefines` name the abstract
action of each statement; `SweepRefines` maps a sweep's statement to one abstract
step of the whole set of links it closes; all else changes nothing that `LinkPromise`
speaks of. `SameCount` says that both modules count alike. `NoCiphertextUnpaid`
(`Spec => []CiphertextRationed`) relates a ciphertext read in one statement to a budget
spent in another, which neither `WithinBudget` nor a row move does. `Handed` ties the two: the create
whose ciphertext an open handler holds and the create whose link it has won were both
stored under the id the handler named. Without reuse of that id they are the same
create, so every delivery is one of its winners, which `WithinBudget` counts.

**`ShutdownProofs`** (`ShutdownAssumption`: `None` is no slot): `ShutdownTypeCorrect`
and `PoolOutlivesWork` (`Spec => []NothingTornOut`). `NothingTornOut` speaks of refusals that have happened, so the invariant adds what is in progress:
`Tracked`, the scheduler's entry is the one run there is and `stop` has seen it once the
timer is cleared; `Ordered`, the pool is open until the second teardown step; `Drained`, from then
on no sweep is in progress, and a request only if its client has hung up or the drain
failed. `FirstStepDrains` is the heart: it shows `Drained` of the first step, whether that step
resolves or rejects.

**`IdentityMachineProofs`** proves `MachineTypeCorrect` under `MachineAssumption`
(`None` is no key, unlocks are not rotations) and for overlapping calls. `TypeOK`
alone would let a call publish the missing key; `CallsShaped` says from which await
on a call holds what it will write.

**`IdentityKeysProofs`** proves `KeysNeverLost` (`Spec => []KeysRetained`) and
`KeyNeverOverwritten` (`Spec => NeverOverwritten`) with the further hypothesis
`Overlap = FALSE`, which is needed: `two_rotations` is the counterexample without
it. `KeysRetained` says nothing of the writes still to come, so the invariant
`KeysInv` adds:

- `CallsFit`: what each suspended call relies on in the keychain (a setup finds no
  envelope, an unlock holds the stored one, a rotation replaces the key it retires
  and has it in its list before the first write and on disk before the second, a wipe
  past its first deletion has left no envelope);
- `SessionFits`: memory names the stored key, but for the last step of a rotation,
  and is `no_identity` over an envelope only at the last step of a setup;
- `EnvelopeOpens` and `OneCall`: the envelope unwraps under the slot's secret, and one call is under way.

`CallMoves` carries `CallsFit` over a step of one call, `DiskStays` and `AnnounceSafe`
cover the steps that write nothing; `SetupKeeps` to `WipeKeeps` go through the steps
of each call, with the work in the two writes of `RotateKeeps`.

Its second half proves, under the same hypothesis, `MemoryAgreesWithDisk`
(`Spec => []MemoryMatchesDisk`) and `WipedForGood` (`Spec => []WipeIrreversible`).
`KeysInv` says which writes are safe, not which keys they concern. `MemInv` adds:

- `CallsKnow`: the keys a suspended call will put into memory: an unlock holds exactly
  the retired keys on disk, a rotation holds the keys a relaunch would recover, to
  which its last write adds the fresh one (or one of them is doomed by a wipe that
  stopped half-way), and a wipe past its second deletion leaves no retired entry;
- `SessionMatches`: `MemoryMatchesDisk` with calls under way, which only the last step of
  a rotation or a begun wipe may suspend;
- `Traces`: no key on disk or in memory is a wiped one or one still to be generated, and no
  entry carries a device secret still to be created, which is why a setup's fresh
  secret opens none of the entries a half-finished wipe left.

`RetainSame` and step `<1>5` of `RotateRemembers` are where the two writes of a
rotation are shown to lose and to invent no key.

Its last part proves `OneRotationLosesNothing`
(`Spec => []KeysRetained`) and `OneRotationOverwritesNothing` (`Spec => NeverOverwritten`), for
calls that overlap, with any number of them and of device secrets. The hypotheses are
two keys, so that only one rotation gets past its load, no wipe, and a light
envelope; with a third key, or with the rewrap of a heavy envelope, the theorem is
false (see the runs and the notes of section 3). The invariant `OverlapInv` adds to the shape:

- `SessionRelies`: a setup has the machine to itself and any other call finds an identity
  stored, so that the device secret never changes under a call that uses it;
- `Apart` and `Relies`: one setup at a time and one call past a rotation's load, before
  which nothing is retired and after which no key is left for another; every
  other call holds a key that a relaunch would bring back, and goes on doing so because each
  write keeps all that was on disk (`OverlapWrites`).

**`WebIdentityProofs`** proves the five safety properties of the browser's identity
with calls that overlap, under `WebAssumption` (`None` is no key and no passphrase;
there are two keys and a passphrase, since `Init` can start from an identity that was
rotated before): `WebTypeCorrect`, `KeptKeysStayOnDisk` (`Spec => []KeysRetained`),
`WipedKeysStayAway` (`Spec => []WipeIrreversible`), `SettledTabHoldsTheDisk`
(`Spec => []MemoryMatchesDisk`) and `LockedOutForGood` (`Spec => LockHolds`). None of
the properties is inductive, as each speaks of the disk and memory and not of what
suspended calls will still do to them. `WebInv` has a part for each slip that
a property excludes, so that each part is shown under every other slip:

- `Shape`: which call is suspended where, and that an epoch still current means that
  no lock and no wipe has come since: with the guards of the code this is all that
  `LockHolds` needs;
- `Made`: no key on disk, in memory or in a call is one still to be generated;
- `SetupAlone`: a setup that did not slip over an identity runs alone, on an empty disk;
- `WipeClean`: no wiped key is on disk, in memory or in a call that is still going to
  write or show it, and a wipe past its epoch leaves no such call;
- `KeepsKeys`: kept keys are on disk, at most one rotation is under way, and its write
  keeps the record it has read or replaces the remains of a wipe;
- `Matches`: memory, with the keys that the background loop is still going to add
  (`Coming`) and the one a rotation is about to show (`About`), is what the disk holds. A
  wipe that began suspends this until it ends.

`EveryStep` reduces each action to the few things it does to disk, memory, epoch and its own
call (`Effects`), and each part is shown over these: `ShapeKept` to `MatchesKept`. The work is
in `PrependRec` (the one transaction of a rotation loses no key), `ComingMoves` (a turn of the
loop moves one key from `Coming` to memory) and `NothingLeft` (the end of a wipe).

**`SentLinksProofs`** (`SenderAssumption`) proves the seven safety properties of the
sender: `SenderTypeCorrect`, `RecordsAreOfSentLinks`, `GoneIsNeverClaimedEarly`,
`RecordsAreExact`, `ToldRevokedIsRevoked`, `WipeStrandsNothing` and
`CancelledSendStaysSilent`. Their invariant `SenderInv` has two halves. `ShapeInv` and `SeenInv` hold
whatever overlaps, fails or is killed: whatever the app holds of a link (a record, a map
read from the blob, a list, a screen) it holds of one the server has had, and
what it calls gone is gone, because links only move forward (`PhaseGrows`). `CarefulInv` holds
while nothing slipped, and is what turns a blob without a lock into a safe one:

- `Alone`: one send, one call, the tab's load or the wipe is under way at a time, so
  that the map a suspended writer holds is still the blob (`Records`: but for
  an erasure about to be written, `saved = owed`);
- `Revocations`: a call past its lookup has the token or a dead link;
- `Wiping`: every live recorded link is still to be revoked by the wipe, has failed, or was
  accepted by the user as lost.

`CancelledSendStaysSilent` (`Spec => []CancelledStaysSilent`) needs no care on the user's part: its
invariant `SilenceInv` says that the flag is up while a send cancelled since the last submit is
remembered.

`SendOnly` and its siblings cover the many steps that change one suspended call only.

**`ReaderProofs`** (`ReaderAssumption`: `None` is no link and no request): `ReaderTypeCorrect`,
`GateNeverPassedBy` (`Spec => []GuardHolds`), `NoOpenWasted` (`Spec => []OpenedOnce`).
`OpenedOnce` counts consumed opens and says nothing of those still on the way, so
the invariant speaks of `Pending` requests, which may still be served or answered:

- `PhoneKeeps`: on the phone the one pending request is the coordinator's session;
- `WebKeeps`: in the browser one handler runs at a time, and the one pending request
  is the one it awaits or the page's last, so that no screen that offers an open has one;
- `Counted`: an open is counted only for a request that was served;
- `Away` and `Asked`: a locked or left phone runs no handler, and with the guard on
  a decryption follows a prompt, which is what `GuardHolds` needs;
- `Posted`: sessions, gates and handlers refer to requests that were sent.

`BeginFacts` and `KeepsRunOpen` are where a request starts, `KeepsFailed` where the
coordinator forgets one; `AtMostOneKept` turns the invariant into a cardinality.

**How the components fit together.** `LinkPromise` is the joint of the clients and the server,
and both clients take its actions as their server. Two facts make that sound:

- the server keeps it: `StoreKeepsPromise`;
- it promises enough: `PromiseRationed` (`PromiseSpec => []Rationed`): no link is opened
  beyond its budget, no open counts for two links, a link whose budget is spent is erased.
  `Promised` adds that an unsent link has no opens, and is inductive (`ConsumeRations` is the
  one step that spends).

That the clients change the server's state only by steps of `LinkPromise` is how their modules
are written, and no theorem.

`NoAnswerUnpaid` (`Spec => []AnswersRationed`) is what the recipient's side gains from it:
through retries, resumes, timeouts, reloads and kills, the answers the clients of a link hold
are at most its budget. `Paid` says that an answered request was served and counted for the
very link it named; with `Promised`, the answers of a link are a subset of its opens.

**The disk only grows.** `KeysRetained` speaks of keys that the user has seen. `DiskGrows`
speaks of every step and of every key on disk, also of one that was written and
not yet shown when the process died: no step but a wipe's deletions takes a key from
`Recoverable`. `RelaunchKeepsKeys` proves it for the phone when calls do not overlap (from
`KeysInv`), `OneRotationOnlyAdds` under the hypotheses of the overlap theorems (from `OverlapInv`), and
`ReloadKeepsKeys` for the browser with overlapping calls, short of the three slips that lose keys.
For the last `WebInv` is too weak: it lets a rotation find, where a wipe has been, a record
that is none of those it read. `WritesOver` says that a rotation writes over exactly what it has
read, or over nothing.

Only model-checked: liveness (`AlwaysExits`, `RetiredArrive`, `OverlayOnlyAwaitsBody`,
`SpinnerOnlyAwaitsBody`, `PastDueErased`, `TerminalForgotten`: fairness is out of the prover's
reach). No module with a theorem has a recursive operator, and no proof needs an induction over data.

## 5. What is not modelled

- The memory store (development and tests), the rate limiter (one atomic Redis
  transaction per request; its window edge needs the clocks of two machines), the
  migrations (one advisory lock around one transaction per file) and the metrics
  counters, which nothing reads back.
- Contacts, settings, backup flags: blobs read, changed and written back like the
  sent links of the phone; their race is the one of `SentLinks`. The data key of
  the encrypted storage and its per-file clear.
- Subscription state, which mirrors an external store.
- Cryptography (byte-level functions over third-party primitives), screens and
  styling, the static site.
- In `Reader`, malformed links, attachments and the `no_identity` state; in
  `SentLinks`, labels and sizes; in `Shutdown`, the boot checks.
