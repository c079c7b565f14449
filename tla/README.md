# voldepass: models, checks and proofs

voldepass is a password manager whose server stores only ciphertext. Clients
(command line and terminal UI) work on a local encrypted file and synchronise it
with the server. This directory holds TLA+ modules for the parts where order,
failure and concurrency matter, TLC configurations that check them on small
instances, and proofs, checked by TLAPS, of what they promise in general.

Paths below are relative to `src/internal/`.

## The system

| Component | State | Operations | Interacts with |
|---|---|---|---|
| Record store (`server/storage/postgres/record.go`, migrations) | one row per record: version, tombstone, ciphertext; the sequence `records_version_seq` | `Upsert` (compare-and-swap on the version), `Get`, `ListSince`, `Delete` | called statement by statement by the services; row locks and the sequence are shared by all requests |
| Push and pull (`server/service/sync.go`, `rest/sync_handlers.go`) | the table of idempotency keys and saved results | `Push`, `Pull` | record store; retried by clients |
| REST vault (`server/service/vault.go`, `rest/vault_handlers.go`) | none of its own | create, read, list, update, delete, `checkOwner` | the same rows as the pushes |
| Server process (`server/app/app.go`, `cmd/server`) | listener, pool, cleanup goroutine | start, `DeleteExpired` every hour, shutdown | requests and the cleanup share one pool |
| Login (`server/service/auth.go`, `auth/challenge.go`, `inmem/login_attempt.go`) | one challenge per user, a window of failed attempts | `Register`, `Challenge`, `Login` | middleware reads the attempts, the service counts them |
| Refresh tokens (`auth/refresh.go`, `postgres/refresh_token.go`) | per user, rows with `expires_at` and `revoked` | `Issue`, `Rotate`, `RevokeAll` | the client's transport retries a request after a refresh |
| Synchroniser (`client/service/syncer.go`) | where a sync is | `Sync`: replay, pull, merge, push, at most five rounds | local store, server |
| Vault manager and backup (`client/service/vault_manager.go`, `crypto/export.go`) | none of its own | `Create`, `Update`, `Delete`, `List`, `Import`, export | local store |
| Local store and file (`client/storage`) | records with base version, dirty flag and time of the edit; cursor; pending batches; the file | `PutRecord`, `ListDirty`, `AddPendingPush`, ..., `Load`, `Save` | everything on the client; `Session.Close` = sync, then `Save`; other programs have the same file |
| Transport and access tokens (`client/transport`, `rest/middleware.go`, `server/auth/jwt.go`) | the pair of tokens of the client | `doJSON` with retries, `doAuthenticatedJSON` with one refresh; `AuthMiddleware`, `Issue`, `Parse` | shared by the sync of the UI and the one of `Session.Close` |
| Terminal UI (`client/tui`) | screen, cursor, form; a sync may be running in a goroutine | one handler per message | session, synchroniser, vault manager |
| One-time passwords, password generator (`client/crypto`) | none | pure functions | vault manager, UI, `register` |
| Configuration (`server/config`, `client/config`) | none | `Load`: defaults, file, environment, flags | both programs at start |
| Cryptography (`client/crypto`) | none | AES-GCM, Argon2id, HMAC of libraries | vault manager, session |

What is hard here:

* **Requests interleave.** A push is not a transaction: its key is looked up, its
  rows are written one by one, its result is saved, and any other request can run
  between two statements. The same push can be in service twice.
* **A version exists before it is visible.** `nextval()` is drawn before the row
  commits, so versions can become visible out of order, while a pull treats the
  largest version it saw as a cursor.
* **Requests are repeated.** The transport retries, the synchroniser replays what
  is pending, and saved results expire.
* **The client's memory and its file differ.** Everything a session did since the
  last `Save` is lost if the process is killed; two programs can work on one file;
  `Save` is five system calls, each of which can fail or be the last.
* **The client is shared.** Two goroutines can meet an expired token at once, and a
  refresh token works once.
* **Pointers and keys are shared.** `Load` replaces the store a `FileStore` holds,
  and `Close` zeroes the very bytes the session goes on to use.
* **Conflicts.** Deletes, edits and tombstones of several devices meet in every
  order, and the winner is chosen by comparing clocks of different machines.

What makes each part correct: a push takes effect at most once and the writes of
a record form one line (store, push); a client told "applied" or "conflict" can
rely on it (push); a cursor never passes a row it has not delivered (pull); a
sync keeps every local edit, never revives a deleted record, never mistakes its
own write for another device's, marks nothing as synchronised that is not, and
gets done (synchroniser); a challenge opens one session, wrong passwords are
limited whatever runs at once, a refresh replaces one token by one, and a token
counts as stolen only when it was really used twice (login, refresh tokens); the
file always opens and holds what was reported as saved (file, session); every call
ends and a client stays signed in unless there is a reason (transport); the pool
outlives its users (server process); keys act on the record they were meant for,
and what the user saves survives the sync that runs beside him (UI); passwords
have what was asked for and shuffles are fair, codes are those of the RFC (pure
algorithms); every option comes from its strongest source (configuration).

## The modules

### VersionedStore: what the server promises

A map from record ids to versions and the set of `<<key, id>>` pairs that have
taken effect. `Push`, `Write` and `Erase` each change one record in one step: a
compare-and-swap against the version the writer had seen, at most once per record
of a push, with a version no other record carries. The contents of a record are
left out because the version names them (this is itself one of the theorems).

### SyncServer: how the code provides it

A worker is a goroutine in service of one request; `workers[w].pc` is the
statement it will run next.

| Code | Actions |
|---|---|
| `SyncService.Push` (`server/service/sync.go:43-88`) | `CheckIdempotency`, then per record `Upsert`, `Commit` or `Reread`, then `SaveResult`, `Reply` |
| `RecordRepository.Upsert` (`postgres/record.go:25-67`) | `Upsert` waits for the row lock, compares and draws from the sequence; `Commit` makes the row visible; `Reread` is the second statement, after a refused comparison |
| `VaultService` (`server/service/vault.go`) | `VaultCreate`, `VaultUpdate`, `VaultDelete`, `CheckOwner`, then the same upsert steps |
| `SyncService.Pull` and a client that only reads | `Pull` |
| `Syncer.pushAll`; `replayPending` after the user edited a record of the batch (`client/service/syncer.go:231-239`) | `Submit`; `EditPending`, then `Deliver` |
| client transport: retries, lost answers | `Deliver` again, `Abort` at any point |
| `App.runIdempotencyCleanup` | `DeleteExpired` |

`Draws` is exact: the `VALUES` list of the `INSERT` consumes a value of the
sequence even when the row exists, and the `UPDATE` branch a second one.
`Seen` says which versions a client can hold of a record: none, one the record has
had, the version of the record a conflict copy was made from, or one of an earlier
push of it; `Dirty` how base and held version of an edit go together (`base` is its
`BaseVersion`, `held` the `Version` beside it, which is what the next edit takes as
base). A repeated push need not be the same push: the transport repeats what it sent,
but `replayPending` sends under the old key what the records are by then, and
`EditPending` is the edit in between; a copy sent earlier may still be in service. An
import between sending and replaying, which can bring back an older base, is left to
Syncer, where a push is one step. The ciphertext and the tombstone flag are left out.

There is one account, so `checkOwner`'s comparison of owners always succeeds. The
accounts of a real server share the sequence and the space of record ids: the upsert
(`postgres/record.go:37-45`) does not compare owners. As ids are random, no client
meets one of another account unless it is told of it; what would happen then is not
modelled.

### Replicas: what synchronisation promises

The server's rows, the rows there have been (`past`), and per device the records it
holds, the records it has sent and has no answer about (`asked`), and both as last
saved (`disk`). There are no rounds, chunks, cursors, keys or batches. A record is a
row as it was (`Shows`) or a change of the device's own, made from a version.
`Edit`, `Push`, `Send` (the answer does not come), `Answer` (it comes later), `Pull`,
`Save` and `Restart` are the only ways records change: the server takes a change only
over the row it was made from, and a change goes away only because the server has
taken the record and the device learns so, because a merge leaves a copy of it
(`Merged`, `KeptAsCopy`), or because the device starts again from its file. `Answer`
says what replaying under an old key amounts to: the device may get a row that is no
longer the server's, and it takes the place of what was edited since.

### Syncer: the devices

Each device has a store in memory, a file, and a place in `Sync`; the server
answers a push or a pull in one step (what interleaving adds is SyncServer's
subject). Actions follow the code: `Create`, `Update`, `Delete`, `Export`,
`Import` (vault manager), `SyncStart`, `Replay`, `Pull`, `Push` (synchroniser),
`Save` (`Session.Close`, `CloseWithoutSync`), and the faults `Crash`, `Refused`,
`PushRefused`, `PushLost`, `ReplayLost`, `DeleteExpired`. `Pull` includes the
merge of every row with `resolveConflict` and its conflict copies; `Push`
includes `applyPushResults` with its move of the cursor; `Replay` sends the
records as they are *now* under the key of the old batch, as `replayPending`
does.

A record's body is the set of edits that went into it, so a property can ask
whether an edit survived and whether its author had seen another. The sequence
serves as the server's clock; a device's clock differs from it by `ClockSkew`.
Edits happen only while no sync is under way, as on the command line; Tui lifts
that. `proc[d].todo` holds the records `ListDirty` or `replayPending` has read:
what a push sends is what was read, what its answer replaces is what is there.

`Promise` is Replicas with `past` the commits, `held` the records of the stores,
`asked` the records named in their pending batches (`Awaited`), and `disk` both in the
files; `ImplementsReplicas` says that every step of Syncer is a step of it or
leaves all of this as it is.

### Tui: the terminal UI beside its sync

One device, `Me`, with Syncer's actions, and the event loop of
`client/tui/model.go`: one action per key or message that changes something.

| Code | Actions |
|---|---|
| `updateList` | `MoveUp`, `MoveDown`, `StartSync` ("s", ignored while `m.syncing`), `OpenDetail`, `AskDelete`, `NewRecord` |
| `updateDeleteConfirm` | `ConfirmDelete`, `Back` |
| `updateAddType`, `updateAddForm`, `submitAddForm` | `ChooseType`, `Submit`, `Back` |
| `updateDetail`, `startEdit` | `StartEdit`, `Back` |
| `syncCmd`, in a goroutine | `Sync`: a step of Syncer |
| `handleSyncResult` | `SyncResult`, on whatever screen the message finds |
| an index past the end of `m.records` | `Panic`: the process ends, the file is what it was |
| other devices of the account | `Remote`: an accepted change of a row |

`list` is `m.records` in any order, because `List` ranges over a Go map; `cursor`
is an index into it; `subject` is `confirmDeleteID` or `editingID`; `seen` is what
a form was filled with. A merge is one step of Sync: in the program an edit can
also fall between two records of one merge.

Reading the handlers for this module showed more than a run can state as a
property of the code:

* `submitAddForm` reads the list again without moving the cursor back into it.
  When a sync has merged a delete meanwhile, the cursor can be past the end until
  the sync's message arrives, and for good if the sync fails afterwards: the next
  "enter" or "d" is `Panic`. The other two handlers that shorten the list do move
  the cursor.
* A failed sync does not read the list again although its pull may have merged
  rows. `ListIsCurrent` says that list and cursor are right between two syncs,
  unless one has failed.
* "e" and the TOTP code take the record under the cursor, which after a sync need
  not be the one the detail screen shows.
* A form filled before a sync and saved after it replaces what the sync brought,
  with the new version as base, so no conflict is seen.

### Auth: signing in and staying signed in

One account. A worker is the goroutine that serves one copy of a request; a device
waits for the copy it sent last, and a copy nobody waits for is served all the
same. Devices sign in (`AuthFlow.Register`, `Login`: `StartRegister`,
`StartLogin`) and refresh (`StartRefresh`); `Deliver` sends the first or a
repeated copy, `GiveUp` ends the call, `Quit` the session.

| Code | Actions |
|---|---|
| `AuthService.Register`, `Challenge` | `Register`, `Challenge` |
| the limit, read in `rest/middleware.go` and in `AuthService.Login` | `CheckLimit`, twice |
| `AuthService.Login` (`server/service/auth.go`) | `Consume` (with the check of the answer), then `Fail`, or `Pass` and `Issue` |
| `RefreshTokenService.Rotate` (`server/auth/refresh.go`) | `LookUp`, then `Rotate`, `Alarm` (`RevokeAll`) or a refusal |
| deadlines | `ChallengeExpires`, `WindowEnds`, `RefreshExpires` |
| restart of the server; a request that ends early | `Restart`, `Abort` |

`expired` counts the tokens past their time: all live equally long, so they expire
in the order they were drawn. When an access token expires is left open: a refresh
can begin at any time. Answers 429 and 5xx are repeated by the transport. A device
has one call under way at a time. Other accounts share no state with this one.

Two observations: `Rotate` does not look again whether the token was revoked since
`LookUp`, so two copies of one refresh in service at once both succeed (the term
`again` of `SessionsAccounted`); and nothing calls `Revoke` on logout, of which
the comment at `server/auth/refresh.go:80` speaks, so a token lives until it
expires.

### LocalFile: programs and their file

A process is one run of a command or of the terminal UI, from the login to the end.
`pc[p]` is its next step; an edit is a number, a store or a file the set of edits it
reflects, a data key the account it belongs to.

| Code | Actions |
|---|---|
| `AuthFlow.Register`, `Login` (`service/authflow.go`) | `Register`, `Login` |
| `FileStore.Load` (`storage/file.go:35-62`), then the vault manager and the synchroniser take the pointer (`cli/session.go`, `tui/session.go`) | `Load` |
| `runAdd`, `runEdit`, `runDelete`, `runImport`, the forms of the UI | `Edit` |
| `runSync`, `runList`; "s" in the UI and its goroutine | `ExplicitSync`; `StartSync`, `SyncInBackground` |
| `Session.Close`, `CloseWithoutSync` | `BeginClose`, `CloseSync`, the steps of the save, and the deferred `zeroBytes` in `CloseReturns` |
| `FileStore.Save`, `atomicWriteFile` | `WriteTemp`, `Fsync`, `Rename`, `SaveFails` |
| a command that returns an error before `Close`; one that ends | `Fails`; `Exit` |
| "q" handled again before the `QuitMsg` | `QuitAgain` |
| kill; power failure | `Kill`; `PowerFailure`, `Settle` |

`store[p]` has two entries because `Load` replaces the pointer in the `FileStore`;
`fs` and `vault` say which one the file store and the vault manager mean. `medium`
is what a power failure can leave the path naming, since nothing syncs the
directory. `undone` collects what a save replaced that its program had never
loaded: the last save wins, and `ReportedEditsKept` says that this, and a rename
undone by a power failure, are the only ways to lose what was reported as done and
never reached the server.

Observations that no run states:

* Nothing creates the directory of the default file (`~/.voldepass`): without it
  every save fails (`SaveFails`). The command line reports that; the UI drops the
  error of `Close` (`tui/model.go:370`), and the edits of the session with it, if
  the sync failed too.
* `AuthFlow` keeps the store that `NewFileStore` made. `Load` replaces it, so tokens
  and profile of a login are not in the file that is saved, unless there was no
  file; a stored token is read by nobody.
* `register` with a file of another account there loads nothing and replaces it.

### App, Calls: the server process and the client's calls

App is `App.Run`: it accepts requests, runs the cleanup beside them on the same
pool, and at a signal stops accepting, waits for the handlers (`Drained`), for the
cleanup (`CleanupStops`) and closes the pool (`ClosePool`); `Fatal` is the end after
a failed listener or ten seconds of draining. Calls extends it by one client whose
token pair two goroutines share.

| Code | Actions |
|---|---|
| `doAuthenticatedJSON` (`client/transport/client.go`) | `Begin`, then the places `ask`, `refresh`, `store`, `storing`, `again` of a call |
| `doJSON`, retryablehttp | `Send`, `Refused`, `Break`; `Retried` counts attempts |
| `SetTokens` | `SetAccessToken`, `SetRefreshToken`: two assignments without a lock |
| `AuthMiddleware`, `JWTManager.Parse` | `Authenticate` |
| `AuthService.Refresh` | `Rotate` in one step (Auth has its statements); `UnreportedCommit`: it takes effect and answers 500 |
| other failures of the server | `ServerError` |
| an answer, or the end of the process under a request | `Reply`; `CutOff` |
| the lifetime of access tokens | `Expire` |

`excuses` records what can cost a client its sign-in: the answer of a refresh was
lost (the retry presents a used token, which revokes them all), the refresh was
committed and `tx.Commit` returned an error all the same
(`postgres/refresh_token.go:77`; the retry of the 500 presents a used token too), two
goroutines refreshed at once, or an access token expired while a call was refreshing.
`SignedOutForAReason` says there is no fifth. A refresh that fails because the
network does is reported as `ErrUnauthorized` too (`client.go:184`).

### Password, Totp, Config: the pure algorithms

Password is `GeneratePassword` as a state machine, because its random draws are
what has to be checked in every combination: `Shuffle` once per draw, `Require` and
`Fill` once per character, and `Evaluate` as the register command does. Characters
are their classes. `ShuffleIsFair` reads the draws back from the permutation: as
there are as many permutations as sequences of draws, each comes from one, so they
are equally likely. The highest score the sources name,
`StrengthVeryStrong`, is reached by no password: there are three points to get.

Totp computes codes on pairs of 16-bit halves, as the words have 32 bits, and
returns the *set* of codes that builds for different processors give:
`uint32(math.Pow10(digits))` of a float that does not fit is defined by none. With
ten digits or more they differ, and from 19 (or below 0) the modulus is 0 on amd64,
a panic. Nothing checks the number of digits (`cli/vault.go:88`,
`tui/model.go:132`); `CodeIsExact` is stated for 0 to 9.

Config is `Load` of server and client with both passes over the arguments, and
`Layered`, what `README.md` and the comments say of the order of the sources; the two
disagree (`Config_order`, below). As in package flag, a bool
flag whose value is a separate word ends the flags.

MCAlgorithms checks the first two in one run: the state machine, and inputs given one
at a time to the other. MCConfig does the same with Config.

### SyncServer_proofs, Syncer_proofs, Promises_proofs, Tui_proofs, Auth_proofs, LocalFile_proofs, Calls_proofs, Password_proofs

The theorems about these modules, see "Proofs".

## The runs

| Run | Question | Bounds |
|---|---|---|
| `SyncServer_requests` | Do versions, compare-and-swap and answers stay right, and does every step look like one step of VersionedStore? Does every request end? As long as upserts do not overlap, is a cursor complete? As long as copies of a push do not and its result is saved, is it answered alike? | 2 ids, 2 requests in service, 2 deliveries, pushes of up to 2 records, any interruption, edits before a replay; either two pushes beside a puller, or one push, also sent twice, beside a REST write and expiry |
| `SyncServer_cursor` | Is a cursor complete with two requests in service? **No.** | 2 pushes, one puller |
| `Syncer_two` | Is what the server accepted lost only where an edit wins by its clock, and does an edit that is older by its clock always yield? Are deletes final, a finished sync clean? In which ways does a device fall behind, and are edits accepted in the end if none has? | 2 devices, one clock far ahead, 4 edits, 2 records per push, 2 rounds per sync, one refused pull or push |
| `Syncer_faults` | What survives killed processes, half-done pushes, replays, expiry, an old backup? Does a device that has nothing to send or receive hold the server's records? Does every step look like one step of Replicas? | 2 devices, 2 edits, any 2 of faults and imports |
| `Syncer_killed` | Is what the server accepted lost only where an edit wins, also if a device is killed? **No.** | 2 devices, 3 edits, one record per push, one kill |
| `Tui_sync` | With keys between the steps of a sync: does what was saved before survive, do keys act on their record, are list and cursor right afterwards, does the device recognise its own push, does the sync end? | 2 synchronised records, 2 edits or deletes here or elsewhere, 2 new ids, one lost answer |
| `Auth_sessions` | Does a challenge open one session, are failures bounded, are alarms genuine, are tokens accounted for? | 2 devices, 2 requests in service, 1 allowed failure, 4 calls, 1 repeated copy |
| `LocalFile_saves` | Does the file always open, and hold what was reported? | 2 programs at once, 3 in all, 2 accounts, 1 edit, 1 fault or second "q" |
| `LocalFile_quit` | Also if "q" is handled twice? **No.** | the same, 2 programs in all |
| `Calls_shared` | Does every call end, is a client signed out only for a reason, does the pool outlive its users? | 2 goroutines, 2 calls, 2 slots, 1 retry, 1 broken connection, 1 start |
| `Config_order` | Does every option come from the strongest source that sets it, whatever the order of the arguments? **No.** | up to 3 arguments, 2 files, an environment; the client with up to 2 |
| `Algorithms` | Do generator and codes compute what they should? | 6 characters, all 8 choices of classes; digests with offsets all over the range, 22 numbers of digits |

Deadlock is not checked: when every bound is used up and every user is content
the system rests.

The bounds are enough for what the properties are about. Two requests and two
records give every pair of a push with its own retry, with another push and with a
REST write, and both orders of two row locks; `SyncServer_proofs` then covers
every number of each. MCSyncServer takes keys and workers in order, as they are
interchangeable, and lets REST writes and expiry meet one push, and the puller two:
each pair of actors occurs. A push is delivered twice at most, so that copies cut
short before both answers are left to the theorem. Two devices and three edits are the least that produce a
conflict of each kind (create, then a change on each side) in every order; the
fourth edit is the one that a skipped row strands, and the refused push is what gives
an edit a merge to forget (below). A third device would add no
case to `resolveConflict`, which sees one row and one local record. `ChunkSize` is
1 or 2 instead of 100 so that a sync has more than one chunk, `MaxIterations` 2
instead of 5 so that the limit is reached. `MaxFaults` bounds faults and imports
together, and `Save` happens only where a kill can still bring the file back:
a file nobody reads makes no difference. In Auth, four calls let both devices sign
in and refresh, and the second copy is what meets the first in service;
`Auth_proofs` covers every number. In Tui two changes give each pair of one before
the sync, one during it, and one made elsewhere. In LocalFile the third program is
the one that finds what two others left; one edit is enough because edits are told
apart only by who made them. `LocalFile_proofs` covers every number of edits, of
programs and of faults. In Calls
the second call is what meets the refresh of the first. A password of six
characters has more positions than classes, and `Password_proofs` covers every
length. `MaxVersion` never stops a request in the passing run of SyncServer, as TLC confirms.

### What the violated runs show

* `SyncServer_cursor`: version 1 is drawn, version 2 is drawn and commits, a pull
  takes 2 and moves the cursor, version 1 commits: the puller never gets it.
  Migration 000002 describes the version as a global monotone cursor. It takes two
  devices pushing at the same moment and a third pulling;
  `SerialCursorIsComplete` shows that overlapping upserts are the only cause.
* `Syncer_killed`: one device deletes X, the other's edit of X is accepted. The first
  pulls it: its delete wins, the edit goes into a conflict copy in memory. The tombstone
  is pushed, the other device pulls it, and the first ends without a save before it
  pushes the copy: the accepted edit is nowhere. `README.md` says that data is never
  lost silently. It takes more than one chunk, or a push cut short between the two
  records, and a kill or a `sync` command that fails there, as it does not save. One
  record per push stands for any number: the order of the dirty records is that of a
  Go map. `Promises_proofs` shows that the kill is needed.
* `LocalFile_quit`: the UI is open; "q" closes the session, which saves the file and
  zeroes the key; a second "q" was pressed meanwhile and is in the queue before the
  `QuitMsg`, so it closes again and saves the file encrypted with a key of zero
  bytes. No later login opens it. `README.md` says "q" keeps the session and the
  local store. `OpensUnlessClosedTwice` shows that this is the only way.

* `Config_order`: `voldepass-server -cors-allowed-origins x -config p2` does not read
  p2. `preParseConfigPath` ignores the error of its flag set, but package flag stops at
  the first flag it does not know, which here is every flag but `-config`; the second
  pass knows them all and does nothing with `-config`. The comment
  (`server/config/config.go:143-144`) says that unknown flags are ignored. The client
  is further from `README.md:148-149` ("the same for client and server"): it calls
  `Load(nil)`, whose comment (`client/cli/root.go:28`) lists the JSON file, and cobra
  refuses a `-config` as an unknown flag. With inputs of these two kinds left out TLC
  finds the order of the sources as documented.

Five more behaviours differ from what the repository says of itself. A passing
property states, for each, that nothing else of the kind happens:

* The key of a batch is stored in memory only when the push is sent; `README.md`
  says it is persisted first. A killed process finds its own record on the server
  and keeps a conflict copy of it. `NoSelfConflict` holds without a kill and without a
  push cut short between its records.
* `README.md` says the losing side of a conflict is kept as a conflict copy. When
  the local edit wins, the server's is not kept. `LostOnlyToEdits` shows that this
  is the only loss, as long as no device is killed (above), and `EarlierEditsYield`
  that an edit wins only if it was made, by the clock of its device, no earlier than
  the other was accepted. With the clock far ahead that is every edit.
* Device A pulls; device B pushes a new version of X; A pushes a record of its own
  and `applyPushResults` moves its cursor to that version, past B's. No pull returns
  X's row: when A's user edits X, every push of it is refused.
* A pull merges a row into an edited record and the edit wins: its base becomes the
  row's version, its own version stays (`client/service/syncer.go:156`). The push
  that follows fails, and the user changes the record again: `Update` and `Delete`
  set the base to the old version (`vault_manager.go:106`, `121`). The cursor is past
  the row, so every push is refused until another device changes the record.
  `BehindForAReason` shows that a device falls behind only by this, by the answer to
  its own push, by an import or by a restart from its file; `SyncedUnlessSkipped`
  that without it every edit is accepted in the end.
* The user edits a record, starts a sync and edits it again before the answer of the
  push arrives. `applyPushResults` replaces it by the row of the push and marks it
  clean. The same happens to an edit made between a push whose answer was lost and
  its replay. `CalmEditsSurvive` shows that an edit made at any other time is safe.

### Fairness

`SyncServer!FairSpec` asks that a goroutine that serves a request and can go on
does (`WF_vars(Serve(w))`): the Go scheduler runs it, and a statement that waits
for a row lock is woken. It asks nothing of clients, and no request need be
interrupted. `Syncer!FairSpec` asks that a sync that has begun goes on, to its
end or to a fault, and that users keep synchronising: every `Session.Close`
synchronises. Edits, saves, imports and faults need not happen. Weak fairness is
enough because no other actor can keep disabling these steps. `Tui!TuiFairSpec`
asks that the goroutine of a sync goes on and that bubbletea delivers its message;
no key need be pressed. `Calls!FairSpec` asks that a caller that can send, give up or
store its tokens does, and that a handler goes on and answers: both are goroutines.
It asks nothing of tokens, signals or the cleanup, and no connection need break. A
server that is down refuses connections, so callers end even if it stays down. What
these assume of the network is that a request that is served is answered or broken off:
the transport sets no timeout (`RequestTimeout` is read from the configuration and used
nowhere), so against a server that accepts a connection and stays silent neither
`CallsEnd` nor `SyncEnds` nor the progress of a sync in Syncer would hold.

### Mutants

Next to a definition stand its mutants, each a bug the code could have had
(`LockedNever`: the comparison and the write are separate statements;
`LaterWins`: last writer wins even against a tombstone; `IgnoreIdempotency`:
the saved result is not looked up). Every property of a passing run is violated
when the definition is replaced by the mutant PROJECT.json names for it.

## Proofs

`SyncServer_proofs` proves, for every number of records, pushes, retries,
requests in service and clients, from the two assumptions of SyncServer (`NoKey`
is not a key; the bounds are naturals):

| Theorem | Establishes |
|---|---|
| `TypeIsOK`, `TypeCorrect` | the type invariant, and that no request runs past its last record |
| `InvHolds` | the inductive invariant `IInv` |
| `PushAppliedAtMostOnce` | `AppliedAtMostOnce` |
| `WritesFormOneLine` | `OneLineOfWrites` |
| `VersionsNeverRepeat` | `VersionsAreUnique` |
| `AppliedAnswersAreBacked` | `AppliedIsCommitted` |
| `ConflictsAreGenuine` | `ConflictIsGenuine` |
| `ServerImplementsStore` | `ImplementsStore`: SyncServer refines VersionedStore |
| `CursorCompleteIfSerial` | `SerialCursorIsComplete`: `CursorIsComplete`, as long as at most one request has drawn a version it has not committed |
| `SamePushSameAnswer` | `SerialAnswersAgree`: `AnswersAgree`, as long as copies of one push are not in service together and no saved result has expired |

None of the properties is inductive. Take "at most once": why can a second copy
of a push not write a record again? Because the first write left the row at a
version above all that the push is built on, rows never go back, and what an edit
makes of the push before it is replayed is built on nothing newer; so the comparison
fails for ever, with or without the saved result. That argument needs, as parts of
`IInv`:

* `RequestsOK`: a batch names a record once. Every entry, at its client (`EntryOK`)
  and in every copy in service (`PushOK`), is built on versions that are not newer than
  the row or than a write of it about to commit (`KnownOK`), and older than what the
  push has written itself. Its held version is not above its base, or is that of
  another record, where it came from as a conflict copy: so an edit before a replay
  does not make the comparison succeed. A copy in service is what its client has now or
  was before such an edit (`SameEntry`).
* `VersionsGrow`: rows and the sequence only grow, along every write.
* `CommitsOK`: a write was compared with what it replaced, and its push was made.
* `LocksOK`: between `Upsert` and `Commit` the worker owns the row: what it
  compared still holds, its version is above the row's and carried by nobody else.
* `RefusalsOK`: a row that has refused a push is newer than the base it was sent; this
  is what makes a conflict genuine.
* `AnswersOK`: every result computed, saved or sent is backed by a write or by a
  row newer than base and held version, and so stays right when the client edits.
* `RowsOK`: a row is the last write of its record, and a row about to be deleted
  exists.

The last two theorems are about what `SyncServer_cursor` shows not to hold in general. They
do not assume one worker: `OneUpsertAtATime` and `OneRequestPerKey` are assumed to
stay true of the behaviour, whatever else runs, which says exactly what concurrency
costs. `CursorInv` adds that a version drawn and not yet visible is newer than every
cursor; `AgreeInv` that an answer given is the one saved, and that a push still
computing its answer has none saved. A push that was cut short after some of its
records is included: nobody was answered, and its next copy reports what it finds.

`QuietStep` deals with all steps that neither write nor lock a row at once;
`InvSubmit`, `InvEditPending`, `InvLock` and `InvCommit` are the four that matter; that
a new entry is built on what its client has seen is `DirtyIsKnown`. The refinement
follows from the invariant before and after a commit (`CommitIsStoreStep`), every
other step leaves the store unchanged. TLC checked `IInv` as an invariant of the
instances of `SyncServer_requests` before the proof was begun.

`Auth_proofs` proves, for every number of devices, requests in service, repeated
copies and calls, from `AuthAssumption` (finitely many workers, a placeholder that
is no device, positive limits):

| Theorem | Establishes |
|---|---|
| `TypeIsOK` | the type invariant |
| `InvHolds` | the inductive invariant `IInv` |
| `ChallengesOpenOnce` | `ChallengeOpensOnce` |
| `FailuresAreBounded` | `FailuresBounded` |
| `AlarmsAreGenuine` | `AlarmIsGenuine` |
| `SessionsAreAccounted` | `SessionsAccounted` |

Its parts, one per property, each say where a thing is that the property only
counts afterwards:

* `NoncesOK`: a nonce is in the store, with the one worker that consumed it, or
  behind one session, and in no two of these places.
* `FailuresOK`: a request past the limit check can still add one failure, so the
  counter and these requests together stay below the bound. A request can only
  join them while the counter is below the limit.
* `AlarmsOK`: until an alarm only tokens that were looked up are revoked, so a
  refresh that meets a revoked token met one that was looked up before.
* `SessionsOK`: a worker about to rotate stands for the token it will issue, with
  its old token set aside; two workers that hold the same token are paid for by
  the second look-up.

`Release` is the lemma about a worker that stops holding a token. TLC checked
`IInv` as an invariant of `Auth_sessions` before the proof was begun.

`LocalFile_proofs` proves `TypeOK`, `OpensUnlessClosedTwice` and `ReportedEditsKept`
for every number of programs, accounts, edits and faults, from
`LocalFileAssumption`. The second needs that nothing reaches the path, or what a
power failure can bring back, before it was synced (`FileOK`), and that until its
save is written a session holds an account's key, or was closed before
(`ProcessOK`). `ReportedEditsKept` needs that the two pointers of a session mean one
store, which holds what was loaded and what was edited at every step up to the
rename: this is the part that fails when `Load` comes after the vault manager.

`Calls_proofs` proves `TypeOK`, `PoolOutlivesUsers` and `SignedOutForAReason` for
every number of goroutines, requests, retries and calls. Its invariant is
conditional: while there is no excuse, at most one caller is refreshing, the
refresh it carries is the client's and good until it is answered, and the pair it
got is newer than every token that has expired and is not revoked (`Undisturbed`).
Each action either adds an excuse or keeps these. `SlotOK` ties a caller to the
request it waits for, so that an answer never reaches another.

`Syncer_proofs` proves `CleanIsCommitted`, `DeletedStaysDeleted`, `SyncKeepsEdits`,
`SyncEndsClean` and the types for every number of devices, records, edits, imports
and faults, every chunk size, number of rounds and error of the clocks, from
`SyncerAssumption`. The heart of its invariant is `Good`: a record that is not
deleted has only ever seen versions that were not (`Live`), in every store, file,
backup and half-sent batch. The server applies a record only over the version it
is based on, so a live record never replaces a tombstone (`ServeOK`); `Good` needs
in turn that a tombstone wins over a live record in `resolveConflict`
(`MergedOK`), that conflict copies get ids no commit has (`CopyGood`), and that
versions are drawn once (`Ranks`, `LogOK`). `Clean` adds that what is clean was
committed and is not past the cursor, which every move of the cursor keeps
(`CursorCovers`). `AllGoodStays` and its like carry all this to the devices that
take no part in a step. None of this
depends on edits staying out of a sync, so that Tui's proof can use the same
lemmas. That a sync ends clean, and that it drops no edit, does depend on it: a
second invariant, `TodoCurrent`, says that what a push has yet to send is what the
store holds and, until a conflict, all that is dirty (`TodoOf`).

`Promises_proofs` proves four things on top of this. The first is `LostOnlyToEdits`,
for everything Syncer has but a kill: that is its one assumption, and `Syncer_killed` shows that it is needed. The
argument follows a content from holder to holder. A holder (`HeldAt`) is a row with
the content, or a dirty record with it that will be sent. A row that is replaced
hands its content on to what replaces it, unless an edit won or a delete did. The delete, when it
met the content, has put it into a conflict copy, whose id is new and so larger
(`CopyMade`); `DeleteIsSafe` says that the copy, or what became of it, is still a
holder when the delete is committed. So the holder with the largest id can be
replaced only by one that keeps the content or by an edit (`SafeStays`): every
step is shown to give each holder an heir. Three things make "will be sent" true:

* `Told`: a record in a batch whose recorded answer is still to be received is no
  holder, as that answer replaces it; the row, which has it, is.
* `Everywhere`: an import of an old backup drops what was edited since, but every
  version of a record that was created with the content has it.
* `PendingInv`: a batch without an answer has a key of its own, a push finds none
  left, and a replay sends what the store holds; with `TodoCurrent` above.

TLC checked these parts on two devices with refused, lost and half-done pushes and
imports before the proof was begun, and found the kill.

The second is `ImplementsReplicas`, with kills (`SyncerImplementsReplicas`). Most steps
map by what the lemmas above say of `Serve`, `ApplyResults`, `Merged` and the copies;
a replay does not. It may find a recorded answer, and the step is an `Answer` of
Replicas only if that answer speaks of records the device had asked about. So a third
invariant, `BatchInv`, says where batches and their records are: batches with one key
name the same records, in every memory and every file, since a kill brings an
answered batch back; what is recorded under a key speaks of no other record
(`BatchesOK`); what is being sent was dirty when it was listed, or is what the store
holds of the first batch (`SentOf`). And a replay may send a record that is clean by
now: what came from the server has no base, and its row exists (`RowsStay`), so the
server refuses it (`OnlyDirtyApplies`). TLC checked
`BatchInv` and the refinement on the instance of `Syncer_faults` first.

The other two are about devices that are, or are no longer, level with the server;
both with kills. `SyncedDevicesAgree` (`SyncedAgree`) follows from the parts above: what
is clean was committed and is not past the cursor (`Clean`), versions are drawn once, so
a record with the version of a row is that row, and what was committed keeps a row
(`RowsStay`). `BehindForAReason` (`BehindOnlyForAReason`) needs a fourth invariant,
`FrontInv`, because a replay can bring an answer that was recorded long ago. Were the
row of that answer not newer than all the device has received, a newer one could
already be on the device, and the answer would replace it behind the cursor: a fifth
way. So `FrontInv` says, of every memory and every file, that at most one batch waits,
that what is recorded of it is newer than the cursor beside it, that no cursor is
ahead of the server, and that a row is the newest of its commits. If the answer is
then older than the row, the row is past the cursor too, and the move past it is the
one that `MovesPastRow` names (`AnswerBehind`). A pull is never the reason
(`PullIsNotBehind`): its rows are all there are past the cursor, and each is on the
device afterwards or is the base of what won over it. Nothing other devices do is
(`SeenStays`): a row they write is past every cursor. TLC checked `FrontInv` on the
instance of `Syncer_faults` first.

`Tui_proofs` proves, for every number of records, edits and faults, every chunk size
and clock, from `TuiAssumption` (one device is modelled record by record) and
`SyncerAssumption`:

| Theorem | Establishes |
|---|---|
| `TuiTypeIsOK`, `TuiInvHolds` | types; the inductive invariant `TuiInv` |
| `ListShowsStore` | `ListIsCurrent` |
| `DialogsKeepTheirSubject` | `ActsOnItsSubject` |
| `CalmEditsStay` | `CalmEditsSurvive` |
| `TuiSyncIsHonest` | `CleanIsCommitted` and `DeletedStaysDeleted`, with edits at any point of a sync |
| `NoCopyOfOwnPush` | `NoSelfConflict`, if no push is cut short half-done |

`TuiInv` is Syncer's `IInv`, shown again for the steps of the UI, and four parts.
`ScreenOK` ties the dialogs to records that exist; `SyncShape` ties `m.syncing` to the
goroutine; `ListOK` is `ListIsCurrent` with what the cursor of an empty list is.
`CalmOK` is the one that takes thought: an edit can be lost while it is clean, while
it is in a batch, while a saved answer waits to be replayed and while a form is
open, so `Home` says of one record that it has the edit *and* that none of these
four can take it away: the row has it if the record is clean, the batch in hand
has it, every recorded answer that was applied has it, and the form on screen was
filled with it. A pull moves this home to the conflict copy when the other side
wins. `Exchange` describes all ways a batch can meet the server and `SyncEffect` all
steps of a sync, so that each part looks at six cases instead of eleven actions.

`NoCopyOfOwnPush` needs a second invariant. `ForeignOK`: a live row the cursor has
not reached holds an edit that nothing on this device has (`Foreign`), or a recorded
answer still in pending tells of it, and then a replay comes before the next pull.
A push cut short leaves rows that no answer tells of; there the property fails, which
is the fault described under "What the violated runs show".

`Password_proofs` proves `EveryClassOccurs` for every length. The positions are a
permutation at every draw (`SwappedPermutes`), so what is written at position i was
not written before it (`WriteNext`); and the required classes fit, because their
number and i together stay at four or below, the least length there is (`Size`).

For each, TLC checked the invariant on the instance of the run first (for
`Syncer_proofs` with one fault less, as `IInv` quantifies over every row).

Only model-checked: `CodesAreExact`, which is about numbers over chosen inputs,
`EarlierEditsYield`, and `ShuffleIsFair`, which compares
with a recursive function; `RequestsEnd`, `SyncedUnlessSkipped`, `SyncEnds` and
`CallsEnd`, as liveness under fairness and `ENABLED` are beyond the prover. So are
facts that need induction over data, and RECURSIVE operators, which no module here
uses.

## What is not modelled, and why

* In the terminal UI: form fields and rendering. The codes of a detail screen are
  refreshed by a chain of ticks; each visit starts one more, which changes nothing
  but work.
* Two syncs on one Store record by record, when "q" is pressed during a sync:
  LocalFile has both as exchanges of edits, Syncer one at a time.
* The in-memory repositories: doubles for tests, each operation under one mutex.
* Encryption and key derivation: library calls without state of their own. What a
  wrong key does, a file that does not open, is part of LocalFile.
* Logging, CORS, version and size limits in the router; the generated API
  description (`api/openapi`).
* Several accounts on the server. They share the sequence, whose gaps VersionedStore
  allows already, and the space of record ids (see SyncServer). LocalFile has two,
  because they share a file.
* `Session.Close` after a failed explicit `sync` command does not run
  (`cli/sync.go:22-25`): this is `Crash` in Syncer and `Fails` in LocalFile.

## Plan

1. Done: VersionedStore, SyncServer, Syncer, Tui, Auth, LocalFile, App, Calls,
   Password, Totp, Config; proofs about SyncServer, Syncer (with what it can lose),
   Tui, Auth, LocalFile, Calls and Password.
2. Two syncs on one Store, when the TUI is closed during a sync: `proc` indexed by
   sync instead of device.
3. Liveness of Replicas: that a change of a device's own is answered or merged in the
   end, as far as `SyncedUnlessSkipped` allows.
