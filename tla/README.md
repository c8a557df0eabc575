# Reolink station in TLA+

TLA+ models of the station (the NestJS server under `src/` and the Next.js client
under `web/src/` of the repository), TLC instances that check them, and TLAPS
proofs. Paths in this file and in the modules' comments are relative to the
repository's root (`src/recordings/...`, `web/src/...`); in `PROJECT.json` they
carry the additional prefix of the checkout.

Contents: [the system](#1-the-system), [plan](#2-plan),
[how the models read the code](#3-how-the-models-read-the-code),
[the modules](#4-the-modules), [the runs](#5-the-runs),
[the proofs](#6-the-proofs), [where code and words differ](#7-where-code-and-words-differ),
[what is not modelled](#8-what-is-not-modelled).

## 1. The system

A user signs in, sees the cameras that are his or shared with him, watches them
live, moves them, and browses, plays and deletes the recordings the cameras upload
by FTP to a storage box. The server keeps users, invites, camera profiles and
shares in a SQL database; recordings are reached over SFTP through pools of
connections; PTZ commands go to the camera through an MQTT broker.

| Component | State it keeps | Operations | Called by / calls | What is hard | What makes it correct |
|---|---|---|---|---|---|
| Windowed reader `src/recordings/sftp-windowed-read.ts` | cursors `nextOffset`, `emitOffset`, counter `inflight`, map of finished chunks, `awaitingDrain`, `settled`, the remote handle | `pump`, `readChunk`, `emitReady`, `finish`, `onDrain`, `onDstClose`, `onDstError` | called with a response by the file endpoint, on a pooled connection | replies in any order, short reads, backpressure in the middle of a loop, a client that goes away | bytes in order, each once; the window is respected; the pump is never left asleep; nothing after settling; it settles |
| Pools `src/recordings/sftp-pool.service.ts` | one generic-pool and one configuration per host, port, user and password hash | `withConnection` (acquire, run, release), the factory's `create`, `validate`, `destroy` | called by the recordings service | failing and dropped connections, timeouts, two passwords for one box | a lease per running call and none other, own credentials only, no client forgotten |
| Recordings `src/recordings/recordings.service.ts`, `recordings.cache.ts` and the two controllers | `listCache` (10 s), `statCache` (5 min) | `listDir`, `stat`, `deleteFiles`, `prune`; the file endpoint | on the pools and the reader | caches filled after an await while a deletion ends; partial failure of a deletion | what was removed is not served afterwards; honest counts |
| PTZ `web/src/components/live/PtzControls.tsx`, `web/src/lib/live.ts`, `src/live/live.controller.ts`, `mqtt-ptz.transport.ts` | `movingRef`; the MQTT client and its `connect` listeners | `start`, `release`, `hardStop`, the effect's cleanup; `movePtz`, `send` | browser to server to broker to camera | two requests of one gesture race; the broker reconnects; timeouts | the camera comes to rest; nothing that timed out is published |
| Profiles `src/camera-profiles/` | table `camera_profiles` with encrypted secrets | `create`, `update`, `remove`, `findOneDecryptedForConnection`, `getMasked`, list | behind the guard; read by all camera features | load, merge and save with awaits between | a secret is encrypted once; a blank secret keeps the stored one |
| Access and sharing `src/sharing/` | table `camera_shares`, unique on profile and grantee | `access`, `accessibleProfileIds`, `canActivate`, `grant`, `revoke`, `revokeAllForProfile` | in front of every camera endpoint | check and use apart; grant against revoke and remove | nobody sees a profile without having had a row; what is withdrawn stays withdrawn |
| Invites `src/invites/`, `src/users/` | tables `invite_tokens`, `users` (unique e-mail) | `createInvite`, `redeem` | public endpoint | two redemptions at once, two invites for one address, a crash between claim and account | one account per token and per address |
| Authentication `src/auth/` | a signed cookie in the browser | login, logout, `validate` | in front of every endpoint but login and redeem | stateless in the server; the token expires before the cookie | |
| Live configuration `src/live/live-config.service.ts` | none | the two generated files | reads all profiles; called by its tests only | a profile that vanishes between listing and loading | generation survives it (it does not) |
| Live stream `src/live/live.controller.ts` | none | a proxied fetch | the stream server | the library's | |
| Path safety `src/recordings/path-safety.ts` | none | `resolveSafe`, `relJoin` | recordings | `..` and slashes in any place | a path is accepted exactly when it leads into its base |
| Crypto `src/crypto/crypto.service.ts` | key | `encrypt`, `decrypt`, `isEncrypted` | profiles | pure | inverse; recognises its own output |
| Web session `web/src/lib/api.ts`, `web/src/middleware.ts` | the cookie, the location of each tab | `req` with its 401, login, sign-out, redirects | every page | a 401 and a new login cross, on several tabs | no redirect loop; a good session is ended by nobody's mistake |
| Recordings browser `web/src/components/recordings/` | path, listing, selection, the bar's `busy` | browse, select, delete, prune, play | recordings endpoints | answers out of order, runs that end after the user has gone elsewhere, the reload after one | what is ticked is on the screen; what was removed is not; nothing stays blocked |

How they meet: the browser's components call the server by independent `fetch`
requests, with nothing that orders them. A camera endpoint is entered through
`CameraAccessGuard`, which reads the tables; the handler reads them again. The
recordings endpoints take a connection from a pool for as long as one SFTP
operation, or one whole response, lasts. All server code runs on one JavaScript
thread, so what happens between two awaits is atomic and everything else interleaves.

The hazards this leads to are listed, at their lines, in `PROJECT.json`.

## 2. Plan

Done in this order, the hardest first:

1. `OrderedStream` (abstract) and `WindowedRead` (detailed), with proofs;
2. `SftpPool`;
3. `Recordings`, with proofs;
4. `Ptz`, with a proof;
5. `CameraAccess`, the profile, sharing and guard code together, as they share
   two tables, with proofs;
6. `Invites`, with proofs.

7. `SftpPoolProofs` and the rest of `PtzProofs` and `CameraAccessProofs`;
8. `RecordingsBrowser`, with proofs;
9. `WebSession`, with proofs;
10. `PathSafety`, `FileRange` and `FileRequest`, which composes them with the reader,
    and the proof that every range is answered exactly;
11. `Leasing`, the abstract specification of the pools, and the proof that they implement it;
12. the proofs about paths of any length and bodies of any number of pieces.

Steps that would come next, in this order:

| Module | Content | Why it is not here yet |
|---|---|---|
| `PooledRead` | `SftpPool` with `WindowedRead` as its calls | what it would show follows from the two: a read that never settles (`windowed_read_gone`) is a call that never ends, against which `SftpPool` states a fairness |
| `Recordings` extended | two profiles on one box, the size of a file that is still being uploaded | staleness across profiles and of sizes is known from the text (section 7) |
| `LiveConfig` | ids first, then each profile | the service has no caller, so there is nothing it runs beside |

## 3. How the models read the code

* **A step is what runs between two awaits** (or one callback of the SFTP, stream or
  MQTT libraries). JavaScript runs it to completion, so it is one action with
  everything it calls: `finish()` within a read error, `pump()` within `emitReady()`,
  the caches' invalidation within the `finally` of a removal.
* **A query is atomic.** Each `find`, `update`, `delete` or `save` is one step. TypeORM's
  `save` of an existing entity reads and writes in a transaction of its own; it is one step.
* **External code** (generic-pool, the SFTP server, the broker, the camera) is modelled
  as the code uses it and marked external in the map. generic-pool appears as far
  as the options `min`, `max`, `testOnBorrow`, `idleTimeoutMillis` and
  `acquireTimeoutMillis` turn it on.
* **Data is cut to what the properties see.** A buffer is the file positions it was filled
  from; a password stands for its hash; a token stands for its hash and its row; a stored
  secret is its text and the number of layers of encryption on it; a file is its
  identity (camera recordings are written once). The six PTZ moves are one.
* **Lists of ids are sets.** A profile that is both owned and shared would be listed
  twice by the code and once in `CameraAccess`; `grant` refuses neither.
* **History variables** (`gone`, `before`, `raced`, `removed` in `Recordings`; `told`, `raced`
  in `RecordingsBrowser`; `held`, `kept`, `ended` in `CameraAccess`; `creator` in `Invites`;
  `excuses` in `Ptz`) record what happened and guard nothing.
* **Bounds** are constants whose names say so (`MaxSends`, `MaxLoads`, `MaxRuns`, `MaxClicks`,
  `Slots`); they limit what users do, never what the program does about it: whatever
  follows from a step that was allowed has its room.
* **Broken variants.** An operator whose comment starts with "Broken:" is a plausible bug
  in the definition that follows it. It is used by no specification; with it in place of
  that definition, the property it is listed with in `PROJECT.json` is violated.

Deadlock checking is off in every configuration: a bounded set of requests is served
and the system then rests, as the program does.

## 4. The modules

### OrderedStream, WindowedRead, MCWindowedRead, FileRequestProofs

One call of `windowedRead`. Chunk numbers stand for the offsets, which advance by
`CHUNK_SIZE`; `reading` are the reads the server owes an answer, `inflight` the code's
own counter, so that the two can disagree. `EmitReady` is the loop: it writes any
number of ready chunks, stops at the end, at a write that says false or at a chunk
that is missing, and pumps only in the last case. `sink = "gone"` at `Init` is a response
whose client left while the request was waiting for the database or a connection: its
`close` event is in the past. `OrderedStream` is the promise: pieces in order, end
at the last one, settle once.

| Code | Module |
|---|---|
| `nextOffset`, `emitOffset`, `inflight`, `completed`, `awaitingDrain`, `settled` | `nextChunk`, `emitChunk`, `inflight`, `completed`, `awaitingDrain`, `outcome` |
| `open` callback | `OpenSucceeds`, `OpenFails` |
| `read` callback: error or 0 bytes, short, full, after settling | `ReadFails`, `ReadShort`, `ReadCompletes`, `ReadIgnored` |
| `onDrain`, `onDstClose`, `onDstError` | `SinkDrains`, `SinkAborts` and `SinkFinishes`, `SinkErrors` |
| `finish`, `pump`, `emitReady` | `Finish`, `Pump`, `EmitReady` |

### PathSafety, FileRange, FileRequest, MCFileRequest, FileRequestProofs

`PathSafety` has `resolveSafe` and `relJoin` on paths as sequences of what stands between
slashes, beside a definition of where a path leads that does not walk it (`Denoted`: a
name counts unless some stretch that begins with it has as many `..` as names).
`FileRange` has `parseRange` and what the handler makes of it: status,
`Content-Length` and span, beside the set of positions the header asks for (`Asked`).
`FileRequest` is `RecordingsController.file` as a whole, with the service's `stat` and
`streamTo`: it EXTENDS both and `WindowedRead`, whose steps run for those requests whose span is the
instance's. The request is any of `Requests`. A path is resolved where the code does it: after the
profile was loaded, which may fail first (404, 500) and finds the base path of that moment, any of
`Bases`; not at all if the size is in the cache; and again before the stream. `abs` is what the storage
is asked for since the last load. After the headers a failure cuts the connection. A range whose first
position is after its last, or after the end of the file, gives 416.

| Code | Module |
|---|---|
| `file` up to `stat`'s cache | `Begin`, `MayBeCached` |
| `conn`, then `resolveSafe` | `Resolve` |
| `stat` on a miss: `conn`, pool and storage | `Load`, `Stat` |
| the headers, 416, HEAD | `Respond` |
| `streamTo`: `conn`, pool, `windowedRead` | `Open`, `Lease`, `Reader` |

### Leasing, SftpPool, MCSftpPool, SftpPoolProofs

A connection is a place of its pool, one of `MaxPerBox`: `unused`, `connecting`, `idle`,
`testing` (on borrow) or `lent`. The pool forgets a connection at once when it destroys it;
nothing waits for its `end()`. `queue` holds the waiting clients of each
pool. `Dispense` is generic-pool's loop: new connections for the clients that lack one, up
to `max`, and a test of as many idle connections as there are clients without one
under test; `EnsureMinimum` is `min: 1`. Connections of a pool are equal, so which of them
is taken is not a choice (`Some`). `Acquire` and `Finish` are the two halves of
`withConnection`. The box may drop a connection, which the pool finds out by its
test only, and its password may be changed.

`Leasing` is what the pools promise those who call `withConnection`, with no connection
in it that is opened, tested, dropped or evicted: clients of a pool are served in the order they came,
at most `Limit` at a time, each with something nobody else has, and it is given back when the
call has ended, in whatever way; who waits too long gets nothing. `SftpPool` implements it under
the mapping in which a place has the task of its connection as its lessee (`Lessee`).

### Recordings, MCRecordings, RecordingsProofs

A list or a get looks into its cache (`ListBegins`, `GetBegins`), reads
(`ListReads`, `GetStats`), and enters what it read in the cache once the answer
is there and the connection released (`ListReturns`, `GetReturns`): three steps with
two gaps. A removal deletes one path per step, each of which may succeed, succeed
without the answer arriving, or fail; it ends by returning or throwing and in both
cases invalidates. The get then streams (`GetStreams`), with the status already sent.

### RecordingsBrowser, MCRecordingsBrowser, RecordingsBrowserProofs

The recordings page and, through the server's listing cache, the storage. `Load` is the
effect of a new folder or `reloadKey`; a load's number is also the run of the effect
that sent it, so that the `ignore` flag is `i # Len(loads)`, and names the `ManagerBar` mounted
under its listing. `Run` is `ManagerBar`'s `run` after the confirmation. A run goes on
when the user leaves the folder; when it is answered, `onMutated` reloads the folder that is open
by then (`RunArrives`). On the server, a listing looks into the cache, reads and returns
in three steps, and a removal deletes file by file and invalidates at its end, as
in `Recordings`.

| Code | Module |
|---|---|
| `dir`, `entries` and `error`, `selected`, `ManagerBar`'s `busy` | `dir`, `shown` and `files`, `selected`, `busy` |
| the effect, its `ignore` flag, `then` and `catch` | `Load`, `ListArrives`, `ListRejected` |
| `setDir` of a folder and of the breadcrumb, `toggle` | `OpenFolder`, `Crumb`, `Toggle` |
| `run`, `onMutated` | `Run`, `RunArrives`, `RunRejected` |

### WebSession, MCWebSession, WebSessionProofs

A browser with several tabs that share one cookie. All pages but the login page
are one, which asks the API for something when it is mounted. `Document` is a new
document (a reload, an address, `window.location`), `Replace` the router's change of
page; `Middleware` goes by the cookie's presence, the API by whether it still accepts
the token. A request whose document is gone (`live` is false) matters for the cookie
only. `Rejected` is a 401 in `req`: it sends the logout, and `Cleared` or `ClearFails` is
its answer, after which the document is replaced. The logout clears whatever
cookie there is when it is answered, a fresh one too.

### Ptz, MCPtz, PtzProofs

From the button to the camera. `requests` are the POSTs in the order they left the
browser; `Arrive` is the arrival at `send()` after the guard's queries, in any order if
`Reorders`. `waiting` are the `connect` listeners, `topic` what has been published.
Requests are refused or lost, time out (`TimeOut` while they wait for the connection,
`TimeOutPublishing` after they were handed to the client), and the broker comes and goes.
What no code here can make good is recorded in `excuses`: `unload` (a document that goes away
without cleanup: closed tab, `window.location`), `keyUp` (a key that comes up where
the button does not hear it), `lostStop` (a stop that was refused, timed out or lost in
the broker).

### CameraAccess, MCCameraAccess, CameraAccessProofs

The two tables, and requests that pass the guard (`GuardReadsProfile`, then
`GuardReadsShare`) and run their handler query by query. `update` is `UpdateLoads`
and `UpdateSaves`, `remove` is `RemoveUnshares` and `RemoveDeletes`, `grant` is
`GrantFinds` and `GrantSaves` (whose insert fails on the unique key), a list reads owned
ids, shared ids, and then the profiles one by one. `Seal` and `Unseal` are `encrypt`
with its `isEncrypted` test, and `decrypt`.

### Invites, MCInvites, InvitesProofs

`redeem` as the steps find, look up, claim (the conditional update), create and answer;
any query may fail, and the process may stop with the requests under way while the tables remain.

## 5. The runs

| Run | Instance | Distinct states | Shows |
|---|---|---|---|
| `file_request` | bytes 3..11 in chunks of 2, window 3; all paths and ranges below | 669,506 | the path the storage is asked for lies inside the base of the moment, entries lead back, ranges are answered exactly; of the reader: type, order, window accounting, no lost wake-up, silence after settling, refinement of `OrderedStream`, delivery of what was asked for, and, with fairness, that the call settles |
| `windowed_read_gone` | the reader alone | 2,825 | violation: a client that had gone before the call leaves the promise pending |
| `sftp_pool` | 4 calls, 2 passwords, `max` 2 | 71,936 | credentials, no forgotten client, a call with the right password is served, and refinement of `Leasing`: turn, own connection, return |
| `recordings` | 2 files, 2 lists, 2 gets, a delete and a prune | 5,845,636 | freshness unless a read was overtaken, honest counts |
| `recordings_stale` | the same | 12,969 | violation: a listing served stale |
| `recordings_browser` | 2 folders, 2 files, 4 listings, 2 runs | 106,564 | what is ticked is shown, no ghosts, the bar is busy with its own run, the page recovers |
| `ptz` | 4 requests, all faults but reordering | 320,170 | a stop is sent last; nothing is published after its timeout; the camera is not left moving and comes to rest, unless excused |
| `ptz_overtaken` | the same with reordering | 49,467 | violation: the camera is left moving |
| `access` | 9 requests of which any 4 begin, 2 users, 2 profiles | 147,880 | isolation, withdrawal, complete lists, secrets sealed once |
| `access_lost_secret` | 2 updates | 49 | violation: a blank secret restores an old one |
| `invites` | 3 tokens, 2 addresses, 4 redemptions | 49,464 | one claim per token, one account per address, no invite lost to a race |
| `web_session` | 2 tabs, 2 requests each, 3 tokens, 4 clicks | 113,501 | a good session is ended by a sign-out or another session's request only; no redirect loop |

The counts of the runs that expect a violation are those at which TLC stopped; each ends with
the trace it is there for.

Why the bounds are enough:

* *File request.* Five chunks with a window of three: the window fills, slides and is
  not refilled at the end; the last chunk is shorter than the others; a chunk of two
  bytes can be read short. The start is not a multiple of the chunk size. An empty span
  is a case of `Init` the proofs cover. Paths have up to four segments out of two names,
  `.`, `..` and the empty one, under eight bases (the root, one and two folders, with slashes, `.` and
  `..` too many), one at each load: enough to leave the base and come
  back, to come back beside it, and for every slash too many. Ranges have every first and
  last position in 0..13, or none, for every size in 0..12; the proof covers the others.
* *Pool.* `max` 2 with three clients for one pool, so that one waits while all is lent, and
  a fourth for a pool with another password: waiting, exhaustion, and failure of one pool beside
  the other.
* *Recordings.* Two reads of each kind, so that one fills the cache and the other is
  answered from it; two removals of overlapping files. All requests use profile A: caches
  of different profiles do not touch. Lists, and gets, are symmetric.
* *Recordings browser.* A folder and one below it, each with a file, one of them old enough
  to be pruned. Four listings are the first, two by navigation and one by a run, or
  the like: enough for an answer that is late by two and a run that ends in another folder.
* *PTZ.* Four requests are two gestures. Every move leaves room for its stop, so
  the bound never cuts off the stop itself. One camera and one browser.
* *Access.* Each request is a different operation, two of them updates and two grants;
  a race of the properties needs three (a withdrawal, the save that undoes it, a reader),
  and the constraint `MCFew` lets any four of the nine begin.
* *Invites.* One token redeemed twice, a second invite for the same address, a third
  for another.
* *Web session.* A login on each tab, a late request of an older session on one, a
  sign-out: four clicks. What pages ask for by themselves and what 401s do is not counted. Three
  tokens: the cookie's, an older one on its way, and a new one.

**Fairness.** `FileRequest` and `WindowedRead`: the SFTP server
answers every request (weak fairness of each reply) and a client that stays takes what
it was sent (of drain and finish); no one is obliged to abort. `StreamSettles` is stated for a
client that was there when the call began; `windowed_read_gone` is about the other.
`SftpPool`: running calls end, the SSH client reports every failure, and of a pool that again and
again connects, or tests, some connection succeeds sometime (strong fairness per pool,
not per connection): without it the box may refuse every attempt. `Served` also assumes that
the password is not changed. `RecordingsBrowser`: every fetch settles, one way or the
other. `WebSession`: every request is answered, and a logout that is tried again and again
succeeds sometime (strong fairness of `Cleared`): while every logout fails, the page does go
around in circles. `Ptz`: requests arrive, the MQTT client reconnects (it is configured to), and
the camera takes messages; `CameraRests` speaks of users who let go for good. The
violation of liveness is under the same fairness.

## 6. The proofs

All are checked by TLAPS for every value of the constants that the named assumptions allow.
In each module the theorems follow from an inductive invariant that adds to the property what
it needs of the rest of the state.

**FileRequestProofs.** Assumptions: `SpanAssumption`, `SizeAssumption`, `GoneAssumption`,
`BasesAssumption`, `RequestsAssumption`. None of the properties is inductive. `IInv` adds to `TypeOK` and
`WindowAccounted`: `Emitted` (the cursor is in range and `out` is, buffer by buffer, the span
up to it), `Filling` (each buffer holds the first bytes of its chunk, all of them once it is
completed), `Exhausted` (unless a drain is awaited, the next chunk owed is not there yet
and the window is full or nothing is left to request) and `Phases` (what the
handle, the sink and the outcome say of each other). The core lemma is `EmitStep`: the
loop of `emitReady`, for any number of buffers, keeps all of it. From `IInv` follow
`TypeCorrect`, `DeliveryInOrder`, `WindowIsAccounted`, `NoLostWakeup`, and the action
property `FinishIsFinal`. `ReaderImplementsStream` shows that initial states map to
initial states (`RefinementInit`) and every step to a step or a stutter
(`RefinementStep`): a loop that writes k buffers is `Deliver(k)`. For the endpoint,
`RangesAreExact` shows that what a header asks for is one span, from `First` to `Clipped`
(`AskedSpan`), and `EndpointRunsTheReader` that the reader inside it is the reader, so that
the theorems above hold of `FileSpec` too.

What paths lead to, and what the pieces of a body add up to, takes induction. The library states
induction with an operator as a parameter; here it is proved by a least counterexample
for a set of naturals (`Least`, `Induction`) and, for functions defined by recursion,
`RecursionExists`. On that rest:

* *Paths.* `normalize` builds its result from left to right and can take back what it has written;
  `Denoted` looks at the whole path at once. The two meet in a trace of the walk: after each step (`Walks`), what has been written are
  the names at those positions that no stretch so far takes back, in their order (`TraceExists`),
  each at the place its rank says (`Ranks`).
  `NormalizeDenoted` is the outcome, and `ResolveIsExact`: for every base and every path,
  `resolveSafe` accepts exactly what leads into the base and returns what it leads to. With
  `NormalizeTwice` (to normalise the base first makes no difference) and `JoinMeans` (what `relJoin` drops and
  inserts does not matter) follows `JoinLeadsBack`: the path of a listed entry is accepted, and leads to
  that entry of the directory that was listed.
* *Bodies.* `Flattens` and `PiecesJoin`: pieces that lie end to end, each as long as its chunk,
  add up to one stretch of the file, however many there are. `WholeBody` applies it to what
  a reader that finished without an error has written.

`Answered` is the endpoint's invariant: what the storage is asked for is what `resolveSafe` made of
the path and the base as loaded last, there is such a thing whenever the storage is asked, and
403 says that there was none. From it, `ResolveIsExact` and `IInv`: `RequestsStayInside` (at `stat`
and at `streamTo`, whatever update moved the base between them), `ListedEntriesResolve`,
`BodyIsWhatWasAsked`.

**SftpPoolProofs.** Assumptions: `CfgAssumption`, `BoundAssumption`, `NoTaskAssumption`. Two
layers. `Leases`: the types, who waits in which queue (each waiting call once, in the
pool of its own key), and who holds which connection. From it: `PoolTypes`,
`CredentialsAreOwn` (keys are injective), `LeasesAreMatched`. On top of it, `Attention`: for
each pool where clients wait, at least as many connections are being tested as clients wait
or none is idle, and at least as many are on their way (being opened, idle or being tested)
or no place is left: what `dispense` does for waiting clients, it has done.
`DispenseAttends` shows that the loop brings this about from any state, and one lemma
per kind of step that what it leaves is kept. From it: `NoClientIsForgotten`.

`PoolsImplementLeasing` is the refinement, step by step: `Acquire` asks (`AcquireAsks`), a test that
passes lends to the first in line (`ValidationLends`), a timeout gives up (`TimeOutGivesUp`),
the end of a call returns (`FinishReturns`), and every other step, `Dispense` within them included,
changes the task of no connection and no queue (`SameLessees`, `SameService`). It needs `Leases`:
the task that is in front of the queue does wait, and a running call holds exactly one connection of its pool.
`LeasesAreMatched` says part of it as an invariant of the code's own state; no run checks that one
by itself, as the refinement contains it.

**RecordingsProofs.** Assumption: `RequestAssumption`. `FreshUnlessRaced` needs to know
why a stale answer cannot come about otherwise: `IInv` says that no removed file is in
the box (`Vanished`; names are not used twice), that what a request takes for removed
is removed (`Since`), that a get only ever sees its target (`Own`), and, for a profile
that was not raced, that neither its caches (`FreshCaches`) nor a read on its way to
them (`FreshReads`) hold a removed file. `CountsAddUp` needs `Finite`. From `IInv`:
`TypeCorrect`, `FreshAfterRemoval`, `CountsAreHonest`.

**RecordingsBrowserProofs.** Assumptions: `TreeAssumption`, `OldAssumption`,
`BoundAssumption`. Layers, each on top of the ones before: `Types` (with the count of
listings: each run that is awaited has room for its reload), `Screen` (what is
on the screen belongs to the last load), `Bar` (whose run `busy` is about) and `Traces`
(where a removed file may still be: in the storage, in the cache, in a listing on its way, on
the screen). From them: `BrowserTypes`, `SelectionStaysShown`, `BarIsBusyWithItsOwn`,
`RemovedFilesStayAway`.

**CameraAccessProofs.** Assumptions: `AskAssumption`, `InitialAssumption`. `TypeOK`
contains that a stored secret has one layer of encryption; it needs that an update that
is about to save has loaded a row (`LoadedRow`) and lemmas on what `encSecrets`, `decSecrets` and
the merge do to a configuration. `Isolation` speaks of answers; its strengthening
`Justified` speaks also of the ids a list has still to look up and of what the guard has let
a get have. `WithdrawnUnlessRaced` needs that no share reappears between the two steps of
a remove (`Withdrawn`) and that a request that had ended before another began stays ended
(`EndedOver`). `ListComplete` needs that nothing becomes its user's own between the query for
owned ids and the query for shared ones: profiles do not change their owner, as overlapping updates
have loaded rows of one owner (`Owners`) and no request knows of a profile before it is created
(`Unborn`). From them: `TypeCorrect`, `ProfilesAreIsolated`, `WithdrawalsLast`,
`ListsAreComplete`.

**PtzProofs.** Assumptions: `MaxSendsAssumption`, `ReordersAssumption`. The browser's half:
`StopIsSentLast`; the strengthening is about `movingRef`: when it is not set, the last command
sent was a stop (`FlagTells`), and it is not set while nothing is held (`FlagNeeded`). The
server's half: `PtzTypes` and `NothingIsPublishedLate`; the `connect` listeners are exactly
once those of requests that wait (`Listeners`). Both together: `CameraIsNotLeftMoving`, if
requests do not overtake each other. They then stay in line through guard, listeners and
topic (`InLine`), so that there is always a last request that was taken, all that is under way
comes after it, and so does every stop that counts (`StopsCount`).

**InvitesProofs.** Assumption: `TokenAssumption`. `IInv` adds that a request past
the look-up names an invite (`Known`), that one past the claim names a redeemed one
(`Marked`), and that an address with a creator has a user (`Recorded`).
From it: `TypeCorrect`, `ClaimIsExclusive`, `AccountIsUnique`, `InviteIsSpent`.

**WebSessionProofs.** Assumptions: `TokenAssumption`, `BoundAssumption`. The types are
inductive together with `Refused`: the token of a request that was answered with 401 is not
accepted, and no login makes it so. From it: `SessionTypes`, `GoodSessionsEndByOthersOnly`.

**Only model-checked**: liveness (`StreamSettles`, `Served`, `CameraRests`, `Recovers`,
`NoRedirectLoop`), as liveness under fairness and `ENABLED` are out of TLAPS's reach here. Every
other property that a run checks and finds to hold is a theorem. No module declares a `RECURSIVE`
operator.

## 7. Where code and words differ

Each of these is a run that finds the violation.

1. **A client that leaves early is never noticed** (`windowed_read_gone`). The listener for
   `close` is attached when `windowedRead` is called, which is after the awaits of guard,
   stat and acquire. If the response closed before, its `write` returns false, no `drain` and
   no second `close` follow, the promise stays pending and the pooled connection is
   not released. The comment on the function promises the opposite.
2. **Stale listings after a deletion** (`recordings_stale`). `listDir` and `stat` enter what they
   read without looking whether the profile was invalidated since. A listing read before a
   deletion and returned after it is served for the whole TTL. `RecordingsBrowser` has the same
   from the page's side: the reload after a deletion may show the file again.
3. **A stop can be overtaken by its move** (`ptz_overtaken`). Two POSTs, each with database
   queries before its publish, and nothing that orders them. The camera keeps moving.
   Other ways to the same end need no race, and are the model's `excuses`: closing the
   tab or being redirected by a 401 runs no cleanup, a key released with the focus elsewhere
   sends no stop, and a stop that fails is not sent again.
4. **A blank password can undo a new one** (`access_lost_secret`). `update` loads, merges
   and saves the entity; a concurrent update's password is written over with the old one.

More follows from the text of the code, and is no property here:

* `WINDOW` bounds the outstanding reads but not the chunks that are finished and wait for an
  earlier one ("Never buffers the file in memory", `recordings.service.ts:65`): the memory of
  a read is bounded by the span and not by the window.
* A client that stays connected and never drains holds a connection for as long.
* `MAX_PER_BOX` holds per pool: profiles naming one account with two passwords have
  two pools, whose connections add up.
* The size of a file that is still being uploaded is cached like any other, and two
  profiles on one box do not invalidate each other's caches.
* An update of a profile's storage invalidates no cache either: a size found there sets the headers of a
  response whose path was resolved under the base path of before. `StaysInside` shows that no file
  is read that way: `streamTo` resolves the path again, and the response is cut.
* The logout after a 401 clears the cookie there is when it arrives, which a login on another
  tab may have set meanwhile ("Clear the rejected cookie first", `api.ts:14`).
  `EndedByOthersOnly` is what remains true.
* `ManagerBar` reports "Deleted n files" and asks for the reload that unmounts it
  (`ManagerBar.tsx:20`). A run that fails half-way reloads nothing (`ManagerBar.tsx:22`),
  so that files it removed stay on the screen until the next load.
* A listing that failed in the root folder cannot be asked for again but by leaving the page:
  the breadcrumb sets the folder it has already, and the bar is not shown
  (`RecordingsBrowser.tsx:63`).
* `ProfileForm` sends every field that is no secret, so that a form that was open while
  another was saved writes the old values back.
* `LiveConfigService` fails as a whole if a profile vanishes between the listing and its load.

## 8. What is not modelled

* **Shutdown** (`onModuleDestroy` of the pools and the transport): `main.ts` enables no
  shutdown hooks, so it runs in tests only.
* **Live configuration**: two formatters without a caller.
* **Live stream**: one fetch piped to the response by the library; `LivePlayer` shows it or an
  error with a retry button.
* **Subdirectories** in `Recordings`: one directory stands for the tree; `RecordingsBrowser`
  has folders, with a cached listing each.
* **Sizes and dates** of entries, **two profiles on one box**.
* **PlayerModal and the bar's messages**: the one shows a file until it is closed, the others
  are wording.
* **A secret sent as JSON `null`**: `stripBlank` lets it through, which writes it over what is
  stored. `Blank` in `CameraAccess` is the empty string or a field left out.
* **Masking, validation of bodies, the roles guard, `GET me`**, and HTTP status codes but
  those of the file endpoint and 401.
* **Encryption itself**, argon2, JWT: taken as functions.
* **The other client pages**: they render and submit one request, which the server's modules have.
* **Deployment**: manifests.
