# Watermelon Link in TLA+

Watermelon Link pairs a phone with a browser tab through a small signalling
server, and then lets the phone use a folder the browser's user chose as remote
storage over a WebRTC data channel. This directory holds TLA+ models of the
parts of the program in which order, failure and shared state matter, TLC
configurations that check them on small instances, and proofs, checked by TLAPS,
of what holds for every instance.

Contents: [the system](#the-system), [the modules](#the-modules),
[the rooms](#signalling-rooms), [the front door](#the-front-door), [the writer](#writing-the-usage-counts),
[the aggregates](#what-is-counted), [uploads](#uploads), [downloads](#downloads), [the link page](#the-link-page), [proofs](#proofs),
[what is only model-checked](#what-is-only-model-checked),
[what is not modelled](#what-is-not-modelled), [the plan](#the-plan).

## The system

    phone (iOS) ---- WebSocket ----\
                                    signalling server --- metrics file
    browser page --- WebSocket ----/     tickets, rooms, limits, usage counts
        |  \------- HTTP: config, tickets
        |
        \--- data channel (direct, after pairing) --- phone
             filesystem node: uploads, downloads, namespace operations

| component | source | state | operations | talks to |
|---|---|---|---|---|
| signalling rooms | `server/src/rooms.ts` | rooms and their peers, spent tickets, four admission counters | attach, messages and control frames, close/error events, send callbacks, sweep, close | WebSockets of both peers (events, callbacks), usage counts (`connectionCompleted`) |
| HTTP server and upgrade path | `server/src/server.ts` | nothing but the limiters and `resourcesClosed` | ticket route, upgrade handler, shutdown | limiters, Turnstile, tickets, rooms, usage counts |
| tickets | `server/src/tickets.ts` | a key per process | issue, verify | - |
| rate limiters | `server/src/rate-limiter.ts` | fixed windows by key, bounded table | consume, makeSpace | - |
| Turnstile verifier | `server/src/turnstile.ts` | running verifications, minute budget | verify | Cloudflare, abort signal of the client |
| usage counts | `server/src/usage-metrics.ts` | totals by hour, day and for ever; hash sets; write loop | record, prune, flush, close, load | metrics file (temporary file and rename), timer |
| process | `server/src/index.ts`, `process-safety.ts` | shutting down or not | signals, five-second limit, fatal errors | server |
| filesystem node | `web/src/file-system-node.ts` | two control queues, a queue per upload, uploads, downloads, windows and budgets, orphaned reads | message handler, 13 operations, frames, acknowledgements, idle timers, dispose | data channel, File System Access API |
| browser node lease | `web/src/browser-node-receipts.ts` | Web Lock, list of receipts in local storage | acquire, closeAfter | other tabs, filesystem node (quiescence) |
| link page | `web/src/main.ts` | one connection attempt: state, sockets, timers, folder, lease | check, choose, create, cancel, pairing, authentication, expiry, pagehide | server, phone, lease, filesystem node |
| helpers | `crypto.ts`, `local-network.ts`, `network-security.ts`, `client-platform.ts`, `config.ts`, `upload-chunk-policy.ts`, `i18n.ts` | none | pure functions | - |

Where it is hard, and what makes each part correct:

- **Rooms.** Node runs one handler at a time, but a room is closed by whichever
  handler notices something first, and the sockets of a closed room go on
  emitting events into closures that captured the old room object. Correct
  means: the counters that admit connections are exact, a room exists exactly
  while it has a peer, a ticket pairs at most once and then never opens a room
  again, late events do nothing, and every room ends.
- **Usage counts.** Events, a one-minute timer, an asynchronous write loop, the
  gap between its last await and its `.finally`, shutdown and kills. Correct
  means: the file is always whole and only moves forward, no event is forgotten
  while the process lives, `close()` drains and ends, the periods add up, and no
  snapshot is rejected by the validation of the next start.
- **Filesystem node.** Two control queues and one queue per upload run
  independently over shared maps, native file calls cannot be cancelled, idle
  timers race with queued work, and disposal has to wait for everything.
- **Lease.** Several tabs share one lock and one list; a receipt may exist only
  for a node that has become quiescent.
- **Link page.** Every await of an attempt may be followed by a cancellation, an
  expiry, a failure or a newer attempt.
- **Limits.** Order of the budgets, bounded tables, a ceiling on concurrent
  verifications with aborts.

`PROJECT.json` lists the hazards one by one, each at its line, with the
properties that cover it.

## The modules

| module | models | role |
|---|---|---|
| `PairingSession` | - | abstract specification: what the service promises about one ticket |
| `RoomRegistry` | `rooms.ts` | detailed specification; implements `PairingSession` |
| `MCRoomRegistry` | - | populations and symmetry for TLC |
| `RoomRegistryProofs` | - | theorems about `RoomRegistry`, with the refinement |
| `RateLimiter` | `rate-limiter.ts` | operators on one table |
| `FrontDoor` | `server.ts`: ticket route, upgrade handler; `turnstile.ts`, `tickets.ts` | specification, uses `RateLimiter`; what passes is `Presents` of `RoomRegistry` |
| `MCFrontDoor` | - | limits and kinds of traffic for TLC |
| `FrontDoorProofs` | - | theorems about `FrontDoor` |
| `MetricsWriter` | `usage-metrics.ts`: timer, write loop, close; process | specification, checked directly |
| `MetricsWriterProofs` | - | theorems about `MetricsWriter` |
| `UsageAggregates` | `usage-metrics.ts`: counting, pruning, loading | specification |
| `MCUsageAggregates` | - | symmetry for TLC |
| `UsageAggregatesProofs` | - | theorems about `UsageAggregates` |
| `UploadNode` | `file-system-node.ts`: uploads, control queues, disposal | specification, checked directly |
| `MCUploadNode`, `MCUploadPairs` | - | paths, sizes and phones for TLC |
| `UploadNodeProofs` | - | theorems about `UploadNode` |
| `DownloadNode` | `file-system-node.ts`: downloads, responses, control queues, disposal | specification, checked directly |
| `MCDownloadNode` | - | transfers and sizes for TLC |
| `DownloadNodeProofs` | - | theorems about `DownloadNode` |
| `NodePromise` | - | abstract specification: what the pages of one browser promise about their nodes |
| `LinkPage` | `main.ts`: connection attempts; `browser-node-receipts.ts` | detailed specification; implements `NodePromise` |
| `MCLinkPage` | - | tabs for TLC |
| `LinkPageProofs` | - | theorems about `LinkPage` |
| `Sums`, `SumProofs` | the sums `reduce` computes | sums over finite sets, and lemmas about them |

Conventions. An action is what the program runs without giving up control: a
whole event handler on the server, the code between two awaits elsewhere.
Operators named `...Slip` are the operator that follows them with one plausible
programming slip; they are used by nothing and exist to show that a property
notices the slip (the last column of the tables below). Variables and operators
keep the source's names where TLA+ allows.

## Signalling rooms

`RoomRegistry.reg` is one record: the registered room objects, the attached
peers, the room object each socket's listeners captured, the fields of room
objects, the spent tickets and the counters. A handler in `rooms.ts` is a
composition of private methods, so these are operators on that record
(`ReleasePeers`, `ReleaseUnpaired`, `ReleaseCreation`, `Consume`, `CloseRooms`,
`Detach`) and every action applies them to `reg`.

A room object is named by the connection that created it. Two rooms that existed
at different times for one session are different objects; `roomOf` keeps what a
closure captured. This is what makes late events and callbacks expressible.

| action | code |
|---|---|
| `AttachRefused`, `AttachExpired`, `AttachSeated` | `attach`, by outcome |
| `Relay`, `Complete`, `CloseByMessage` | `handleMessage` |
| `CloseByControlFrame` | `handleControlFrame`, `safePong` |
| `SendCallbackFails` | the error callbacks of `send` and `pong` |
| `SocketClosed`, `SocketError` | the listeners that call `detach` |
| `PeerCloses` | a socket leaves `OPEN` before `close` is emitted (external) |
| `Sweep`, `Shutdown` | `sweep`, `close` |
| `Tick` | the clock (external) |

Abstractions. Message, byte and control-frame budgets and every malformed
message are one nondeterministic close. The capability hash is bound to the
session by the signature, so a mismatch for a registered session does not occur.
A refused socket never gets a listener, so its identity may try again; its
250 ms termination timer touches no state of the registry. Whether a send throws
is chosen freely. Loops over a Map that delete from it are sets: the
iteration visits each room that is still there, and closing one room never
touches another.

| run | instance | properties | slip that breaks it |
|---|---|---|---|
| `rooms` | 2 sessions, 5 sockets, 2 networks, 2 rooms, tickets that expire at different times | `AccountingExact` | `ReleaseUnpairedSlip` |
| | | `RoomsOccupied` | `DetachSlip` |
| | | `PairedMeansSpent` | `ForgetSlip` |
| | | `SecondPeerAdmissible` | `ReleasePeersLeakSlip` |
| | | `StaleEventsAreInert` | `CloseRoomsSlip` |
| | | `KeepsPromise` (refinement of `PairingSession`) | `SweepSlip` |
| `rooms_consumed` | 6 lone tickets, 1 room | `ConsumedBounded` | `RoomRefusedUncappedSlip` |
| `rooms_limits` | 3 sessions, 2 networks, 2 rooms of which 1 reserved, fair clock and sweeper | `ReservedSliceKept` | `RoomRefusedSlip` |
| | | `RoomsEnd` | `ExpiredSlip` |

Bounds. `rooms` needs two browser attempts for one session so that a second room
object of a session can meet events of the first, a phone on another network so
that the counters by network differ from the global one, and a second session so
that an error in one room could spill over. The clock runs to 2 so that the
first ticket expires during the run and the second at its end. `rooms_limits`
has one session more than rooms, and two of them on the network that must not
take both. `rooms_consumed` has enough tickets to pass the
limit of four by the number `closeRoom` may add. All of them set
`CHECK_DEADLOCK FALSE`: when the clock is at its bound and every socket is
closed nothing is left to do. `RoomsEnd` assumes weak fairness of `Tick` and
`Sweep` only, a running clock and a `setInterval` that is cleared by nothing but
`close()`; no peer ever has to act.

## The front door

`FrontDoor` is what a request passes before it reaches the rooms. `tables` holds
the Map of every `FixedWindowRateLimiter` as a sequence in insertion order, since
`makeSpace` looks at the Map from its front; `RateLimiter` says what `consume`
answers and what it leaves. `request[s]` is the ticket request that is going to
get session s: reading its body, being verified, or issued until `expiresAt`.
`charged` is a history variable: what each network took of the raw global
budget since its window started.

| action | code |
|---|---|
| `Upgrade` | the upgrade handler, from the network's budget to `attach`; it never awaits |
| `Ask`, `BodyRefused`, `BodyAccepted` | the ticket route up to its second await, with the first half of `TurnstileVerifier.verify` |
| `VerificationSettles` | the second half of `verify`, `tickets.issue` |
| `Tick` | the clock (external) |

Abstractions. The clock does not go back (`Date.now()` can; then a window lasts
longer and a table may keep an entry behind a younger one). Human verification is
enabled, as production requires. A ticket that is forged, malformed or for
another path is no ticket. The budgets of the two global limiters and of the
verifier are tables of one key.

| run | instance | properties | slip that breaks it |
|---|---|---|---|
| `front_door` | 2 networks, 2 sessions, windows of 2 ticks, 4 ticks, tables of 2 keys of which 1 is looked at, 2 upgrades per network and budget, 7 for all, 1 verification at a time and per window | `SharedAllowanceKept` | `UpgradeSlip` |
| | | `NewKeysAdmitted` | `ConsumedSlip` (in `RateLimiter`) |
| | | `VerifierRecovers` | `BodyAcceptedSlip` |

`MCFrontDoor` chooses in the initial state whether the phones and pages flood the
upgrade handler or are guests with tickets; the two kinds of traffic share
nothing but the upgrade limiters, and each alone fills them. Seven is the least
raw budget `loadConfig` accepts for two upgrades (four times two minus one), and
`SharedAllowanceKept` fails with six: a network may spend the end of one window
and all of the next in both of its budgets, `4 * 2 - 2`, inside one raw window.
One key looked at in a table of two is the case in which order alone decides
whether an expired key is found. The assumed fairness is that of
`AbortSignal.timeout`. The clock stops at its bound, hence no deadlock check.

## Writing the usage counts

`MetricsWriter` follows one process from start to exit or kill and lets it start
again over the same file. What is counted is irrelevant here, so `state` is the
number of events and a snapshot is such a number; `Missing` and `Partial` are
the two other things a file can be. `loop` says where the promise `writeLoop`
is: the awaits of `writeMetrics`, or `settled`, the gap between the end of
`drainWrites` and its `.finally`.

| action | code |
|---|---|
| `Start` | constructor: `load`, `prune`, perhaps `scheduleFlush` |
| `Record` | `record` |
| `TimerFires` | the flush timer, `flush` |
| `OpenFile`, `FillFile`, `Rename`, `WriteFails` | `writeMetrics` and the turn of `drainWrites` that follows |
| `Settle` | the `.finally` of `flush` |
| `Close`, `Exit`, `Kill` | `close` by way of the server's shutdown, `process.exit`, a crash or the five-second limit |

| run | instance | properties | slip that breaks it |
|---|---|---|---|
| `metrics_writer` | 3 lives of the process, 3 events each, fair | `FileWhole` | `OpenFileSlip` |
| | | `NothingForgotten` | `FlushSlip` |
| | | `CloseDrains` | `SettleGapSlip` |
| | | `WrittenInOrder` | `LoadSlip` |
| | | `WriterEnds` | `TurnSlip` |

Three events let one be in the file, one in the snapshot being written and one
only in memory; three lives let a file written by a restarted process be read
again. Fairness: timers fire (`TimerFires`), file calls resolve or reject
(`WriterSettles`), microtasks run (`Settle`) and the exit that follows them
happens (`Exit`). Nothing is assumed of events, of `close()` or of restarts.
"Handed to the writer" and not "in the file" is what the code guarantees: a
write that fails is retried by the next flush only. Deadlock is not checked
because the last life ends.

## What is counted

`UsageAggregates` keeps the totals by hour, by day and for ever, the cached hash
sets and the last snapshot. The history variable `visits` remembers which
network was counted when, and travels with the snapshot, so that the properties
can say what the counts should be. The clock is never set back; browser and
operating-system breakdowns repeat each total and are left out; a network's
hash is the network, since hashes are compared within one day only. A day has
two hours.

| action | code |
|---|---|
| `Record` | `record`, `updateUsage`, and `prune` at the first event of an hour |
| `Save` | the serialisation at the head of `drainWrites` |
| `Restart` | constructor: `load`, `validateState`, `prune` |
| `ClockTicks` | the clock |

| run | instance | properties | slip that breaks it |
|---|---|---|---|
| `usage_aggregates` | 2 kinds of events, 2 networks, 5 hours on 3 days, retention of 2 days at its maximum, 1 hash per period, 3 events | `DaysAddUp` | `KeptHoursShortSlip` |
| | | `OldHashesDiscarded` | `PruneDueSlip` |
| | | `SnapshotsLoad` | `KeptHoursLongSlip` |
| | | `UniquesExact` | `NetworkSetSlip` |

The retention is at the maximum the validation accepts, the only setting in which
an error of one in a cutoff makes a snapshot unreadable, and it is two days, so
that a day can be old and still kept. There is one network more than the cap, so
that a set fills up. The run stops with the clock and the event bound.

## Uploads

`UploadNode` is the part of the filesystem node that receives files. Its actors
are the phone, the two control queues, one frame queue per transfer, the idle
timers, the cleanup of abandoned uploads, and the page that disposes of the node.
They share `uploads` (here `up`) and the folder (`file`), and any of them may run
between two awaits of another.

| state | code |
|---|---|
| `up[t]` | the `UploadState` of transfer t, whether it is in the map, its writable stream and its `cleanupPromise` |
| `ctl[q]` | the promise chains `queue` and `lockQueue`: the head is running and `step` says at which await |
| `frames[t]`, `done[t]` | the chain in `uploadQueues`, and how far it is |
| `file` | what each path holds: nothing, an empty new file, an old file, or what a transfer committed |
| `node` | `disposed`, how far `beginQuiescence` is, whether the channel is open |
| `phone` | what was sent, and which answers arrived |

| action | code |
|---|---|
| `ReceiveRequest`, `ReceiveFrame`, `ReceiveViolation` | `onMessage`: counting, routing, violations |
| `SkipTask`, `AwaitFrames`, `Respond`, `Fail`, `Swept` | the task around every control request |
| `BeginUpload`, `LookUp`, `CreateFile`, `CreateWritable`, `UndoCreate` | `upload_begin`, one action per await |
| `FinishUpload`, `CloseSettles` | `upload_finish` |
| `AbortRequest`, `CleanupAwaited` | `upload_abort`, and every other wait for a cleanup |
| `Remove`, `Find`, `RemoveSettles` | `delete` |
| `SkipFrame`, `AcceptFrame`, `EarlyWriteSettles`, `WriteSettles`, `FrameGivenUp` | the frame task, `acceptUploadFrame` |
| `AbortSettles`, `CleanupRemoves`, `Expire` | `abortUpload`, `expireUpload` |
| `PageDisposes`, `Quiesce`, `ChannelCloses` | `dispose`, `beginQuiescence`, the channel (external) |

Abstractions. Bytes are units and a batch is a few of them. A transfer has its
path and size from the start and is begun once, since the phone draws a new
identifier for each. The two limits on queued requests are one nondeterministic
violation. Native calls fail or succeed freely, except that a stream that was
aborted or whose write was rejected accepts no more. `writable.abort()` waits for
the write or close under way. `Polite` is the set of transfers for which the
phone keeps to the protocol: `FinishIsBarrier` and `TimerOnlyWhenIdle` are about
those, and the properties of the node are checked with a phone that does not.

| run | instance | properties | slip that breaks it |
|---|---|---|---|
| `upload_stream` | one photo of 5 units, frames of 1 or 2, batches of 3, replacing an old file that may also be removed, fair | `BytesAccounted` | `FlushedSlip` |
| | | `FinishIsBarrier` | `BehindSlip` |
| | | `TimerOnlyWhenIdle` | `QuietSlip` |
| | | `UploadsEnd` | `EndOperationSlip` |
| | | `QuiescenceReached` | `BehindForeverSlip` |
| `upload_pairs` | either a file of the lock namespace with any request and any frame at any time and another of its class begun through the other queue, one slot; or two transfers to one write lock, two slots | `SlotsRespected` | `ReservationsSlip` |
| | | `QuietMeansQuiet` | `NoCleanupSlip` |
| | | `NothingLost` | `ConflictSlip` |
| `upload_reserved` | a manifest, and the removal of the directory above it | `PathsReserved`, violated | |

Five units with batches of three pass every branch of `acceptUploadFrame`: a frame
that only fills the buffer, one that needs a flush first and then does or does
not fill it again, and the last one. Two transfers to one path are what a cleanup
can damage (`MCUploadPairs` chooses the pair in the initial state); two uploads of one class in different queues are the only way to run
two `upload_begin` at once. `Requests` bounds what the phone asks (each request
once), `MaxFrames` how many frames it sends, `MaxGap` how far from its place a
frame of a rude phone may be. Deadlock is not checked: a phone that has said
everything and a node that is quiet have nothing left to do.

Fairness, in `FairSpec`: control tasks, frame tasks, cleanups, timers and the
steps of quiescence. It stands for native calls that settle, for promises that
run, and for a channel that either drains or closes. Nothing is assumed of the
phone.

What `upload_reserved` shows. `protocol/README.md` says "Active upload paths are
reserved against competing streams and overlapping namespace mutations". Each
side looks once, before its awaits, and the two queues run side by side:
`upload_begin` of `/.watermelon/m` and `delete` of `/.watermelon` may both pass,
the upload becomes active, and `removeEntry` is issued for the directory above
it. Within one queue the reservation is tight, which is what `NothingLost` shows
for the runs above. Whether a browser refuses to remove a directory above an open
file is outside the model.

## Downloads

`DownloadNode` is the part of the filesystem node that sends files. Its actors
are the phone, the two control queues, one `streamDownload` per started download,
native reads that nobody can cancel, idle timers, the channel's buffer, and the
page that disposes of the node. They share `downloads` (here `down`), the
acknowledged window, and one budget of bytes in the channel, which responses draw
on too.

| state | code |
|---|---|
| `down[t]` | the `DownloadState` of transfer t and whether it is in the map |
| `stream[t]` | where `streamDownload` is, and what it has reserved of the send budget |
| `read[t]` | the native read: none, awaited, or left behind in `orphanedDownloadReads` |
| `ctl[q]` | the promise chains `queue` and `lockQueue`, the head with the await it is at |
| `chan` | whether the channel is open, `bufferedAmount` |
| `stage` | `disposed`, and how far `beginQuiescence` is |
| `phone` | what it asked, and the transfers it was told of |

| action | code |
|---|---|
| `ReceiveRequest`, `Acknowledge` | `onMessage`, `acceptDownloadAcknowledgement` |
| `SkipTask`, `Respond`, `Fail` | the task around every control request, `sendResponse` |
| `BeginDownload`, `FileFound` | `download_begin` before and after `getFile` |
| `StartDownload`, `FinishDownload`, `AbortRequest` | the other requests |
| `FindCapacity`, `Plan`, `ReadSettles`, `ReadCancelled`, `SendFrame` | `streamDownload`, one action per await |
| `OrphanSettles`, `Expire` | an abandoned read ends; the idle timer |
| `Drain`, `ChannelCloses` | the channel (external) |
| `PageDisposes`, `QuiesceQueues`, `QuiesceReads` | `dispose`, `beginQuiescence` |

Abstractions. A unit is 64 KiB less the headers. A transfer is begun at most
once, since the node draws a new identifier for each, and each request is made at
most once. The promise hop between a check of the capacity and the send that
follows it is left out. The short notice of a failed download takes no room.
Reads settle, fail or hang freely until fairness ends them.

| run | instance | properties | slip that breaks it |
|---|---|---|---|
| `download_flow` | two files of the data class and a lock file, 2, 2 and 1 units; windows of 3 and 1; a buffer of 3 of which data may fill 2; a phone that acknowledges what it likes | `WindowsKept` | `AvailableWindowSlip` |
| | | `SendBudgetKept` | `FitsSlip` |
| | | `ParkedForAReason` | `ReleasedSlip` |
| `download_turns` | files of 4 and 1 units through one slot, an honest phone, fair | `NativeReadsBounded` | `StartRefusedSlip` |
| | | `QuietMeansQuiet` | `QuiesceReadsSlip` |
| | | `WorkEnds` | `CompletedSlip` |
| | | `QuiescenceReached` | `WokenSlip` |

The windows of `download_flow` are one unit short of what the two data streams
want to have in flight, so one of them plans while the window is half used, and
the buffer has room for one data frame and one answer, so each of the three can
keep another waiting. In `download_turns` the second download can only begin in
the slot of the first, whose read may be left behind; four units are more than
the window, so the first cannot end without an acknowledgement or its timer.

Fairness, in `FairSpec`: promises and timers run, native reads settle, an open
channel drains. Nothing is assumed of the phone: `WorkEnds` holds because the idle
timer ends what a silent phone began.

## The link page

`LinkPage` follows the connection attempts of several tabs of one browser, with
the Web Lock and the reclaim receipts they share. A scope is one attempt of one
tab (`createLink` draws a random scope for each). `tab[p]` holds the variables of
`main.ts`; each of its fields names the attempt it belongs to, so that what an old
attempt leaves or touches can be told from what the current one has. `link[s]` is
what outlives the variables: the step of `createLink`, the socket and the channel
with their listeners, the authentication in progress, `closeAfter`. `node[s]` is
the filesystem node, `lock` the holder of the Web Lock, `storage` the receipts.

| action | code |
|---|---|
| `CreateLink` | `createLink` up to the request for the lock |
| `LockAnswers`, `LockGranted`, `LockRefused` | `BrowserNodeLease.acquire`, and the check after it |
| `Prepared` | configuration, human verification, ticket and cipher; the socket is opened |
| `PeerJoined`, `Trouble`, `SocketCloses` | `handleServerMessage`, `beginPeerConnection`, the socket's listeners |
| `ChannelOpens`, `ChannelBreaks`, `ChannelCloses` | the channel (its breaking is external), its listeners |
| `AuthReady`, `Challenged`, `AuthResponse`, `Confirmed` | `installDataChannelAuthentication`, one action per await |
| `AuthTimeout`, `PairingExpires` | the two timers |
| `CancelConnection` | `cancelConnection` and `pagehide` |
| `NodeCloses`, `NodeQuiesces` | the node disposes of itself; `waitForQuiescence` resolves |
| `ReadReceipts`, `WriteReceipts` | `closeAfter`: reading the list, writing it, releasing the lock |
| `Crash` | a tab is closed or crashes (external) |

Abstractions. The folder is there and stays (its choice and the check of the
browser are not modelled). The awaits between the lock and the socket have the
same guard and share nothing with other attempts, so they are one step that may
fail. Every failure of the network, the server, the phone or WebRTC is `Trouble`.
The lock is released when its callback resolves, in one step. The page's own
closing of the socket has no later event, since the listener compares the socket
with the current one. Reading and writing the list are two steps although the
script runs them in one: other tabs run in other processes, and only the lock
keeps them apart.

`NodePromise` states what a phone and the next tab rely on: one owner of the
browser at a time, no node at work without it, a receipt only for a node that came
to rest, no receipt lost except to newer ones, the list told to a phone still true
when its node starts to serve. The mapping takes `owner` from the lock, `serving`
and `rested` from the nodes, `receipts` from storage, `told` from `reclaimScopes`.

| run | instance | properties | slip that breaks it |
|---|---|---|---|
| `link_page` | two tabs, one of which links twice; a list of 2 receipts | `NothingLeftBehind` | `ConfirmedSlip` |
| | | `KeepsPromise` (refinement of `NodePromise`) | `ReadReceiptsSlip` |
| | | `StaleAttemptsAreInert` | `PreparedSlip` |
| | | `CanLinkAgain` | `ReleasedSlip` |

Three attempts fill and overflow a list of two receipts; two attempts in one tab
let listeners, awaits and the cleanup of the first meet the second; the other tab
contends for the lock. No page has to do anything more once its attempts are used
up, hence no deadlock check. `FairSpec` assumes that promises and timers run, that
the lock manager answers, that a write to storage ends, and that a disposed node
comes to rest, which is `QuiescenceReached` of `UploadNode` and `DownloadNode`. An
attempt that was cancelled while it waited for the lock may get it a moment later
and give it back; a retry in that moment is told that another tab holds the
browser. The code does that too, and nothing promises otherwise.

## Proofs

The theorems hold for every population of connections, every limit, every
number of events and restarts that the named assumptions of the modules allow;
the assumptions are the ranges `server/src/config.ts` enforces and the
finiteness of the population.

`RoomRegistryProofs`

- `TypeCorrect`, `Accounting`, `Occupancy`, `Pairing` prove the invariants
  `TypeOK`, `AccountingExact`, `RoomsExistWithPeers` and `PairedMeansFull`;
  `Seating` joins the last two as `RoomsOccupied`; `StaleEvents` proves the action property `StaleEventsAreInert`.
- None of them is inductive alone. A handler is a composition of private
  methods, and between two methods the registry is in a state no handler starts
  from: a room without peers, a reservation released before its room. So the
  proof has two layers. `Core` is what every method preserves on its own: types,
  identity of rooms and sessions, counters equal to the sets they count.
  `Settled(R)` adds, for the rooms in R, what holds between handlers: the room is
  occupied, and full exactly when it is paired. `Unused(C)` says that a
  connection that never attached has left no trace. `Sound` is the three
  together, and there is one lemma per method (what it needs, what it leaves)
  and one per action.
- The counters are functions from networks to numbers that are decremented by
  `Minus`, which stops at zero; that they are exact rests on the lemmas on
  cardinalities of removed subsets at the head of the module.

`MetricsWriterProofs`

- `FileIsWhole`, `EventsAreKept`, `CloseIsComplete` and `FileMovesForward` prove
  `FileWhole`, `NothingForgotten`, `CloseDrains` and `WrittenInOrder`.
- The invariant is `TypeOK`, `FilesKept` (the temporary file is the snapshot
  exactly when the loop is about to rename it, and a settled loop that did not
  fail left its snapshot in the file) and `EventsKept` (an event not in the
  snapshot has the timer or a loop that turns again; after `close()` the loop
  alone). `FileBehind` (the file never exceeds what is being written, unless the
  process could not read it) gives the order of writes.
`RoomRegistryProofs` goes on to what the registry promises beyond its books:
`PairedSpent`, `ReservedSlice`, `SpentBounded`, `SecondPeer` (four invariants the
`rooms` runs check) and `Promised`, the refinement of `PairingSession`.

- The invariant is `PromiseInv`: `Sound`, and `Promises(reg, now)`: an open paired room has
  spent its ticket or the ticket has expired; every room beyond the first of its
  network was admitted under the boundary; spent sessions and sessions of rooms
  together stay under their bound. `closeRoom` spends without looking at the
  limit, so the number of spent sessions alone is not inductive: closing turns an
  open room into a spent session, and the union of both does not grow.
- For the refinement every handler either leaves the phase of every session alone
  or moves sessions in one way `PairingSession` allows. Tickets that have expired
  before the first step start out spent, which the proof asked for: the abstract
  specification first said that every session starts idle.

`SumProofs` holds what the accounts below need about `Sums!Total`: that the
recursive function behind it exists and is unique on finite sets, that the order
of its elements is of no account, and what a change at one element does to it.
These are inductions over finite sets, made with least subsets, since the
induction rules of the library take an operator.

`UsageAggregatesProofs`

- `Snapshots`, `Uniques`, `DaysAndHours`, `OldHashes` prove `SnapshotsLoad`,
  `UniquesExact`, `DaysAddUp` and `OldHashesDiscarded`; `Typing` proves `TypeOK`.
- `Good(u, v, p)` says that the counts u, last pruned at p, count the visits v. It
  is about any counts, those in memory and those in the file: a file is good
  for some earlier p, and `PrunedGood` carries it to the hour of the restart. Its
  heart is `Right`: a period that is kept but was never counted saw nobody
  (so it may start from nothing), only the current period has hashes, and then
  one for each network it counted. `Cached` ties the sets to the hashes, and says
  that a cached set is not empty, without which `prune`, which looks at the
  hashes, would never forget it.
- Days add up because no hour of a kept day is ever dropped, which is arithmetic
  on the two cutoffs (`Cutoffs`); snapshots load because at most
  `RetentionDays * HoursPerDay` hours are kept (`GoodValid`).

`FrontDoorProofs`

- `SharedAllowance` and `NewKeys` prove `SharedAllowanceKept` and
  `NewKeysAdmitted`; `Slots` and `Typing` are about the verifier's slots and types.
- Tables are tidy: one entry a key, no more than their limit, in the order of
  their ends. So the first entry is over if any is, and looking at the front of
  the Map is enough.
- Within one raw global window a network passes at most `2 * Limit - 1` times
  through each of its two budgets (`Share`): all of one of its windows but the request that
  opened it, which came before the raw window did, and all of the next. Twice that
  is `4 * Limit - 2`, one less than the least raw limit `loadConfig` accepts: the
  margin in the code is exactly the one the proof needs.

`LinkPageProofs`

- `NothingLeft` proves `NothingLeftBehind`, `StaleInert` the action property
  `StaleAttemptsAreInert`, `KeepsThePromise` the refinement of `NodePromise`.
- The invariant joins each field of `tab` to the step of the attempt it names,
  and lock, node, channel, socket and storage to the step of theirs. An attempt
  that is over has its cleanup or nothing; only the owner of the lock is inside
  the critical section of the receipts, and what it read is still what is stored.
- For the refinement almost all steps stutter. Receipt lists are typed only as
  lists over some set, since `SelectSeq` takes an operator and its result cannot
  be typed by these provers; the order and number of receipts kept at a write is
  therefore the same expression on both sides, not a computed one, and `TypeOK` of
  this module is model-checked only.

`DownloadNodeProofs`

- `Window`, `SendBudget`, `Parked`, `NativeReads`, `Quiescence` prove
  `WindowsKept`, `SendBudgetKept`, `ParkedForAReason`, `NativeReadsBounded` and
  `QuietMeansQuiet`; `Typing` proves `TypeOK`.
- The invariant has eight parts: how far each stream is against its download
  (`Flow`), which tasks and waits exist for it (`Book`), the sums against the
  windows and the budgets, the slots with native reads, a reason for each parked
  stream, and what each stage of the disposal has behind it (`Staged`).
- Most actions do one of a few things to the shared accounts: they only give back
  (`Lightens`, `Eases`), they wake every stream that waits (`Woke`), or they leave
  waiters and accounts alone (`Calm`). The parts of the invariant are proved once
  for each of these effects, and each action is shown to have one. A send and a plan
  are the two that take, and need the sums.
- `NativeReads` counts reads, not entries of the map: an abandoned read outlives
  its download. What is inductive is that the started downloads and the abandoned
  reads of a class together fit its slots: a download starts only while nothing is
  abandoned, and an abort turns the one into the other.

`UploadNodeProofs`

- `Limits`, `Bytes` and `Quiescence` prove `SlotsRespected`, `BytesAccounted` and
  `QuietMeansQuiet`, and `Typing` proves `TypeOK`, from `Inv`; `Barrier` and `Timers`
  prove `FinishIsBarrier` and `TimerOnlyWhenIdle`, from `Inv` and `Mannered`.
- `Inv` says for each upload how its bytes, its counters, its stream and its cleanup
  fit together (`Sound`), that only the heads of queues are under way (`Lines`,
  `FrameLines`), and what each stage of the disposal has behind it (`Staged`).
- `Slots` counts the active uploads of a class and the heads of its queues that have
  checked the limit but hold no upload yet. Together they fit the limit:
  `CreateWritable` turns the one into the other. The queues of two paths may both
  be between check and insertion, which is why the uploads alone are not inductive.
- `Mannered` is about phones that keep to the protocol: each request is queued
  once (`Once`, `Distinct`), the counters of an upload cover what is queued
  behind it (`CountedFrames`, `CountedEnds`), on a live node the queued frames
  continue what was received up to what was sent (`Chain`), and the barrier that
  `finish` took is the frames done and those queued. TLC checked it on both
  instances before it was proved. Nothing is assumed of the transfers that
  do not keep to the protocol: they may do anything the code lets them do.
- Most actions leave almost all of this alone (`Calm`, `Mild`), which is proved once;
  the others are taken part by part.

## What is only model-checked

Liveness (`RoomsEnd`, `WriterEnds`, `UploadsEnd`, `WorkEnds`, `QuiescenceReached`,
`CanLinkAgain`, `VerifierRecovers`) needs fairness,
which is out of the prover's reach; so is the part `RoomsEnd` of
`PairingSession`; the refinement is proved for its `Safe`. Of `UploadNode` only the action property `NothingLost` has no theorem. It holds for
every value of the constants only where all transfers to a path keep to the
protocol: the instances say so, and the plan below says what a proof needs.
The type invariants of the modules that have theorems are proved, but for
`LinkPage` (see there); none belongs to a run. `PathsReserved` is refuted.

## What is not modelled

- Cryptography, encodings, parsing of headers, addresses, candidates and user
  agents: functions without state, represented by model values.
- Message sizes and counts on the signalling sockets: a nondeterministic close.
- Texts, styles, rendering, the development server and the scripts.
- The phone: a free environment that may send any message at any time.
- Of the namespace operations, everything but the removal of a path: `list`,
  `metadata`, `create_directory` and the copying of trees read and write the
  folder one entry after the other and share nothing with the rest of the node
  but the queue they run in and the reservation check, which `Remove` has.
- On the link page, choosing the folder, the check of the browser, rendering, and
  the queueing of ICE candidates. `chooseFolder` may replace the folder at any
  time; an attempt takes it once and compares it once (`main.ts:692`).
- Static files, health and configuration routes: they keep no state.
- `web/src/crypto.ts`, `local-network.ts`, `browser-preflight.ts`,
  `upload-chunk-policy.ts`, `network-security.ts`, `client-platform.ts`: parsing,
  encoding and arithmetic on one argument, without a second actor.

## The plan

Modelled and checked: every component whose order of events or shared state
matters. Proved: every invariant of a passing run. What is left is the action property
`NothingLost` of `UploadNode`, for a set `Polite` that holds every transfer.

A transfer that sends `finish` before its `begin` has been answered is not counted
there; if a later frame of it is bad, it commits while its cleanup is still to
remove the file, and a polite transfer may create its file on that path in between.
TLC finds that behaviour on the instance of `upload_pairs` once `c` is taken out of
`Polite`. So the theorem needs the assumption, and an invariant with these parts:

1. a fresh path that `begin` is about to create has no file, or an empty one;
2. a path that is being reserved has no upload under way, and no two uploads share
   a path;
3. the begins and ends of one transfer stand in the queue of its path;
4. an upload whose cleanup may remove the file has not finished it, and did not
   find it there;
5. a polite transfer that is closing has no cleanup on a live node.
