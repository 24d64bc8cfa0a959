# Formal models of DonkeyWork Desktop

TLA+ models of the parts of DonkeyWork Desktop that decide who controls a desktop,
what becomes of a key that is down, what a terminal's reader is told, and which
device the manager believes it is talking to. TLC checks each model on a small
instance; TLAPS proves the main safety properties for every value of the
constants. The code is the reference throughout; where a document of the
repository says something else, a run shows it (see *Findings*).

The repository's own README says that the rollout was retired. That changes
nothing here: the models are of the code as it stands.

    tlc -config DeviceCore.cfg MCDeviceCore.tla     # a run (table below)
    tlapm DeviceCoreProofs.tla                      # the proofs of a component

## 1. Inventory

Rust (device, console daemons, cli), Go (console web server, manager, agent),
Python (deployment and managed desktops), TypeScript (browser).

| Part | State | Operations | Talks to | What makes it hard, and correct |
|---|---|---|---|---|
| **Device worker core** `device/core/src/{core,server}.rs` | connections and their cancel flags, policies, sessions with retention, the control lease, `faulted`, remembered results | accept, cancel, disconnect, `revoke_uid`, `maintain`, `session.open/close`, `control.acquire/renew/release`, `input.*`, `display.resize` | clients over a Unix socket, the X11 backend by calls | one mutex, but time and cancellation go on under it; a release may fail. No input without a lease, no lease without a session, no session that leaks |
| Wire and backend interface `device/core/src/{wire,backend,main}.rs` | none of its own | framing, schemas | the core | parsing |
| **X11 capture and input** `device/capture/src/`, and `x11_adapter.rs` | held keys and buttons, the topology last seen and its revision, the step of an operation and its deadline | screenshot, inject, `release_all`, resize | the X server, which other clients change too | requests cut short, or executed when nobody waits any more; a mode change that fails half-way; pictures and input of a layout that is gone |
| **Terminal backend** `device/terminal/src/lib.rs` | replay history, attachment and retention, exit, the shell and its pty | create, write, resize, read, detach, resume, close; a monitor thread | bash and its jobs | a bounded history evicts under waiting readers; the exit must not overtake output. Not yet called by the core |
| **Console input daemon** `device/console/src/bin/input-daemon.rs`, `input_device.rs` | the shared virtual device and its owner, a `Control` per thread, `STOP` | claim, event, renew, release, expiry, guard loss, shutdown | the web server over a socket, uinput, a guard file | a private lease against a shared owner; partial writes; late cleanup |
| **Console capture daemon** `daemon.rs`, `lib.rs` | one connection served at a time, its encoder process, two threads with a stop flag | accept, declare, start the encoder, stream records, stop | the web server, DRM or X11, ffmpeg | a client that does not read, an encoder that ends, a thread that waits for the other: the next connection must get its turn |
| **Socket broker** and console tools `socket-broker.rs`, `cli.rs`, `input-cli.rs`, `web-launch.rs` | up to 8 peers, a worker for each | open a capture connection and hand it over as a descriptor; command line tools | the daemons, the web server | an answer that comes when the client has stopped waiting, descriptors in flight |
| **Console web input bridge** `console-web/input.go` | queue of 32 commands, owner, generation, sequence, pause and its epoch | submit, handle, release, pause, resume, run | browsers over data channels, the daemon over one socket that is opened once | delayed replies, recovery in between, a full queue |
| **Console web server and capture recovery** `console-web/main.go`, `recovery.go`, `stream.go` | the capture connection, `recovering` and its generation, viewers with a channel each, failure | offer, broadcast, read, begin and end of recovery, stop | the capture daemon through the broker, viewers over WebRTC, the input bridge | a stop racing a new connection; samples of a lost capture; input that resumes on the right key frame |
| **Browser client** `console-ui/src/consoleInput.ts` (and `consoleRecovery.ts`) | state, generation, sequence, event in flight | acquire, event, release, receive, fail | the bridge | replies to a request it has given up |
| **Manager enrollment** `manager/enrollment.go`, `cmd/device/main.go` (enroll) | the `devices` table; `device.key`, `.crt`, `.json` on the host | create, regenerate, revoke, delete, claim; enroll | PostgreSQL, HTTP | concurrent claims, uncertain commits, lost answers, crashes between files |
| **Device hub and sessions** `manager/device.go`, `session.go`, `bridgewire/wire.go`, `cmd/device/main.go` (connect) | registered connection, heartbeat, pending requests; the agent's workers | connect, read, heartbeat, replace, disconnect, request, reply, time out | agents over WebSockets, HTTP handlers | late ends of a replaced connection; revocation across database calls |
| Media relay `manager/media.go`, `cmd/device/media.go` | streams on both ends | open, relay, close | hub and agent | closing from either end, slow readers |
| Portal desktop worker `manager/desktopportal/*.go`, `cmd/session-agent` | a lease over a portal session, an encoder | share, restore, input, close | the XDG portal, a child process | like the console's lease |
| Managed desktops `deploy/managed/{broker,runtime,web}.py` | a directory of desktops and their request ids | create, list, monitor, the console's routes | systemd, the web page | a create that has failed half-way, retried; a service that ends on its own |
| Manager HTTP API `manager/http.go`, `cmd/manager` | rate limit | routes | store and hub | routing around enrollment and hub |
| Command line client `cli/src/` | none that lasts | one request | the worker | - |
| Session supervisors, packaging `deploy/vkms`, `deploy/package`, `packaging` | unit files | start, watch, stop | systemd, logind | order of units |
| Demo web and contracts `web/`, `local-web/`, `contracts/` | demonstration state | - | - | reference models in JavaScript for the contract tests |

How control reaches a desktop: on the *console* path a browser asks the bridge
of the web server, which asks one thread of the input daemon, which owns the
virtual device. On the *managed* path a client of the device worker leases
control from its core, which injects through X11. The manager reaches a host
through the connection of its enrolled agent, and the enrollment decides which
device a connection is.

The hazards of the code, each at its line, are in `PROJECT.json`, with the properties
that would catch them. One has none yet: a managed desktop whose start failed has
used up its request id (`broker.py:128`, see the plan).

## 2. Modules

| Module | Models | Checked by | Proofs |
|---|---|---|---|
| `ControlContract` | what every owner of desktop input promises | refined by the next two | |
| `DeviceCore` | device worker: core and server | `device`, `device_fault` | `DeviceCoreProofs` |
| `ConsoleInput` | console input daemon and its device | `console`, `console_expiry` | `ConsoleInputProofs` |
| `ReplayLog` | what a terminal's history promises its readers | refined by the next | |
| `Terminal` | terminal backend | `terminal` | `TerminalProofs` |
| `X11Server` | the X server as the backend uses it, and its other clients (external) | with the next | |
| `X11Backend` | X11 backend: pictures, input, releases, mode change; with the core's part of each | `x11`, `x11_forgets` | `X11BackendProofs` |
| `InputBridge` | browsers, input bridge, one daemon thread, and the channels between them | `bridge`, `bridge_ready` | `InputBridgeProofs` |
| `CaptureSource` | capture daemon, worker of the socket broker, their sockets | with the next | |
| `CaptureRecovery` | web server: reader, recovery, viewers, stop; composed with `CaptureSource` | `capture` | `CaptureRecoveryProofs` |
| `DeviceHub` | hub, handlers, requests, revocation, agent | `hub` | `DeviceHubProofs` |
| `Enrollment` | operator, claim transaction, enroll on the hosts | `enrollment` | `EnrollmentProofs` |

`MC*` modules only give TLC what a `.cfg` cannot write (functions as constants,
symmetry). An operator named as a mutation in its comment is a plausible bug,
kept beside the definition it would replace: with it, the property named in
`PROJECT.json` fails in the run named there. It is no part of the specification.

Conventions. A deadline is a countdown of ticks, 0 once passed; `Tick` may
happen between any two steps, so every order of deadline and action is explored.
Where only the race with a deadline matters and not its length (`X11Backend`,
`InputBridge`, `CaptureSource`, `CaptureRecovery`, `DeviceHub`, `Enrollment`) whatever has a deadline may pass it at any moment.
Contents that no property tells apart (pixels, text, coordinates, JSON) are left
out; a malformed record is the refusal it causes.

### ControlContract

Three variables: `owner`, `dirty` (something is down), `locked` (shut for good).
Control is granted only when free and clean; only an owner makes the desktop
dirty; losing control cleans it or locks. `DeviceCore` implements it with
`owner = lease.conn`, `dirty = held`, `locked = faulted`; `ConsoleInput` with
`owner`, `dirty = (down # {})` and never locked, because there an owner whose
keys cannot be let go stays the owner until the process ends.

### DeviceCore

| State | Code |
|---|---|
| `conn` | the server's connections and the cancel flag of each |
| `policies`, `sessions`, `lease`, `faulted`, `cache` | fields of `Core` |
| `held`, `lastRelease` | the backend's held input and how its last `release_all` went |
| `work` | who holds the mutex, and whether the backend is at work for it |

One action per request (`OpenSession`, `Acquire`, `BeginInput`/`FinishInput`,
...), each with the whole of `process`: maintenance first, the replay of
remembered results, the dispatch, the memory of the result. An injection or a
resize is two steps, since the backend works under the mutex while connections
are cancelled and time passes. `Maintain` is the server's timer, `Disconnect`
the end of a handler, `Cancel` the peer's hang-up, `RevokeUid` the operator's.

Safety: `LeaseIsBacked`, `InjectionIsCovered`, `OpenReplayNamesSession`, and the
contract (`ControlIsKept`); `HeldInputIsOwned` and `RetentionMatchesUse`, which they
need, are proved. Liveness: `ExpiredLeaseEnds`, `AbandonedSessionEnds`.

### ConsoleInput

`phase[p]` is the place of a thread in `serve`, `ttl` and `cap` its `Control`
(deadline and end), `owner`/`keys` the `SharedDevice`, `down` what the kernel
believes, `probe` whether there is no guard file. A thread can be overtaken
between any two steps, because the mutex is never held across socket I/O. A
write may fail with or without effect, a reset may fail for some keys, the
guard may be lost whenever it is read.

Safety: `ControlMatchesOwner`, `NothingLeftDown`, `LeaseWithinCap`,
`OnlyOwnerTouches`; the contract `ControlIsKept` is proved. Liveness:
`LapsedOwnerLoses`, `StopEnds`.

### ReplayLog

Outputs are made, dropped from the front and given to readers. Each reader gets every
output it does not know of yet, or is told that it is gone; while somebody is there,
only what some reader knows of is dropped; nothing follows the end. The log knows of
each reader which outputs it has, `Terminal` only one sequence: it implements the log with
`last = latest`, `dropped = earliest - 1`, `ended = (exit # NoExit)`, `watched = attached`
and its history variables.

### Terminal

Outputs are sequence numbers. `given[v]` and `missed[v]` are history variables: what
caller `v` was given, and what it was told it has missed. The monitor's loop is `Look`, then one of
`Terminate`, `Reap`, `WaitFails`, `Rest`; `Drain` reads the pty inside of them as
the code does. A caller waiting in `read` has released the mutex, so others act
before `Wake`. The shell writes and dies on its own (external).

Safety: the replay log (`ReplayIsKept`) and `ExitIsFinal`; `NothingSilentlyLost`,
`AttachedKeepsUp`, `RetentionMatchesAttachment` and `MonitorLeavesNothing` are proved.
Liveness: `DetachedEnds`, `CloseReturns`.

### X11Server and X11Backend

`pc` is the step of the one operation under way; `known`, `knownStamp` and `revision`
are the backend's topology, `look` the refresh under way, `snap` the snapshot a client
holds, `held` the backend's sets of keys and buttons, `todo` the events still to
inject, `saved`, `mutated`, `bound` and `target` the mode change. A refresh takes three
steps (`Drain`, `ListResources`, and the step of the operation it belongs to), and
between any two the server executes requests, another client changes the mode or turns
the output off, the hardware changes, or the authorization of the operation ends.

A request is written to `wire`, executed by the server later, and its answer awaited.
Every one may stay unwritten (`EventUnsent`, `ApplyUnsent`, ...), be refused, or be
given up while it is still on its way (`TimesOut`): then the server executes it all
the same, during the release or the undo that follows. `Abort` says where an error
leads in each step. `Guard` is the check before each guarded request; the request is a
later step, as in the code.

The server is external. It keeps the protocol's rules that decide whether a mode
change works: a CRTC must lie within the root window, which therefore grows before
the mode is set and shrinks afterwards, in both directions; a mode is set against the
current configuration timestamp.

Safety: `HeldCoversDown`, `NothingDownInTransaction`, `OneLateRequest`,
`SnapshotShowsItsLayout`, `InputMatchesPicture`, `ReportIsTrue`, `UndoWorks`.

### InputBridge

Composes four ordered channels: browser to bridge (its bounded `queue`), bridge to browser
(`down`), bridge to daemon (`req`) and back (`rep`). `run` is the place of the
goroutine in its loop, `cur` and `then` what it is doing. The daemon is one
thread of `ConsoleInput`, reduced to whether it has control, of which generation
and at which sequence. `under` is a history variable (the pause epoch of the
owner's acquire), and so is `overdue` (the owner was gone already when the loop last
left its `select`). `Pause`, `NextEpoch` and `Resume` stand for the capture recovery;
the flag and the epoch of `pause` are stored one after the other.

Safety: `SocketInStep`, `ControlAgrees`, `PauseEndsControl`, `ReleaseIsBarrier` and
`GoneOwnerLoses`. The last one counts turns of the loop: a browser may go away while the
loop waits, and the loop then still takes one command, notice or tick, but not two before
the daemon has let go of that browser's control. `PauseEndsControl` is about the control
that was there before a recovery; that none is given while it lasts is the guard
`Suspended` and is not a property.

### CaptureSource and CaptureRecovery

`sock[c]` is a capture connection: who holds each end (the client's may be in the hands
of the broker, in flight, at the web server, or closed), the header and the pictures
its client has not read. `at` is the place of the daemon's main thread and `pump` that
of the loop from encoder to stream, which is a thread of its own for DRM and the main
thread itself for X11. `asks` and `answers` are the two directions of the broker's
socket. Pictures carry the connection they came from, a number, and whether they
are a key frame. The daemon may die at any time and be started again.

In `CaptureRecovery`, `reader` is the place of `readRecoverable`; an answer of the
broker may come after the reader has stopped waiting, and then it is taken for that of
the next request, as in the code. `paused` is the one bit of `InputBridge` that the
recovery decides, `recovering` and `generation` are fields of `bridge`. A viewer has
its channel, what its goroutine has taken out of it, and `shown`, what was last written
to its track (history). `StopRecovery` and `Fail` are the two halves of `fail`.

Safety: `PictureContinues`, `LostPictureNotShown`, `InputNeedsPicture`,
`FailureClosesAll`. Liveness: `UnreadIsLeft`.

### DeviceHub

A handler goes `upgraded`, `reading` (registered or replaced), `beating` (the
database call of a heartbeat, without the mutex), `ending`. `live` is the hub's
entry, `pending` its table of requests, `mail` the reply channels, `sock` the
connections the manager has not closed. The agent serves one connection at a
time with `Slots` workers and dials again. `Revoke` and `Disconnect` are the two
halves of a revocation: the row first, then the hub.

Safety: `HubMatchesHandlers`, `RevokedIsOff`, `PendingIsInUse`,
`ReplacementStays`. Liveness: `InterruptedEnds`. `RevokedIsOff` is about the manager's
side: after the revocation is reported, nothing more is accepted, written or answered. A
request that was written before may still be taken by the agent, whose read of the closed
connection comes later (`down` and `busy` are not part of the property); its reply goes
nowhere.

### Enrollment

`row` and `lock` are the table and the row locks of PostgreSQL; `handler` is the
transaction of one claim (`Select` with FOR UPDATE, `Update`, `Commit` or
`RollBack`). A commit may succeed without the manager knowing or without the
answer arriving. `key`, `crt`, `json` are the three files; each may be left
broken by a stop in the middle of writing it, and `writeNew` never overwrites.

Safety only: `OnlyCurrentCode`, `EnrolledIsRegistered`. There is no liveness to
state: nothing retries by itself.

## 3. Runs

Two workers, under four minutes each.

| Run | Bounds | Distinct states | Question |
|---|---|---|---|
| `device` | 3 connections, 2 accounts, 1 session, 1 message, 1 open session and 1 remembered result per account, lease 1 tick, retention 2 | 166 k | Does any end of a connection, lease, session or account leave input, a lease or a session behind? |
| `device_fault` | 2 connections, 1 account | - | Does every failed release fault control? (it does not) |
| `console` | 2 peers, 2 codes, lease 2 ticks, cap 3 | 39 k | Do failing writes, a failing guard and late cleanup break the single owner or forget a key? |
| `console_expiry` | 2 peers, 1 code | - | Does every expiry leave the connection idle? (it does not) |
| `terminal` | 2 callers, 2 outputs, a history of 1, retention 2, 2 unread chunks | 576 k | Is the history a replay log to each caller, is an exit final, does a terminal always end? |
| `x11` | 2 modes, neither of which fits in the other, 2 keys, 1 button, 2 requests on the wire, 2 changes by others, 2 operations after the first snapshot | 6.3 M | Does the backend remember all it pressed, keep pictures and input to one layout, and report and undo a mode change truly? |
| `x11_forgets` | the same | - | Does a change that was notified always invalidate the snapshots before it? (it does not) |
| `bridge` | 2 browsers, queue 2, 2 acquires, 1 event each, 1 recovery; symmetry | 3.7 M | Do bridge and daemon stay in step, and does a browser that is gone lose control? |
| `bridge_ready` | 1 browser, queue 3, 3 acquires | - | Is a delayed ready discarded? (it is not) |
| `capture` | 2 connections, 3 pictures each, sockets and channels of 1, 2 unanswered requests, 1 viewer | 874 k | Is every viewer shown whole pictures of the capture being read, does input wait for them, does the daemon leave a connection nobody reads? |
| `hub` | 2 connections, 2 requests, 1 slot | 427 k | Is one connection served at a time, is a revoked device off, and do interrupted requests end? |
| `enrollment` | 2 devices, 2 codes, 2 hosts, 3 runs of enroll; symmetry | 169 k | Is a device ever enrolled twice, with a dead code, or unknown to the manager? |

Why these bounds are enough to be interesting. Every hazard listed needs at most
two competing actors and, for the device worker, a bystander: two connections of
one account share a session while a third, of an account without the resize
permission, competes for control. Limits are set to 1 or 2 so that they are
reached at once (sessions and remembered results per account, the history, the
queue, the slots, the worker). Two codes are needed for a release that lets go of
one key and not of the other; a cap longer than the lease for a renewal that must
be cut short; three runs of enroll for a host that tries again while another one
claims. Two outputs are enough for the terminal to drop one that was given, or not given,
to a caller who waits, lags or comes back, and to use up its last sequence number.
The two modes of `x11` are <<1, 2>> and <<2, 1>>: the root window has to be larger
than both in between, and its millimetres show which mode they were computed for. Two
operations allow a release or a screenshot after a failed injection, and a mode change
after a half-answered one; two changes by others, "away and back". In `capture`
the second connection is the recovery; three pictures are a key frame, its successor,
and one that would be missed. The same safety properties were checked once with a
second recovery (three connections, two pictures each: 2.95 M states).
Single-use connections, requests, codes and runs bound the histories, and a run
that can use them up does not ask for deadlock freedom; the device worker, the
console daemon and the terminal have it checked.

For the theorems of section 5 the bounds do not matter: they hold for every value of
the constants.

### Fairness

* `DeviceCore`: the clock runs; the timer of `server.rs` and the cleanup of a
  cancelled connection get the mutex in the end; whoever holds it replies
  (backend calls have deadlines). Nothing is assumed of clients.
* `ConsoleInput`: threads are scheduled, and every read, write and poll of
  `serve` is bounded, so a thread goes on by itself (`Proceed`); `main` drains
  and exits. Nothing is assumed of peers or the clock: the liveness properties
  start where the deadline has passed.
* `Terminal`: the monitor gets the mutex (no call keeps it beyond 100 ms), the
  wait in `read` is bounded, join returns, the clock runs.
* `CaptureRecovery`: the daemon's two threads run. Each of their waits is bounded: a
  write by its timeout of two seconds, `output.read` because an encoder works at a frame
  rate or ends (assumed of ffmpeg), the capture loop once the writer has ended, because
  it looks at `stopped` and writes to an encoder nobody reads. Nothing is assumed of the
  broker, the web server or the viewers.
* `DeviceHub`: a handler goes on: a read of a closed connection returns, the database
  answers, deferred calls run. `request` looks at `done`. Nothing is assumed of
  the agent, of HTTP clients or of their timeouts.

`X11Backend`, `InputBridge` and `Enrollment` state safety only and assume no fairness.

## 4. Findings

Each is a run that TLC refutes, against a sentence of the repository.

1. `device_fault`: `device/core/README.md` says that a failed release faults
   control closed. `input.reset` and `display.resize` call the backend's
   `release_all` directly; when it fails the client is told and control goes on.
2. `console_expiry`: `contracts/console-input-web.md` says that expiry emits
   `unavailable` and returns to idle. A lease that ends between the acceptance of
   an event and its acknowledgement closes the connection, and the bridge opens
   it only once.
3. `bridge_ready`: the same document says that a delayed acquire response is
   discarded after abandonment. The browser takes any `ready` while it is
   acquiring; a second `unavailable` can make it the answer to a later acquire.
4. `x11_forgets`: a comment of `device/capture/src/x11.rs` says that notifications are
   drained so that a change away and back invalidates observations too. They are drained
   into a local variable; when a later query of the same refresh fails, it is lost, and
   the next refresh finds the display as it was. Input aimed at a snapshot from before
   the change is then accepted. (That the picture and the geometry still agree is
   `InputMatchesPicture`, which holds.)

Not a run, and worth knowing: a host whose enroll stopped after `device.crt` and
before `device.json` uses up every fresh code it is given, because the claim is
committed before `writeNew` refuses the existing certificate. `EnrolledIsRegistered`
says that this never produces a wrongly configured host, only an unconfigured one.

Not a run either: `contracts/manager-session-bridge.md:8` gives one limit of eight
requests per device. The hub gives a place back when its client has stopped waiting;
the agent's worker is free only when it has written its reply (`main.go:289-305`). A
request within the hub's limit may so find no worker, and `connect` returns "broker
capacity exceeded", which ends the connection and dials again.

And: an answer of the socket broker that comes after the two seconds of
`brokerCapture` leaves every later answer one request behind (`recovery.go:20-23`
does not tell them apart). `LostPictureNotShown` and `InputNeedsPicture` hold all the
same; what it costs is time, since a stale connection is refused or ends.

## 5. Proofs

All for arbitrary constants, under the named `ASSUME` of each module (limits are
naturals, `None` is nobody). TLC evaluates the assumptions in every run.

| Module | Theorems | Argument |
|---|---|---|
| `DeviceCoreProofs` | `TypeCorrect`, `HeldInputAlwaysOwned`, `LeaseAlwaysBacked`, `RetentionAlwaysMatchesUse`, `InjectionAlwaysCovered`, `OpenReplayAlwaysNames`, `ControlAlwaysKept` | `SafetyInv`: the four facts and `ServedIsPresent` are inductive together and not one by one. Expiry needs `RetentionMatchesUse` to leave a leased session alone; the paths that release need `LeaseIsBacked`; an injection that finishes needs `InjectionIsCovered`. `OpenReplayInv` adds that a session on retention is forgotten no earlier than the result that names it. Refinement: each step maps to a step or a stutter of the contract |
| `ConsoleInputProofs` | `ConsoleTypeCorrect`, `ControlAlwaysMatchesOwner`, `NothingEverLeftDown`, `LeaseAlwaysWithinCap`, `OnlyOwnerEverTouches`, `ConsoleControlAlwaysKept` | `SafetyInv` is `ControlMatchesOwner` and `NothingLeftDown`, which need each other: a reset happens only by an owner, and an owner leaves only with nothing remembered. The cap needs only that both countdowns run together |
| `TerminalProofs` | `TerminalTypeCorrect`, `ReplayAlwaysKept`, `NothingEverSilentlyLost`, `AttachedAlwaysKeepsUp`, `RetentionAlwaysMatches`, `ExitAlwaysFinal`, `MonitorAlwaysLeavesNothing` | `Inv` adds `Ordered` (how `earliest`, `delivered` and `reached` lie below `latest`) and `Closing` (an exit is announced exactly when the child is reaped; until then the tty is open, and what the shell wrote is in the history or pending) and `HandedOut` (what counts as delivered reached some caller). Refinement: what a batch takes from the sequence of its caller on is what the caller does not know of (`NothingSilentlyLost`), and what is dropped under an attached caller was handed out (`AttachedKeepsUp` with `HandedOut`) |
| `X11BackendProofs` | `Invariance`, `TypeCorrect`, `HeldCovers`, `ChangesFindNothingDown`, `OneLate`, `SnapshotsShowTheirLayout`, `InputsMatchTheirPicture`, `ReportsAreTrue`, `UndoAlwaysWorks` | `IInv` adds to the types and `HeldCoversDown`: `Awaiting` and `Cleared` (whose answer is awaited in which step, and that the guard was asked for it), `Planned`, `LastAwaited` (the awaited request is the last on the wire, so an answered release has taken effect after every press before it), `Emptied` and `Separate` (nothing is held while a change of the display is on its way, and nothing is on its way when an event is written), `Late`, `Snapped` (a snapshot's revision had one mode) and `Pictured` (a picture of another mode has a notification on its heels, which the refresh after it must find). `ChangeInv` is about the mode change: `Within` (the CRTC lies in the root window), `Alone` (only the awaited request is on its way), `Asked` and `Measured` (what is asked for in each step, and its millimetres), `Untouched` (until a change is made, the display is what was saved), `Restorable` (the saved mode lies in the saved root window, or a notification is on its heels which the second look finds), `Undone` (how far the undo has come if nothing went wrong) and `Concluded` (a change has an outcome when it is over, and a good one with nothing on its way). For any modes, inputs and queue |
| `InputBridgeProofs` | `BridgeTypeCorrect`, `SocketStaysInStep`, `BridgeAndDaemonAgree`, `RecoveryEndsControl`, `ReleaseBarrier`, `OwnerGoneIsReleased` | `Typed` bounds what is numbered. `SocketInv` is about the conversation with the daemon: `Dialogue` says, for each place of the loop, which request and replies may be on their way before the reply it waits for (notices of a control that has ended, and none that is left over), `InOrder` the same whatever the place, `InHand` what the loop holds meanwhile; `SocketInStep` and `ControlAgrees` are read off it at the places they speak of. `InEpoch` follows the owner's pause epoch through an acquire that a recovery overtakes. `Overdue` adds to `GoneOwnerLoses` that an owner the loop was late for is still gone at its next look, whatever was awaited in between. `Barrier` follows one release of a browser through its queue, the hands of the loop and the way back: in each of the three, nothing of that browser is behind it |
| `CaptureRecoveryProofs` | `RecoveryTypeCorrect`, `InputWaitsForPicture`, `FailureEndsViewers`, `OldPictureIsDropped`, `NoFrameIsMissed` | `ReaderInv`: what a connection holds unread are the last records written to it, numbered in order (`Recorded`); connections are adopted in the order they were made, and everything in the hands of the broker is newer (`Ordered`); `paused`, `recovering` and the generation fit the place of the reader (`Recovers`). `PeerInv` are the viewers' types and lives. On these rest `Origins` (a sample of the current generation, in a channel or in the hands of a goroutine, is of the connection that is read, and there is none during a recovery) and `Pictures` (what was shown, what was taken and what is queued follow one another, up to the last record read of the connection) |
| `DeviceHubProofs` | `HubTypeCorrect`, `HubAlwaysMatchesHandlers`, `RevokedStaysOff`, `ReplacementAlwaysStays`, `PendingAlwaysInUse` | `HubInv` adds `Fresh` (a connection that is not registered yet has neither heartbeat nor requests), `Off` (once the revocation is done, what is registered has no heartbeat and is in no database call that could give it one), `Closed` (a connection that was registered and is not any more is closed, so nothing is written to it) and `Sent`. The counts of workers and requests are by the cardinality of finite sets |
| `EnrollmentProofs` | `EnrollmentTypeCorrect`, `EnrolledAlwaysRegistered`, `OnlyCurrentCodeAlways` | `Inv`: a selected row is locked, claimable and still has the code it was found by; whoever has an answer is registered; files are written in order |

Proved and not asked again by a run: the type invariants, `HeldInputIsOwned` and
`RetentionMatchesUse` of the worker, `AttachedKeepsUp`, `RetentionMatchesAttachment`,
`MonitorLeavesNothing` and `NothingSilentlyLost` of the terminal, and the contract as
kept by the console daemon.

Only model-checked: all liveness (the prover has neither fairness nor ENABLED) and the
disagreements of section 4, which are counterexamples. Every other property of a passing
run is a theorem.

Each inductive invariant was first checked by TLC, as an invariant of the run of its
module (`Pictures` also with three connections, `ChangeInv` also with three requests of
another client), and then proved.

## 6. Assumptions and limits of the models

* `DeviceCore`: checks of snapshot and topology revisions are refusals that may
  happen; `release_all` either works or fails with any of the input left. Both are
  modelled in `X11Backend`, with the core's side of each operation.
* `Terminal`: a drain reads all that is pending; the code stops after 64 reads of 32 KiB,
  which is more than the kernel buffers for a pty.
* `X11Backend`: one output with one CRTC, so that the choice and creation of a mode, and
  displays the code refuses to resize, are refusals. A picture is the mode it was
  taken in. Other clients do not press keys. Revisions are unbounded (2^53 in the code).
* `ConsoleInput`: framing and numbering end a peer as `Leave` does; they are
  modelled in `InputBridge`.
* `InputBridge`: one thread of the daemon, to which other peers do not exist: a
  denial may happen at any time instead. The browser's unsent queue is data.
* `CaptureSource`: the broker is one worker that may end; its accept loop and the limit of
  its workers, peers the daemon rejects and errors of accept are left out. A record is one
  whole picture. Dying and starting again stand for the supervisor.
* `CaptureRecovery`: a server with a broker. What is written to a viewer that is being
  closed, and the exit of the process after its stop, are left out. No liveness of the
  recovery is claimed: a broker that is gone makes the reader retry for good, and so
  does a display of another size.
* `DeviceHub`: one device; media streams share the connection and are left out.
* `Enrollment`: one enroll process per host at a time; codes and ids do not
  collide; PostgreSQL's READ COMMITTED with row locks, as the statements use it;
  the rate limit and the checks of codes and requests only refuse earlier.

Not modelled, with the reason in `PROJECT.json`: parsing and framing, pixel and
PNG conversion, encoders and other child processes' output, systemd units, TLS
and HTTP set-up, React views, demonstration pages.

## 7. Plan

Done: the modules above. Next, most important first:

1. `ManagedBroker` (`broker.py`, `runtime.py`, `web.py`): create and retry with request
   ids that outlive a failed start, services that end on their own, restart of the broker.
2. `MediaRelay` (`manager/media.go`, `cmd/device/media.go`, `bridgewire`): streams
   opened over the connection of `DeviceHub` and closed from either end.
3. `PortalLease` (`desktopportal/*.go`): the lease over a portal session, against
   `ControlContract`, as the third of its implementations.
4. `consoleRecovery.ts`: the browser's own retries over the viewer of `CaptureRecovery`.

Runs whose questions can share an instance are merged as modules are added, so that
each run stays a question of its own.
