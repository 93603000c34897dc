# Arc Tunnel in TLA+

This directory specifies Arc Tunnel, the tunnel that lets several AI agents drive
one browser, checks the specification with TLC and proves part of it with TLAPS.
Every module is a translation of the TypeScript in `mcp-server/src` and
`extension/src`; comments name the functions they stand for and `PROJECT.json` gives
the lines of every definition.

Contents: 1. the system, 2. the modules and the code, 3. what is abstracted,
4. the runs, 5. bounds, deadlock and fairness, 6. what the runs found,
7. the proofs, 8. what is not modelled, 9. the plan.

## 1. The system

    AI host --stdio-- MCP server --ws-- Broker --ws-- extension --chrome.*-- browser
                      (one per host)     (one per port)  (service worker)
                                           |  http
                                        dashboard page

**MCP server** (`server.ts`, `broker-client.ts`, `index.ts`). One process per AI host,
called an *Agent* below. It makes sure that a Broker runs, connects to it, and turns every
tool call into an `agent_request` with a timer. *State:* one socket, the map of pending
calls. *Hard:* answers, timers, send errors and the end of the connection come in any order;
a Broker that stops answers and closes in two steps. *Correct if:* every call has one
outcome, and a success was executed once.

**BrokerLauncher** (`broker-launcher.ts`). `ensureBroker` probes the port; if
nothing answers, it creates a lock file, spawns a detached Broker, writes the
Broker's pid into the lock and waits until it is healthy. Whoever finds the lock waits for
its owner. `stopBroker` signals the Broker and removes its lock. *State:* the lock
file, the processes. *Hard:* several processes race through separate system calls; any of
them may die between two of them; deadlines. *Correct if:* one Broker is started,
every start ends at it or fails cleanly, nobody removes a lock that is not his.

**Broker** (`broker/broker-server.ts`). One Node.js event loop. *State:* the registry,
one grace timer per disconnected Agent, the routes (commands sent and not
answered), a queue of promises per tab, the marks and generations of closed
tabs, a queue of `create_tab` and a shared `create_window` per session, one
reservation and one cleanup for the recording, the extension's connection with its
generation and its inventory synchronization, diagnostics. *Operations:* handlers of the
Agents' messages, of the extension's answers and events, of connects and
disconnects, of timers, and continuations of promises. *Hard:* every operation reads
state before an `await` and uses it afterwards; answers, events, timeouts,
disconnects and replaced connections come in any order. *Correct if:* a command runs
only for the owner of its tab, the commands of a tab one after the other, every
request is answered, one recording at a time and none forgotten, one window per
session, all ownership released some time after its Agent is gone.

**SessionRegistry** (`broker/session-registry.ts`). Two maps kept by hand,
`sessions` (with the tab ids, window, recordings and saved sessions of each) and
`tabOwners`. *Correct if:* the maps agree, nothing outlives its session's grace period,
and no Agent's grace period is cut short by the timer of another one.

**TabScheduler** (`broker/tab-scheduler.ts`). A chain of promises per tab.

**DiagnosticsStore, the event stream and the dashboard** (`broker/diagnostics-store.ts`,
`openEventStream`, `dashboard/dashboard.js`). A ring of numbered events, sent to pages
over server-sent events with backpressure and replay. *Correct if:* of each Broker a page
sees a sequence without gaps, or a RESET.

**Extension: WebSocketClient and service worker** (`websocket-client.ts`,
`service-worker.ts`, `popup.ts`). *State:* one socket and its generation, a reconnect
timer, an alarm that survives the worker, the configuration in `chrome.storage` and the
token the Broker refused. *Hard:* the worker may be suspended or killed and started again
at any time, handlers of old sockets and answers of old storage calls arrive after a new
configuration. *Correct if:* the extension connects again whenever it may, never
retries a refused token, and the last saved configuration wins.

**Extension: TabManager and CommandHandler** (`tab-manager.ts`, `command-handler.ts`).
*State:* which tabs the debugger is attached to, a lock (a promise) per tab while attaching,
a count of holds, a detach timer per tab, the recording reservation and its queue. *Hard:*
several commands on one tab, `onDetach` and `onRemoved` at any time. *Correct if:* no
command waits for ever, a recording keeps its debugger, an unused one leaves.

**Extension: page commands** (`command-handler.ts`, `snapshot-engine.ts`,
`actionability-checker.ts`, `input-simulator.ts`, `debugger-controller.ts`,
`lightweight-controller.ts`, `image-processor.ts`). *State:* a cached snapshot per tab,
`pageEnabledTabs`, a chain of promises per window for visible captures. *Hard:* the page
changes between any two requests; a script that was given up after 1.5 s goes on; events of a
navigation may never come; Chrome captures what a window shows, not a tab; commands the
Broker gave up overlap with the next one. *Correct if:* a snapshot includes the input and the
navigations that were answered before it, a screenshot shows the tab it was asked for, scripts are not run
again and again, every command ends. (Scripts never empty the cache, and overlapping commands
undo the emptying: section 6.)

**Extension: the rest.** `recording-engine.ts`, `session-manager.ts` (saved sessions),
`playback-engine.ts`, console capture, storage. Mostly one Chrome call after the other.

**Around it.** Configuration, tokens, protocol types, `broker-control.ts`, scripts,
legacy `websocket-server.ts` and `command-queue.ts` (only their tests use them).

The hazards this gives are listed in `PROJECT.json`, each at its line, with the
properties that would catch it.

## 2. Modules and code

| Module | Stands for |
|---|---|
| `RegistryOps` | `SessionRegistry` as a value: two maps in a record, each method a function from registry to registry |
| `TabOwnership` | abstract: what the Broker promises about the owner of a tab |
| `SessionRegistry` | the registry with calls in any order the Broker allows, and grace timers; implements `TabOwnership` |
| `RegistryLemmas` | lemmas about `RegistryOps`, one per method of the registry |
| `SessionRegistryProofs`, `BrokerTabsProofs`, `BrokerRecordingProofs`, `AgentCallsProofs`, `PageCommandsProofs`, `TabDebuggerProofs`, `ExtensionLinkProofs` | theorems about the module they are named after, with their inductive invariants (section 7) |
| `BrokerCore` | Agents, routes, extension connection, synchronization, event loop; extended by the next three |
| `BrokerTabs` | commands on tabs: `executeRequest`, `claimTab`, `releaseTab`, `close_tab`, `TabScheduler`, closed tabs and generations, `handleBrowserEvent`; implements `TabOwnership` |
| `BrokerWindows` | `createOwnedTab`, `ensureOwnedWindow`, `queueOwnedTabCreation`, `restoreOwnedSession`, `save_session`, window events |
| `BrokerRecording` | `startRecording`, stop, `handleAgentDisconnect`, `cleanupDisconnectedRecording`, `pruneExpiredSessions`, with the extension's recorder |
| `CallService` | abstract: what an MCP server promises about a tool call |
| `AgentCalls` | `BrokerClient`, `handleToolCall`, `shutdown`; of the Broker the hello handshake, the answers and `performStop`; implements `CallService` |
| `BrokerLauncher` | `ensureBroker`, `stopBroker` and the life of the Broker process |
| `ExtensionLink` | `WebSocketClient`, the configuration in the service worker, the popup's save |
| `TabDebugger` | `TabManager`'s debugger sessions with the commands that use them and the recorder's hold |
| `ScreenshotImage` | a screenshot's parameters and sizes: `normalizeScreenshotOptions`, `processScreenshot`, the server's `screenshotContent`, as operators |
| `VisibleCapture` | `captureVisibleTab` with the lock of its window, and the fallback to the debugger |
| `PageCommands` | `snapshot`, `interact`, `navigate`, `execute_script` on the page of one tab |
| `DiagnosticsStream` | the store, `openEventStream`, the stop of the Broker, the page's `EventSource` |
| `MC*` | symmetry and the `.cfg` files of the runs |

**Composition.** `RegistryOps` is a library of functions on one value. `SessionRegistry` runs
them in a free order, which is what the theorems are about; `BrokerCore` keeps the same
value in its variable `reg` and runs them where the code calls them. The three Broker
modules EXTEND `BrokerCore` and each adds one group of commands. They are kept
apart because their queues do not touch each other (a tab's queue, a session's creation queue,
the recording's reservation), and one module with all of them is far beyond what TLC
explores. Where they meet, one carries the other as a choice: in `BrokerRecording` a
command may have to wait for its turn in the tab's queue, and the tab may close.

`AgentCalls` composes the client with the Broker's side of its connection: a request
waits there as long as it likes, which stands for every queue of the Broker modules.
`VisibleCapture` extends `ScreenshotImage`, whose operators say what becomes of the image it
captures. `VisibleCapture` and `PageCommands` stand beside `TabDebugger`: there a command is an
operation of any length, here the debugger is attached, or attached in one step that may fail.

**State.** `reg` is `registry`; a tick counter per session replaces `Date.now() -
disconnectedAt`. `req[q]` is one Agent request with its route: `stage` says where its promise
chain is (`sync`: waits for the inventory; `queued`: in a queue; `routed`: in
`this.routes`; `resolved`/`rejected`: settled, continuation to come). `conn`, `conns` are `extension` and
`extensionGeneration`, `settled`/`immediates`/`sync` the synchronization of a connection,
`tails`, `closed`, `generation`, `retiring` are `tabTails`, `closedTabIds`, `tabGenerations` and the
pending `retireClosedTabMetadata`, `creating`, `initializing` are `tabCreationTails` and
`windowInitializations`, `reservation`, `cleaning`, `cleanups` are
`recordingReservationSessionId`, `recordingCleanupSessionId` and the calls under way.
`browser`, `place`, `executing`, `inbox`, `recording` are the other end.
In `AgentCalls`, `pending`, `closed` are the client's fields, `ws` its socket's `readyState`, `outcome` what the MCP
host was told, `up` and `down` the frames under way, `stage` the Broker's requests. In `VisibleCapture`, `lock` is
`visibleCaptureLocks`, and `where`, `active` are Chrome's tabs. In `PageCommands`, `cache` is the engine's cache for
the tab, `pageEnabled` its membership of `pageEnabledTabs`, `navigations` the listeners of `waitForNavigationEvent`, `strays`
the lightweight scripts nobody waits for any more.

**Steps of the Broker.** One action per macrotask (message, timer, socket event) and one
per continuation of a promise. All continuations run before the next macrotask
(`Runnable`), with one exception that matters: `ws` 8.21.1 hands over all the messages of
one network chunk (`allowSynchronousEvents`, on by default) before a continuation runs.
`batch` stands for it and `Chunks` turns it on.

**Steps of the launcher.** Every system call on the lock, every `spawn`, `kill` and probe is a
step of its own, of any of several processes.

**Steps of the client.** A frame that is received, a timer, an error of the socket, a tool
call. A connection is two queues of frames that end with a close frame or are cut at any point.

**Steps of the extension.** What happens between two awaits, an answer of Chrome, an event
or a timer. A killed worker (`Terminate`, `Suspend` in `ExtensionLink`) loses all its variables; storage
and alarms stay.

## 3. What is abstracted

- Payloads: URLs, tokens, titles, page contents, results. `use` is every command
  that names a tab. Messages are taken as well formed; validation is not modelled.
- Time: ticks of the grace period, otherwise a timer may fire whenever it is set. 30 s timers and
  1 s cleanups may therefore fire in any order with everything else; a tick
  is longer than the second of a cleanup. Deadlines of the launcher are among the
  faults (`Fault`) it may meet.
- Recordings have the name of their session: the code makes a fresh id for each,
  and one session has at most one that counts.
- Ids: a slot of `Requests` is used again when nothing refers to its last
  use; session ids (UUIDs in the code) when nothing refers to the session.
- Where `requireSession` throws, the model goes on with what the rest of the step
  does; the property `CleanupsFindSession` is about exactly that.
- Launcher: no pid is used again; the inode of a lock is the process that created it. Both writes of the lock, the
  starter's pid and the child's, may fail; a failing write leaves the lock as it is at that moment, empty or with its old content.
- `ExtensionLink`: "same generation" is "this socket is `this.ws`" (the module's header says why); numbers of
  attempts and delays are left out; a heartbeat shows only when it fails; the answer to a
  storage read comes after the change events for what it reflects; the migration of an old URL
  at load is part of loading; one fault stands for a failing read of the configuration, of the marker, or of both.
  Chrome suspends a worker only when it is idle (`Suspend`), but may kill it at any point (`Terminate`).
- `TabDebugger`: requests about a tab are answered in order, with its
  events in between; a closing tab's `onDetach` and `onRemoved` are one step; an answer
  to the detach of an idle debugger comes before the next idle delay ends; another debugger (DevTools) on
  the tab and restarts of the worker are left out.
- `AgentCalls`: one Agent, whose session another Agent cannot disturb (`SessionRegistry`); a token or a version is right or not;
  results are a content, an error or a code.
- `PageCommands`: the page is the sequence of its interactive elements and a count of its
  changes. A ref is a place in the sequence of the snapshot. `check` also stands for `type` and
  `uncheck`, `click` for `double_click`. The 5 s of the cache may be over at
  any time; a lightweight attempt of a script that was given up may still run, later or never; one of the debugger that was
  given up has run by then or never does. `acted` counts the answered inputs and navigations, which empty the cache; a script, which
  does not, only changes the page.
- `VisibleCapture`: a tab's image is the tab that was in front; sizes are numbers (`ScreenshotImage`).
- `DiagnosticsStream`: a socket is a buffer of `HighWater` frames before a wire. A stream that is closed loses its queue and
  what its socket holds; what is on the wire may still arrive.

## 4. The runs

`tlc -config <cfg> MC<module>` runs each of them; the configurations are `MC<module>*.cfg`. One run per
component, and a second one where a question needs another instance.

| Run | Module | Shows |
|---|---|---|
| `registry` | `SessionRegistry` | all operations of two Agents on two tabs and two windows: the maps agree (`RegistryConsistent`), nothing outlives its grace period (`NothingOutlivesGrace`) or is cut short (`GraceNeverCutShort`), a timer is pending for whoever still holds tabs (`TimerUntilExpired`), the tabs of a disconnected Agent are released in the end if timers fire when the clock says so (`GraceReleases`), and ownership implements `TabOwnership` (`ImplementsTabOwnership`) |
| `tabs` | `BrokerTabs` | two Agents and a tab with claims, releases, commands, removals, timeouts, dropped and replaced connections, grace expiry: one command of the tab at a time in the Broker (`OneRoutePerTab`), only the owner's (`OnlyOwnersCommand`), none for a gone Agent or a closed tab (`RoutesJustified`); whoever waits in a queue or for a synchronization waits for something under way (`WaitsAreServed`) |
| `tabs_reuse` | `BrokerTabs` | two Agents and an id that closes and comes back, twice: the old queue never reaches the new tab (`NoCommandOutlivesItsTab`); an owned tab is not taken for closed, and the marks go away with the queue (`ClosedMarksAccurate`) |
| `windows` | `BrokerWindows` | concurrent `create_tab`, `restore_session` and `save_session` of one Agent, with messages that come in one chunk and an extension that comes back with another inventory: one `create_window` per session, one `create_tab` at a time, and whoever waits for a window waits for a request that is under way (`CreationsServed`); a command that opens tabs names the window the session has at that moment (`CommandsUseOwnWindow`) |
| `recording` | `BrokerRecording` | two Agents record, disconnect, time out, and the connection is replaced: a connected recorder holds the reservation, one start at a time, and nobody holds it without a reason (`ReservationAccurate`); until a cleanup misses its second the recording of a gone Agent stays marked for cleanup (`DisconnectedRecordersCleanedUp`) |
| `launcher` | `BrokerLauncher` | two starters and a stop on three ports, one of them another program's, with a deadline, a failing spawn, a failing write of the lock or a crash anywhere: a failed start leaves no Broker of its own and no lock that names it, and a successful stop without faults no lock that names the Broker (`NothingLeftBehind`); as long as there are only starts and no fault, one Broker (`OneBroker`) at which every start ends, or learns that its lock serves another port (`EveryStartConnects`) |
| `calls` | `AgentCalls` | two tool calls through handshake, timeouts, a cut connection, a lost extension and the Broker's stop: the client forgets no call (`NoCallForgotten`), a stopping Broker answers what the extension had (`StopAnswersRoutes`), calls implement `CallService` (`ImplementsCallService`), and the handshake and all calls end (`EverythingEnds`) |
| `link` | `ExtensionLink` | two saves, three faults: an idle client is about to try again and has one live socket (`OneAttempt`), once a Broker stays up and the configuration is good the extension is connected for good (`EventuallyConnected`); while the storage works, one that fails being among the faults: no refused token is tried again (`NoRetryOfRefused`), the last configuration wins and the stored mark of a refusal is true (`WorkerMatchesStorage`) |
| `debugger` | `TabDebugger` | three commands on a tab: locks have owners and, until the user ends a session, the worker is right about the debugger (`AttachmentsAccurate`), holds have a recorder and the four variables about the recording agree at rest (`RecorderConsistent`), until then no idle timer takes the debugger from a recording either (`RecordingKeepsDebugger`), every command ends and an unused debugger leaves (`EveryCommandEnds`, `IdleDebuggerLeaves`) |
| `capture` | `VisibleCapture` | two screenshots of two tabs in two windows, and the user: an image shows the tab that was asked for, unless, as Chrome captured its window, something that takes no lock changed the window or another screenshot activated a tab there that had been moved into it after that one's check (`ShotShowsItsTab`); every screenshot ends (`EveryShotEnds`); for all kinds of parameters and sizes around every limit, what the extension makes of an image passes the server's check (`ImagesAreAccepted`) |
| `page` | `PageCommands` | two commands of every kind, one after the other or overlapping, on a page that changes: a click, check or key press is answered with a snapshot from after it, and as long as the commands are one after the other no answer and no cached snapshot is older than an input or a navigation that was answered before (`SnapshotsAreCurrent`; not so for scripts, section 6), a script runs at most twice (`ScriptRunsAtMostTwice`), every command ends although a navigation event may never come (`CommandsEnd`) |
| `diagnostics` | `DiagnosticsStream` | slow and dropped streams, a ring and a queue that overflow: a listener lives as long as its stream, and of the events of one Broker neither the page nor what a stream still holds skips or repeats one without RESET (`NothingLost`; between two Brokers see section 6); as long as the Broker stays up, the page ends up with the newest event (`CaughtUp`) |

Several of these are conjunctions of parts the module defines by name, each with its own comment
(`NothingLeftBehind == FailedStartCleansUp /\ StoppedBrokerForgotten`, for example).

The modules have further properties with which TLC finds no error, in no run of their own: `TypeOK` of every
module (proved for those of section 7), `MapsConsistent` of `BrokerTabs` and `RecordingKnown` of `SessionRegistry` (both proved);
in `BrokerRecording` every request of an Agent, which may wait for the
inventory, behind a cleanup, in a tab's queue and for the extension, is answered (`EveryRequestAnswered`: `FairSpec`,
one Agent, two requests, two connections, `MaxInbox = 1`, two `CleanupIds`); and the properties of `windows` with
two Agents (kinds `create` and `claim`, or all but `claim`, one connection each), and with them that ownership
implements `TabOwnership` in `BrokerWindows`, too; it does in `BrokerTabs` (`tabs` without symmetry; proved).

Every property of a run has a mutant in `PROJECT.json`: a changed operation (a dropped guard, a
missing reset, a swapped order) with which TLC finds the property violated. The mutated
operators stand in the modules before the operators they change, marked `Mutant` or `Bug`.

## 5. Bounds, deadlock and fairness

**Bounds.** They are constants of the modules, and chosen so that each hazard fits with one
step to spare.

- `Grace` 1 or 2 ticks: a session younger than the grace period, one just past it, and one
  of each at the same time (2 in `registry`). `EarlyBy` is the tick by which the timer's clock may be
  ahead of the wall clock.
- `Requests` 2 or 3 slots: a command and one that waits behind it, and one that comes when
  the first is over (`tabs_reuse`). A slot is used again, so behaviours are
  not limited to 2 requests.
- `Sessions` 2: competition for a tab, a window's id, the recording, and a timer
  that concerns somebody else. One in `windows`, where the questions are about the requests of one Agent; two
  Agents at once are beyond the run's time with two connections (section 4 says what was checked of them).
- `MaxConnections` 2: a first connection (which does not synchronize), and one that
  replaces or follows it; 1 in `tabs_reuse`, which is about the tab. `MaxInbox`: an answer and an event behind
  it (`tabs`); with 1 an event comes before or after the answer, or in its chunk.
- `MaxRemovals` 2 (`tabs_reuse`): the tab closes, and the tab that follows it.
- `CleanupIds` 3: a cleanup on each connection and one at a disconnect. The code makes a fresh id for each;
  a cleanup starts only while one is unused, which with infinitely many ids is no restriction. A cleanup may miss
  its second at any time; `late` remembers that one did.
- Launcher: `Starters` 2 race, and a stopper works against them; three `Ports` because
  the lock is shared by all ports, one of them in `ForeignPorts`, taken by an unrelated server;
  `Children` as many as can be spawned; `MaxFaults` 1: one deadline, failing spawn, failing write or crash, at any point.
- Calls: 2 `Calls`, one that is answered and one that waits behind it; one of them is in `Shots`, whose content the
  server may refuse. The safety properties also hold with 3.
- Link: `Sockets` 3, used again (an old one closing, a current one, a next one); a good
  and a refused token; an endpoint with another protocol version, and a good one that is also the
  `DefaultUrl` of a client without a configuration; `MaxSaves` 2 is a
  change and its reversal, from any stored configuration; `MaxFaults` 3 is the end of the worker, of the Broker and of a
  connection, or failures of the storage and some of those. Properties that need a storage that works say so (`BrowserWorks`).
- Debugger: `Cmds` 3: the one that attaches, one that waits, one that comes later, or a start, a stop
  and another command, all on one tab: tabs share only the recorder; `MaxCancels` bounds the sessions the user ends.
- Capture: `Cmds` 2 on `Tabs` 2 and `Windows` 2: in one window, in two, and a tab that goes from one to the other;
  `MaxChanges` 1 by the user, and activations that come too late are not counted. `Sizes` are below, at and beyond
  each limit of the parameters, and aspect ratios at which a side rounds to nothing.
- Page: `Cmds` 2: one under way and one that overtakes it; `Elements` 2: the one that was chosen and the one that
  takes its place; `MaxChanges` 2: the page before, between and after two reads.
- Diagnostics: `MaxEvents` 6: one event goes to the socket, three fill the queue, the next overflows it, and one more
  comes after that; a `Ring` of 2 overflows more than once; `MaxFrames` 3 is more than
  the ring as in the code (256 and 200); `HighWater` 1 makes every second write return false; `MaxRuns` 2 is a Broker and the one that follows it.
- Runs with a liveness property have no symmetry.
  Safety properties that only hold as long as nothing fails say so in their own text, so that one
  instance serves them and the ones that hold in spite of failures.

**Deadlock** is checked except where the system may really rest or a bound is used up:
the launcher's processes end; a client whose connection is lost has nothing more to do; the link rests after a refusal, with an invalid
configuration or a strange protocol version; commands and events are used up in the debugger's, the capture's, the page's and
the diagnostics' runs.

**Fairness.** The Broker's continuations and the extension's answered steps are weakly fair:
once runnable, nothing disables them but themselves. Its messages, timers and
immediates are strongly fair: a continuation that becomes runnable disables them for a moment, and
Node.js gets to every message and every due timer in the end. Nothing is assumed of Agents, users, connections
or answers of the extension: a command need not be answered, since its timer is there.
Launcher: each process's next step and the Broker's start, listening and exit; nothing of
deadlines, crashes and failures. Calls: the client's timers and the event of its socket; nothing of the Broker. Link: handlers, timers,
alarms and sockets; nothing of faults, saves and
Brokers. Debugger, capture and page: a request to Chrome is answered, fails, or its timer fires, and events of the debugger; nothing
of commands, users or navigation events. Diagnostics: the network delivers, the page reads and reconnects, a Broker comes
back; nothing of new events and faults.

## 6. What the runs found

Where the code and its documents disagree. "Design" is
`docs/superpowers/specs/2026-06-30-arc-tunnel-multi-agent-broker-design.md`. Each is stated as a
property that the code does not have (`Not so` in the modules). TLC finds each violated with the
constants of the third column, the rest as in the component's run.

| Property | Finding | With |
|---|---|---|
| `WindowKeepsClaims` | the first `create_tab` of an Agent drops the tabs it claimed (`assignWindow`; design: 23) | `SessionRegistry`, one tab, one window, no recordings and archives, `Grace = 2` |
| `GraceReleases` | a grace timer that runs at 29 999 ms of wall clock skips its session for ever (`expireDisconnected`) | `SessionRegistry`, `EarlyBy = 1` |
| `SyncBeforeCommands` | when a connection replaces an open one, commands go out before its inventory (design: 151) | `BrokerTabs`, no symmetry |
| `OneCommandInExtension` | after a Broker timeout two commands of a tab overlap in the extension (design: 138) | `BrokerTabs` |
| `ResyncKnowsWindows` | a window closed while disconnected stays the session's window (design: 151) | `BrokerWindows` |
| `OtherTabsGoOn` | closing a tab rejects other tabs' commands that name the same window (design: 155) | `BrokerWindows`, `MaxInbox = 2` |
| `OpenTabsStayOwned` | closing the window of a session drops tabs it claimed elsewhere (design: 23) | `BrokerWindows`, kinds `create` and `claim`, two windows, `MaxInbox = 2` |
| `OwnedTabsExist` | an answer and a `tab_removed` in one chunk leave a closed tab owned (design: 155) | `BrokerWindows`, `Chunks`, `MaxInbox = 2` |
| `RecordingsHaveOwner` | a `start_recording` the Broker gave up goes on in the extension; nobody can stop it and it blocks all later ones (design: 162) | `BrokerRecording`, no symmetry |
| `CleanupSparesOthers` | a cleanup can stop the next Agent's recording (design: 161) | `BrokerRecording` |
| `OwnerCanRetryStop` | a stop that timed out but was executed can never succeed (`broker-ownership.test.ts:595`) | `BrokerRecording` |
| `CleanupsFindSession` | a session can be pruned under its own cleanup, which then throws with nobody to catch it | `BrokerRecording` |
| `ReplacementLockRetained` | `removeLock` compares and unlinks in two calls, and can remove another starter's lock (`broker-launcher.test.ts:426`) | `BrokerLauncher`, three starters, no stopper |
| `EmptyLockInProgress` | a starter that dies before writing its lock, or whose write fails, blocks all later starts | `BrokerLauncher` |
| `ReportedBrokerKept` | a starter at its deadline kills a Broker others use (design: 80) | `BrokerLauncher` |
| `RoundTripSuppressed` | a refused token can be tried once more after a restart with two quick changes (`service-worker.test.js:434`) | `ExtensionLink` |
| `ConfiguredOnly` | while a worker that starts waits for the removal of an old marker (`service-worker.ts:134`), its client is still the default one, and the reconnect alarm (`service-worker.ts:243`) makes it connect to the default URL with an empty token | `ExtensionLink` |
| `EnsureAttaches` | commands that waited for a failed attach go on without a debugger | `TabDebugger` |
| `FlagRecovers` | a session ended by the user right after the attach leaves the tab marked as attached for ever | `TabDebugger` |
| `DetachOnlyUnused` | the idle timer of one command detaches the debugger under another | `TabDebugger` |
| `NothingSentWhileStopping` | a stop rejects the routes; a command that waited behind one of them is then sent, and executed, before the sockets are closed | `AgentCalls` |
| `ShotsApart` | a screenshot that holds the lock of the window its tab has just left activates the tab in its new window, where another one is capturing (`debugger-controller.ts:165`-`191`) | `VisibleCapture` |
| `ShotNeverShowsAnotherTab` | an activation that timed out comes all the same and brings another tab to the front between the check and the capture | `VisibleCapture`, `MaxChanges = 0` |
| `HitsTheChosen` | a ref is looked up in the newest snapshot, not the one the Agent saw, and a click goes to what is at its place by then (`tools/index.ts:28`) | `PageCommands` |
| `CacheNeverOvertaken` | when commands overlap, since the Broker has given one up, a snapshot under way puts a tree into the cache that is older than an action which emptied it | `PageCommands` |
| `ScriptsAreSeen` | `execute_script` empties no cache (`command-handler.ts:318`-`326`): for up to 5 s a snapshot (`command-handler.ts:87`-`92`) shows the page from before a script that was answered | `PageCommands` |
| `ScriptRunsOnce` | a script that was given up after 1.5 s runs beside its second run in the debugger | `PageCommands` |
| `EventsArrive` | `pageEnabledTabs` is not told of a detach, so a later navigation waits for events that cannot come, until its timer | `PageCommands` |
| `NothingLostAtRestart` | after a restart of the Broker a page asks for what comes after a number of the old Broker, and the first events of the new one are lost without a RESET (`diagnostics-store.ts:100`) | `DiagnosticsStream` |
| `CaughtUpAfterRestart` | for the same reason a page may never show the newest event of the new Broker | `DiagnosticsStream` |

## 7. The proofs

`tlapm <module>.tla` checks the theorems of the seven `*Proofs` modules and of `RegistryLemmas`. They hold for
any sets of sessions, tabs, windows, requests, calls, commands, sockets, endpoints and tokens and any value
of the other bounds, from the modules' assumptions alone: `GraceAssumption`, `NoneAssumption`,
`EarlyAssumption` (registry), `CoreBoundsAssumption`, `RequestsAssumption`, `RemovalsAssumption`,
`RecordingsAssumption`, `CleanupIdsAssumption` (Broker), `CallsAssumption`, `PageAssumption`, `DebuggerAssumption`, `LinkAssumption`. All of them say that a bound is a number, that a
set of identities is finite where its members are counted, that `None` is no member of a set, that ids of requests and
cleanups differ, or (`RecordingsAssumption`) that a recording has the name of its session (section 3).

Each module has the same shape: the inductive invariant `Inv` as a conjunction of named parts, lemmas about
the operators the actions are built from, one lemma per action, `InitInv` and `NextInv`, and the theorems.
TLC checked every part of `Inv` on the constants of the component's run before it was proved.

**SessionRegistry** (`RegistryLemmas`, `SessionRegistryProofs`)

- `RegistryAlwaysConsistent` (`TypeOK /\ MapsConsistent`), `GraceLeavesNothing`, `ActiveRecordingsKnown`. The
  inductive invariant is `Inv == Good(reg) /\ graceTimers \in SUBSET Sessions`, where `Good` is the
  conjunction of the registry's type, `MapsAgree`, `ExpiredHoldNothing`, `AbsentAreFresh`,
  `ActiveRecordingKnown` and what ties the clock to them (a connected session has no elapsed
  time and is not expired). No conjunct is inductive by itself: that the maps
  agree after a claim needs the tabs to be unowned in *both* maps; that an expired session holds nothing
  needs that only connected sessions gain anything, and that a session that is created is fresh, so
  that nothing is inherited by an id that returns.
  `RegistryLemmas` has one lemma per registry operation (`ClaimTabsGood`, `AssignWindowGood`,
  `ExpireDisconnectedGood`, ...), stated with the guard the caller must establish, and what each of them
  does to the owners of tabs and to who is connected; `BrokerTabsProofs` uses the same lemmas.
- `GraceNotCutShort`, an action property. `GraceTimerFields` says what a firing timer leaves of
  sessions that are not overdue; the invariant gives that a pruned session held nothing.
- `TimersPending`, for `EarlyBy = 0`. The invariant is strengthened by the property itself.
  A session whose own timer fires is overdue at that moment, so it is expired in the same step.
  With `EarlyBy > 0` it is false, as TLC shows for `GraceReleases` (section 6).
- `OwnershipImplemented`: initial states map to initial states, and each action to `Exchange`,
  `Release` or a stutter of `TabOwnership`. It needs `MapsAgree`: `assignWindow` empties what
  the session's own set holds, and only then is that a set of tabs *it* owns in `tabOwners`.

**BrokerTabs** (`BrokerTabsProofs`): everything the runs `tabs` and `tabs_reuse` check.

- `OneRoute`, `WaitersServed`. `QueuesInOrder` says that a tab's queue holds each request of that tab once and
  that a command that was sent, answered or rejected is its head: two such commands would both be the head. `SyncsPending`
  ties a request that waits for an inventory to a connection that has one over, under way or still to start; it is
  needed at the disconnect, which ends what was under way.
- `RoutesAreJustified`, `OwnersCommand`. `AnswersHaveAgents`: the Agent of a routed or resolved request is connected, since its
  disconnect rejects them, so a claim that is answered finds its session; `ClosedTabsHaveNoRoutes`, since a removal rejects the tab's routes. `OwnersCommand`
  (an action property) then follows from the check of the ownership in the continuation that sends.
- `NoneOutlivesItsTab`, `ClosedMarksCorrect`. These rest on the generations. `MarksJustified`: while a tab is marked as closed
  nobody owns it, whatever is queued for it is older, and a continuation of the present generation is there to remove the
  mark. `StaleIsOver` and `GenerationsGrow` order the generations of requests and continuations;
  `LastWaitsLongest`, the part that is hard to find, says that the one continuation that may reset the
  generation waits for every request that was queued before the removal. Without it a reset could make an old request look
  like one of the tab that came back. `SlotsKept` says that the request a continuation waits for is not taken for a later one.

- `OwnershipImplemented`, a refinement of `TabOwnership`. In the registry a claim has a guard; here the tab is asked for, listed and
  claimed in different steps. That only an unowned tab, or one of the Agent's own, is taken follows from the check in `FinishClaim`; that
  all other steps at most release tabs is `OnlyReleases` of the registry's lemmas.

**BrokerRecording** (`BrokerRecordingProofs`): everything the run `recording` checks.

- `ReservationIsAccurate`, `DisconnectedAreCleanedUp`, `TypeCorrect`, from one invariant in two halves.
- *The reservation.* `StartersHoldReservation`: a start that has passed the check, until it begins or fails, holds the reservation for its Agent;
  `OneStarter`: an Agent has one such start, and none while it records. `HolderKnown`: whoever holds the reservation has a start under
  way, records, or is to be cleaned up, and `RecordersHoldReservation` the converse, with what `late` (a cleanup that missed its second)
  takes away from it. A start is resolved in one step and ends in another, and its Agent may disconnect,
  be cleaned up or be pruned in between, so the case of a start whose route was rejected has a disjunct of its own.
- *The commands and their answers.* The first half needs that a stop that succeeds is one of an Agent that records, and that a
  cleanup which meets a start of its session is answered after it: nothing in the Broker checks either. It follows from
  the order of the messages alone. `RoutesUnderWay`: a route has its command on the way or its answer; `AnswersInOrder`: the stops of an Agent are
  answered before its start, its start before a cleanup of it, wherever on the link they are; `StopsEndRecordings`: a stop
  is answered with success only while the registry shows the recording.
  One lemma per action says how it moves the queues (`QueuesMove`, `RoutesMove`, `CleanupsMove`, `StopsMove`), and
  `AnswersMove` that every such move keeps the order.
- After a late answer a recording may stay in the registry with nobody to clean it up; that is what `~late` in
  `DisconnectedRecordersCleanedUp` excludes, and the findings of section 6 about recordings are outside of both properties.

**AgentCalls** (`AgentCallsProofs`): everything the run `calls` checks but liveness.

- `CallsAreSettled`: a call has its outcome or is pending with its timer.
- `StopIsAnswered`: `StoppedAnswered` places the answer to each call that `performStop` rejects: it is in the queue of frames before any end of the
  connection, or was received.
- `Implementation`: every step of client, connection and Broker is a step of `CallService` or a stutter. `SuccessIsExecuted`, `CommandsOnce` and
  `RequestsOnce` (a request is on its way once, and only until the Broker has it) give that a success is answered
  for what was executed, once. `EndsAreTold` and `ClientInPhase` give that a client which gave up is not answered later.

**PageCommands** (`PageCommandsProofs`)

- `AnswersAreCurrent`, in two halves. That the answer of an input shows the page after it needs, whatever overlaps, the stages of one command only:
  `CommandsInStage` carries the count at which an input was done into its answer. That nothing stale is answered or kept is proved for
  commands that are one after the other, as the Broker sends them: `SnapshotsCover` says of the cache and of every snapshot under way
  that it was read after all inputs and navigations answered so far, or is marked as overtaken; `OneAfterAnother` that without an overlap
  one command at a time is under way and nothing is overtaken. Commands that overlap, and scripts, are the two cases of section 6.
- `TwoRunsAtMost`: `ScriptInStage` counts the runs by stage, and one less where an attempt that was given up may still run.

**TabDebugger** (`TabDebuggerProofs`)

- `AttachmentsAreAccurate`: `LocksHaveOwners` (a lock, and every promise somebody waits for, is that of a command that is still attaching) and, as long as
  the user ends no session, `TrackingExact`: `trackedTabs` is true of every open tab but for answers that are under way.
- `RecorderIsConsistent`, `RecordingHoldsDebugger`. `LifecycleInOrder` says that only the head of `recordingLifecycle` is past its wait, so
  `RecorderInPhase` can give the value of the recorder's four variables for each stage of that one command; `HoldsJustified` and `HoldsKept`
  bound the hold of a tab from above and below. That the idle timer spares a recorded tab (an action property) is `HoldsKept`
  with `TrackingExact`.

**ExtensionLink** (`ExtensionLinkProofs`): everything the run `link` checks but liveness.

- `OneAttemptAlways`. `SocketsAgree` is about the client alone: only `this.ws` is live, it stands for a configuration that is
  not refused (a valid one, or that of a new client), and `connectPromise` and `handshakeComplete` say how far it has come. One lemma per operation of the client (`SetConfigFields`,
  `RestoreFields`, `ConnectFields`, `ReconnectFields`, `SuspendFields`) shows that it is kept; `Armed` (a client that may connect does or has a timer) is what
  `connect` and `handleReconnect` establish.
- A new client has the default URL and may be made to connect before it is configured (`ConfiguredOnly`, section 6). `IdleUntilReady` says until when it is
  not, and `InUse`, in `LatestApplies`, that when it is, a valid configuration is about to replace it: so a refusal of the empty token is not taken for one of a token in use.
- `StorageMatched`. `Follows` says that the worker has the stored value of every key no unheard change names, which a change that is told,
  patched in, or saved meanwhile keeps (`TailFollows`, `PatchedFollows`, `SavedFollows`); `LatestApplies` that the client has
  the newest configuration or exactly one application of it waits in the queue of writes; `EndsAsPersisted` that the last write
  leaves what the worker takes for stored.
- `RefusedNotRetried`. `RefusalKept` follows a refused token through the life of a worker: suppressed by the client when ready, persisted while the
  tabs are synchronised, stored before. Its hypothesis on `sw.patch` is that of the property; without it TLC refutes
  `RoundTripSuppressed` (section 6).

**Only model-checked.** Liveness (`GraceReleases`, `EveryStartConnects`, `EventuallyConnected`, `CommandsEnd` and the others that need fairness): out of the provers' reach.
All of `BrokerWindows`, `BrokerLauncher`, `VisibleCapture`, `ScreenshotImage` and `DiagnosticsStream`: no theorem yet (section 9).
Properties of section 6 are false, so nothing is proved of them.

## 8. Not modelled

- Tool schemas and the wording of results (`tools/index.ts`); upgrade checks, host and origin checks, HTTP assets: I/O.
  An Agent is the environment of the Broker modules, which may send anything at any time, so their safety
  results hold for any client.
- Playback of a recording, `get_content`, the console's messages; what a restart of the service worker does to a
  command and to debugger sessions (what it does to a recording is in `BrokerRecording`, `ExtensionRestarts`).
- Console capture, content scripts, cookies and storage: bounded buffers and single Chrome calls,
  which unit tests reach.
- The legacy server and queue (unused), installers and scripts, built bundles.

## 9. The plan

Done in this order, the most important first: registry and ownership; tab
commands; windows; recordings; launcher; link; debugger; diagnostics; proofs of the registry; calls and the Broker's
stop; screenshots; page commands; proofs of the tab commands, the calls with their refinement, the page commands, the
debugger, the link and the recordings, and of the refinement of `TabOwnership` by the tab commands.

Next, proving, in this order:

1. `VisibleCapture`: that one command at a time is inside a window's lock, and `ShotShowsItsTab` from it.
   (The commands at a window are one queue: `previous` leads from each to the one before it, `lock` is the last.)
2. `DiagnosticsStream`: `NothingLost`, part by part. `BrokerLauncher`: `FailedStartCleansUp`. `BrokerWindows`: `CreationsServed`.

Then, modelling: saved sessions end to end (save, disconnect, restore by another Agent); an abstract
specification of "one recorder at a time"; playback; a restart of the worker under debugger sessions.
