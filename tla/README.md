# BearBrowser: specification and verification

TLA+ models of the parts of BearBrowser where processes, handlers or clients
interleave, the TLC configurations that check them, and TLAPS proofs.
Paths are relative to the repository root.  `PROJECT.json` relates every
definition to the lines it models.

To run it:

    tlc -workers 2 -config MCPolicyActions.cfg MCPolicyActions
    tlapm BearSpacesProofs.tla

## 1. Inventory of the system

BearBrowser is a hardened Firefox with a native shell, extensions and a plane
of local tools around it.  Most of the repository's files are vendored
packages, fonts, branding, documents and build scripts.  The core logic is in
six groups.

### A. Governance plane (`scripts/bearbrowser-*.py`, the native shell, the status bar)

Processes that are started for one operation and share files of JSON lines
under the state directory, without a lock.

| part | state | operations | interaction |
|---|---|---|---|
| propose-action | `policy/actions.jsonl` | classify by action type and profile, append | the shell and agents start it |
| resolve-action | the same, `provenance/events.jsonl` | pick an action (by id, or the latest held), append a decision, append an event | people, the shell, the sidecar server, the status bar |
| page-summary, page-comparison | a page record, then action, then event | three appends | people, the shell |
| governance-queue | none | list unresolved actions and candidates, recommend commands | reads every log |
| policy-engine | `policy/decisions.jsonl`, `policy/hold-queue.jsonl`, the operator's policy file | answer one action for one profile: record, queue a hold, exit code | playwright.sh, callers; the sidecar server shows its holds |
| sidecar-server | the page it last sent, in the browser | `/action/allow`, `/action/deny`, `/resolve`, `/memory/commit`, `/memory/reject` | starts resolve-action and memory-candidate |
| BearBrowserPolicyQueue.swift | the holds of the last poll | allow or deny one, allow or deny all | starts resolve-action |
| BearBrowserWebKitLauncher.m | appends with seek and write; an agent socket | proposes, emits events and candidates, Resolve Held | the same logs |
| memory-candidate | `memory/candidates.jsonl`, `provenance/events.jsonl` | create, commit, reject | people, the sidecar's page |
| mesh-bridge | its sync database; `context.jsonl`, which other programs share | push events and summaries, pull notes as candidates; watches or runs once | both logs above |
| sync-blocker-receipts, emit-event | a cursor file | forward BearBlocker's receipts to `events.jsonl` | BearBlocker appends, the browser's launch starts it |
| playwright.sh, create-receipt, update-receipt | a file for each receipt and `receipts.jsonl` | ask the engine, create, run, update | policy-engine; anyone may update |

*Hard:* interleaved readers and writers, a kill between two appends, between
the emptying of a file and its writing, or before a database is saved; pages
and menus that are out of date, two different ways to append to one file.
*Correct when:* a decision belongs to the action it names, a decided action or
candidate does not return to the queue, what the policy denied is not overturned
from a queue, no writer damages another's line, whatever is passed from one log to
another is passed on at least once, and once if nothing disturbs it, and a session
runs only on a decision and with a receipt.

### B. Agent control (`scripts/agent-control-bridge.py`, `lib/bidi_transport.py`, the machine gate, the receipts surface)

| part | state | operations | interaction |
|---|---|---|---|
| control bridge | a ReasoningRun: its event references, its weakest replay class, a BiDi client | classify, decide, attest, connect, dispatch, close, write the run's receipt | appends to `reasoning-events.ndjson`; the transport |
| BiDi transport | socket, read buffer, last command id | handshake, send a command and read until its answer, close | the browser, which also pushes events |
| agent-machine gate | none | classify a request by its path, decide with a bridge of its own, block or forward | the agent machine; the same evidence stream |
| receipts surface | where each follower has read to | list, filter, summarise, stream | reads the stream |

*Hard:* a time-out in the middle of a frame, late answers, a browser that ends,
a write that fails and whose failure is swallowed, a reader that comes in the
middle of a line.  *Correct when:* nothing that was denied reaches the browser or
the agent machine, what is attested happened, what happened is attested, and
followers see it in order.

### C. IoT sidecar (`iot-sidecar/`)

An HTTP and WebSocket server over device adapters and a SQLite cache; commands
pass a gate.  *Hard:* two commands on a device, each of which stores the state
it reads afterwards; a listing in which one device fails.
*Correct when:* nothing is applied that the gate denied, and the cache ends with
what the device says.

### D. Capture sidecar (`capture-sidecar/`)

Four parts on one HTTP server: the capture session (a slot behind a mutex, and
an engine that is a child process), the connection monitor (a poll, a map with a
cap, subscribers), the firewall (rules by domain, saved to a file) and stateless
lookups.  The BearNet panel (`settings/start/bearnet.html`) is a page that reads the
map once, follows the events and asks for a scope.
*Hard:* handlers that wait for the gate or for the engine while others
go on, a client that disconnects while they wait, a sidecar that is killed, a poll that
waits for other programs between what it reads and what it records, a subscriber that is too slow.
*Correct when:* no capture runs outside the slot, nothing starts without
permission, a stop ends its capture, what the events tell is true, a rule that was
answered with success is kept, nothing that is seen is reaped, and what has ended fades.

### E. Extensions (`extensions/`)

`bear-spaces` keeps named workspaces of tabs in memory and in the extension
store, and hides and shows tabs; its handlers are asynchronous.  `bear-containers`
keeps one storage key per tab, `bear-split` opens a window.  *Hard:* handlers that interleave at
their awaits, saves under three keys, a restart anywhere.  *Correct when:* the store
never names a space that is gone, and the tabs a user should see are visible.

### F. Settings actors (`settings/`)

Actor pairs inside Gecko (vault, clipboard, traps, blocker).  They
detect something on a page and forward it; they keep almost no state.

`PROJECT.json` lists all components with their status, and the hazards of
each at the line where they bite.

## 2. What is modelled

Who uses whom (an arrow is EXTENDS, or INSTANCE where it says so):

    MCPolicyActions   -> PolicyActions -> (INSTANCE) HoldLedger
    MCSharedLog       -> SharedLog
    MCBearSpaces      -> BearSpaces
    MCCaptureSession  -> CaptureSession -> PolicyGate
    MCAgentSession    -> AgentSession -> ActionContract, EvidenceStream, BidiTransport
    MCMemoryMesh      -> MemoryMesh -> MeshBridge, BlockerSync -> MemoryCandidates
                                                -> (INSTANCE) HoldLedger
    MCAutomationReceipts -> AutomationReceipts -> PolicyEngine
    MCConnectionMonitor  -> ConnectionMonitor -> Firewall
    MCBearNetPanel       -> BearNetPanel -> ConnectionMonitor

`MemoryMesh`, `AgentSession` and `AutomationReceipts` compose components that share
files.  All of their actors at once are too many for TLC, so a constant
`Deployments` names which of them run together, and the initial state picks one.

### `HoldLedger` - the promise of the action log

Three sets: `pending` (the queue), `settled` (named by some decision),
`recorded` (the others).  An action is recorded once; a decision takes its
action out of the queue; nothing puts it back.

### `PolicyActions` - the action log and everything that writes it

| state | in the code |
|---|---|
| `actions`, `events` | `policy/actions.jsonl`, `provenance/events.jsonl` |
| `pageRecords` | the files of page-summary and page-comparison |
| `engineHolds` | `policy/hold-queue.jsonl`, as a count |
| `pc`, `request`, `parent` | the processes: position, arguments, action picked |
| `page`, `menu`, `replying` | what the sidecar's page and the status bar menu offer, which may be old; requests whose page is not sent yet |

| actions | in the code |
|---|---|
| `Propose` | `bearbrowser-propose-action.py` |
| `StartPage`, `LogAction`, `LogEvent` | page-summary, page-comparison |
| `ResolveById`, `ResolveLatestHeld`, `PickAction`, `ActionNotFound`, `LogAction`, `LogEvent` | `bearbrowser-resolve-action.py` |
| `PostAction`, `PostHold`, `Reply`, `GetPage` | `bearbrowser-sidecar-server.py` |
| `ClickMenu`, `RejectArguments`, `RefreshMenu` | `BearBrowserPolicyQueue.swift` |
| `EngineHold` | the hold queue of `bearbrowser-policy-engine.py` |
| `Crash` | the process is killed, or its write fails and leaves nothing |

A read of the log and the append that follows it are different steps; so are an
append to one file and the next to another.

Abstractions: an action's identifier is its position; the page and menu are
read and shown in one step; all browser windows showing the sidecar page are
one; the memory routes of the sidecar are in `MemoryCandidates`, those of the shell are
left out, and so are the options that replace the target.  An append is one step, as it is
for tools that open with `O_APPEND` and write a short line.  That is not true of
the shell, nor of a write that a full disk cuts short, and `SharedLog` models both.

### `SharedLog` - one file, two ways to append

The file is a sequence of cells, a line has a length, and a line can be read
if its cells are whole and follow a newline.  `OpenAppend` and `AppendLine` are
the Python tools; `OpenForWriting`, `SeekEnd`, `WriteLine` are BBAppendLine when
there is a file, `FindNoFile`, `CreateFile` when there is none (the new file
replaces one that has appeared since).  `GiveUp` is a process that ends, or fails, before it
writes anything; `CutShort` one whose write a full disk or a kill cuts short: a part of its
line is in the file, without the newline, and what the next writer appends is glued to it
(`Glued`).  `overlap` is a history variable: the pairs of lines whose
writers were at work at the same time.

### `BearSpaces` - `extensions/bear-spaces/background.js`

| state | in the code |
|---|---|
| `open`, `hidden`, `current`, `front`, `used` | the browser: tabs, the hidden ones, the active one of each window, the window that `currentWindow` means, identifiers given |
| `spaces`, `activeId`, `tabMap` | the script's three variables |
| `stored`, `reading` | the three storage keys, what `loadState` has asked for |
| `pending` | writes issued and not yet in the store, with the handler that waits for each |
| `task` | each handler that waits at an await, with what it has still to do |

Every action is the code between two awaits: `SwitchToSpace`, `SortTabs`, `ApplyShow`,
`ApplyHide`, `ActivateFirst` are `switchToSpace`; `DeleteSpace`, `ShowOrphans`,
`ListTabs`, `ShowNext`, `ClearActive`, `DropSpace` are `deleteSpace`; and so on.  `Restart` may
come between any two.  `tabs.query({currentWindow: true})` answers with the tabs of `front` (`WindowTabs`), which
changes when the user goes to another window.  `tabs.hide`, `tabs.show` and tab activation are modelled
from their use: an active tab is not hidden, an activated tab is shown, a
tab that is gone is an error that the script swallows.

A save issues a write (`Issue`) with what memory holds then, and the handler that awaits it goes on only when it is
in the store (`Saved`).  `WriteDone` takes the writes in their order; `WriteFails` drops one, and with it
the rest of the handler that waits for it, for nothing catches the rejection: memory is then ahead of the store until the key is saved again.
A restart drops all that are not in the store.  `LoadFails` is a `storage.local.get` that rejects.

`race`, `failures`, `lost` and `arranged` are history.  `race` is `"none"` as long as no handler has started
while another waited or a write was on its way, or on a space that is gone.  The visibility properties and the
one on stored references are stated for `Serial`: `race = "none"` and no failure.  The script makes
no attempt to order its handlers or to undo what it could not save, and they are false otherwise.  `Serial` includes every
restart in the middle of a handler and of its writes.  `StorageFollowsMemory` holds for all
interleavings and failures except a handler started before the saved state is loaded, or without it.
`arranged` is the window that was sorted or shown last, and what is visible is stated of that one: a space is active for all
windows, but a switch sorts only one of them, and so does an exit (`MCAllTabs`, section 3).

### `PolicyGate` and `CaptureSession` - gate, slot and engine of the capture sidecar

`PolicyGate` has no state: `Classify` and `BridgePermits` are the decision of the
agent control bridge for the capture surface, `Permitted` is `gate.rs`, which
believes the subprocess only if it answered.  `CaptureSession` composes it with
the handlers of `server.rs` and the engine of `capture.rs`: `pc` of each request,
`session` (the slot), `engine` of each session, `ending` (the session a stop has
taken out), `saved`, `events`.  `Disconnect` drops a handler where it
waits; `ShutDown` is Ctrl-C, `Crash` a killed sidecar.  After a `Crash` the engine of
the session goes on and no sidecar knows it: it is in `orphans`, and the
properties except those.  Contents of the saved files, the routes that do not touch
the slot, and capture-enable (an installer with its own prompt) are left out.

### `AgentSession` - from an agent's wish to an effect

`ActionContract` is the decision: the contract's tables, its conditions, which may change
both the action and its class, and the approval token.  `BidiTransport` is the wire: `outbox` and
`inbox`, one command at a time with the next `lastId`, and four ways in which a read ends without an
answer (`Raise`).  `aligned` says whether the next byte to be read begins a frame: the
built-in WebSocket loses a frame's header to a time-out (`StallInFrame`), the
websocket-client package does not (`library`).  `EvidenceStream` is the file and its
readers.  A line is two cells, so a poll may come between them or a failed
write leave the first one; `read_events`, the filters, the summary and the follower
are translated as they are.  `AgentSession` has the bridge's run (`pc`, `refs`, `weakest`, `client`,
`receipt`), any number of runs of requests to the gate, and what the agent machine has of each (`upstream`).

| actions | in the code |
|---|---|
| `Connect`, `AskSession`, `Connected`, `DropClient`, `EnforceOnly` | `connect`, `_handshake_session`, `main` |
| `Dispatch`, `Attested`, `SendCommand`, `SkipCommand`, `SkipFrame`, `Dispatched` | `dispatch`, `evaluate_action`, `_attest`, `send_command` |
| `Close`, `CloseWithoutClient`, `SessionEnded`, `WriteReceipt` | `close` |
| `HandleRequest`, `Block`, `Forward`, `Respond` | the machine gate |
| `Follow`, `Poll`, `Leave` | `/receipts/stream` |
| `Execute`, `Push`, `Lose`, `Act` | external: the browser, the agent machine |

Abstractions: a URL is `"loopback"` or not, a path is the set of the rules' needles it
contains, a parameter is the one a condition could read; events have no time.

### `MemoryMesh` - candidates, the memory mesh, BearBlocker's receipts

`MemoryCandidates` is `candidates.jsonl` with the memory tool and the sidecar's
page; it refines `HoldLedger` like the action log, by a different selection: `--latest-candidate` does
look at what is resolved.  `via` and `seen` are history: how a decision was chosen, and from how long a log.
`MeshBridge` has one position in `sync_once` for each bridge (`bpc`), the database it has read (`local`)
and the one on disk (`syncDb`), emptied before it is written; the mesh is cut by reading
it (`snapshot`), emptying it (`EmptyMesh`) and writing it back (`Trim`).  What a bridge has read of a log are lines that it
goes through one by one (`todo`), passing each on or over (`SkipLine`: it is not wanted, its decision is "denied" (`Skipped`), or it is in `local`).
`BlockerSync` counts the receipts file in
half lines, and has the cursor on disk and the part each syncer has read and not yet emitted (`batch`).  An `Emit` that fails may have
appended its event all the same: emit-event appends before it prints.  `Abort` is an exception that ends a syncer half way (a line cut inside a
character, an entry that is no object, a file that cannot be written).  `pushes`, `pulls`, `failed`,
`torn`, `disturbed`, `overlapped` are history.  The verifier is `Verify`: `Consistent`, which is about what a record says of itself, and a
named actor (`Actor` has a tool that is told `--actor-id ''`).

Abstractions: an event or record is its position; a summary a number; a note its key.  An append is one step except
BearBlocker's, which the syncer may read halfway.

### `AutomationReceipts` - a session, its decision and its receipt

`PolicyEngine` is one process that answers: the operator's file in its forms (a
mapping, empty, malformed), with PyYAML or with the engine's own parser, words plain or quoted, actions
or overrides left out; the two appends, and the exit code.  `AutomationReceipts` adds the launcher
(`lpc`), the receipt's file and log, and update-receipt step by step: `ReadReceipt`, `Truncate`,
`WriteBack`, `LogUpdate`.  `disturbed` is a history variable: the receipts that two programs wrote at once, or
that one failed to write.

### `Firewall`, `ConnectionMonitor`, `BearNetPanel` - the capture sidecar's view of the network

`Firewall` is `firewall.rs` and its two routes.  `rules` is the table, `file` is `firewall.json`, which
`fs::write` empties (`EmptyFile`) and then writes (`WriteFile`), either of which may fail unnoticed (`WriteFails`); the lock is
held meanwhile (`LockFree`).  A file that is cut short loads as no rules (`ReloadRules`).  `meant` and `damaged` are
history: what was last answered with success, and what a failed or killed write may have lost.

`ConnectionMonitor` adds the loop of `netmon.rs`, the map of `netmap.rs` and the handlers that share them.

| state | in the code |
|---|---|
| `conns`, `scope`, `cache` | the map, SharedScope, the poll's `dns_cache` |
| `poll` | the loop: its position, the scope it read, rows to look up, keys it has listed, the key at hand, keys to reap |
| `mapCall` | each request to `/scope`, `/map`, `/map/ingest`: its position and arguments |
| `open` | the machine's connections |

| actions | in the code |
|---|---|
| `BeginPoll`, `List`, `LookUp`, `Record`, `Announce` | the loop: read the scope, lsof, dig and the rule, upsert, send |
| `Snapshot`, `Reap`, `AnnounceClosed`, `Sleep` | the loop: what is past its grace period, remove, send, sleep |
| `AskScope`, `SetScope`, `AskClear`, `ClearMap` | `scope_set`, `map_clear` |
| `ReportHost`, `DecideHost`, `RecordHost`, `SendHost` | `map_ingest` |
| `Restart`, `Tick`, `SocketChanges` | the sidecar is killed and started; time; the machine |

`BearNetPanel` adds one subscriber: `shown` (the page's table), `reply` (the answer to `GET /map`), `socket`, and `queue`,
the events between the monitor and the page.  Every step of the monitor is a step here, with what it sends (`Send`) or without
(`Unheard`); `OpenPanel`, `ReadMap`, `ReplyFails`, `ShowMap`, `Connect`, `Disconnect`, `Receive`, `ClickScope` are the page's.
`untold` is history: keys that have left the map and of whose end the page will not hear.

Abstractions: a record's age saturates one past the grace period, and which of two such is the older is arbitrary; rows of one
key are looked up once, and loopback rows are left out; the event that a slow subscriber skips may be anywhere in `queue`, which stands for the channel
and the socket; categories, places and texts, and of the page the drawing, node counts, investigation and the strips for capture and honeypots,
are left out.

## 3. Runs

| run | question | result |
|---|---|---|
| `policy_actions` | do two processes of any kind, with crashes and stale views, keep the log a ledger? | `DecisionsFollowTheirAction`, `EventsMatchRecords`, `QueuesDecideHoldsOnly` and the refinement `LedgerSpec` hold |
| `latest_held` | does `--latest-held` do what the queue recommends it for? | no: finding 1 |
| `shared_log` | what can mixed appends, and appends that are cut short, damage? | the file ends a line or a cut one, and a lost line stands behind a cut one or has overlapped with the shell |
| `bear_spaces` | store against memory, and visibility, with two handlers, late and failing writes, two windows and a restart | the store comes to hold what memory does unless a write failed; handlers that run alone leave no dangling reference, and the right tabs visible in the window they arranged |
| `capture_session` | do racing requests, lost clients and a crash keep the capture in the slot? | safety and `StopEndsTheCapture` hold |
| `capture_panel` | does the last event tell whether a capture runs? | no: finding 2 |
| `agent_session` | what reaches the browser and the agent machine, what is attested of it, what do followers see? | only what a permit was attested for, each command with its outcome; `/receipts` has all of it unless a write failed; a follower misses only a line it cut in two; every call returns once the browser stops pushing |
| `memory_mesh` | are candidates decided once, is everything passed on, and how often? | one decision per up-to-date view and the refinement `LedgerSpec`; at least once, exactly once undisturbed; eventually (`EverythingIsPassedOn`) |
| `automation_receipts` | does a session run only on a decision and with a receipt, and does the log tell the file? | yes, unless two write one receipt at once; a revocation is in the log whatever happens; sessions are settled |
| `monitor` | what do the rules, the map and their files keep between the steps of the poll? | answered rules are kept unless their file was damaged; nothing is reaped that the poll has listed or that is within its grace period; what has ended or left the scope fades; flags come to agree with the rules |
| `address_rule` | does a rule set on a connection's label match it? | no: finding 3 |
| `bearnet_panel` | what can the panel show that the monitor has forgotten? | only what was evicted, cleared, skipped, lost with the socket or overtaken by an old reply (`GhostsHaveACause`) |

Bounds, and why they are enough (states are distinct states):

- `policy_actions`: two processes of any kind (every race in the code is between a
  reader that will write and one other writer), two proposals (one held, one
  denied: the two states the selection must tell apart), `MaxActions = 4`, which is room for
  every record these can write, so the bound is never what stops a process.
- `shared_log` (73,948 states): two lines of each kind, of one to three cells: the shell's line is shorter
  or longer than the one it overwrites, both appenders may be between two shell lines, and any line of two or three cells may be cut.
- `bear_spaces` (303,683 states): two tabs in one window and one in another, so that a user, and `currentWindow`, may
  change window inside every handler; four spaces (three are seeded, one can be created); two
  handlers at a time, three in all, two once they have overlapped; one restart or one failure of the store.
- `capture_session` (26,258 states): three requests (a start, a stop, and one that races them; two starts
  and a stop), five commands, among them one without a gesture and one with another action's token,
  one end of the sidecar.
- `agent_session` (443,964 states): one bridge that is asked two actions (a late answer to the first
  meets the second), pushes without end, of which one is waiting to be read at a time, one failed write, one request to the gate, one follower; three
  deployments: a browser; a follower; a follower and a request (a control URL is
  given only where there is a browser; a connect that finds none is the outcome in which nothing listens).  Commands and requests include one of each
  class, a condition that renames its action, and a token.
- `memory_mesh` (367,040 states): eight deployments, of two actors each that can disturb
  one another (two tools, a tool without an actor and the page, two bridges that push into a mesh that is cut, two that pull, a bridge alone with
  events and summaries, and with a mesh of notes, a tool and a bridge, two syncers), one kill.  The mesh keeps two lines and a pull looks at one, so that both limits are met.
- `automation_receipts` (425,707 states): five policy files, two launchers, or one with two updaters
  or with another caller of the engine, one failed write or kill.
- `monitor` (381,046 states): beside the poll, either two requests for rules and one connection of the browser, or one request for the
  map, two connections (one of the browser) and a host, in a map for two of these three: so a new key evicts one.  An address has an owner's name that dig may
  find or not.  A request that waits at the gate does not hold the lock, so two are enough for one that saves and one that waits.  The grace period
  is zero, so that a record is within it or past it: two ages are all the code tells apart.  `lsof` may fail at any poll, which
  is an empty answer: when it fails longer than the grace period a connection that is still open is reaped, and comes back with the next answer.
- `bearnet_panel` (430,088 states): one connection of another program, one host, a map for one of them and a channel for two events, one request
  at a time: eviction, a full channel, a scope change and a restart all happen while the panel's reply is on its way.

A type invariant that is proved (section 4) and that no mutant of a run needs is not checked again in the run.

Deadlock is not checked where every process or request happens once and then
nothing is left to do; it is checked for `bear_spaces`, `monitor` and `bearnet_panel`.

Fairness is stated where the code justifies it:

- `PolicyActions!FairSpec`: each process that was started goes on, because the operating system
  schedules it; a person who clicks or a process that crashes is not fair.
- `CaptureSession!FairSpec`: a handler that can go on does (the async runtime polls it), and an
  engine that was killed exits (SIGKILL).  Nothing is assumed of clients, nor of an engine that was not killed.
- `AgentSession!FairSpec`: a read ends, with a frame or by the socket's time-out.  The code has
  no deadline for the loop that skips other frames (`lib/bidi_transport.py:250-254`), only for one read, so a browser that pushes for ever keeps it busy.
  The model's browser may do that, and `CallsReturn` therefore says that calls return if it comes to stop (`<>[][~Push]_vars`).  Nothing else is assumed of it.
- `MemoryMesh!FairSpec`: a bridge goes on with its steps and begins again, for `--watch` syncs every 20 seconds.
  A kill is not fair; that of `EverythingIsPassedOn` is bounded, as are all kills.
- `AutomationReceipts!FairSpec`: a launcher and an update that were started run on; page loads
  have time limits.
- `ConnectionMonitor!Fairness`: the poll runs on, and strongly so, because it waits for the rules' lock, which is free again and again
  (a mutex of the runtime serves those who wait in turn); a save that was begun ends; time passes.  That the poll runs on takes for granted that `lsof` and `dig` return: the
  loop gives `lsof` no time limit.  Nothing is assumed of clients or of the machine's connections.
- `BearNetPanel!FairPanelSpec`: the same, and a page that is up connects again (`setTimeout`), and takes what arrives.

### Findings

Three runs end in a violation, each of what a comment or a tool of the repository says:

1. `latest_held`: `--latest-held` takes the last record with a hold even if a later record has
   resolved it (`scripts/bearbrowser-resolve-action.py:60`).  With two holds, the
   newer one is decided twice and the older one never.
2. `capture_panel`: `stop` frees the slot before it has told of the end
   (`capture-sidecar/src/server.rs:214`): a start in between is followed by a "stopped".
3. `address_rule`: a rule is keyed on the last two labels of what it is given (`capture-sidecar/src/server.rs:533`), so that
   it matches what the monitor observes (its comment, 529-531); but a connection with no owner's name is observed by its whole address
   (`capture-sidecar/src/netmon.rs:179-180`), and a rule on that label never matches it.

Seven more configurations end in a violation.  Most take a step or two and need no interleaving, and of the others a passing run has an
invariant that says what does hold; they are kept for the trace:

- `MCStatusBar` (`ClicksLeaveADecision`): the status bar passes `--note`, which the resolver does not accept
  (`native/macos/BearBrowserPolicyQueue.swift:102`): no click ever decides.
- `MCSilentLoss` (`NothingSilentlyResolved`): `BBAppendLine` seeks and then writes
  (`native/macos/BearBrowserWebKitLauncher.m:236-237`): a hold another process appends in between is overwritten and leaves the queue.
- `MCDeletedSpace` (`UnassignedTabsStayVisible`): `deleteSpace` shows the tabs it orphans only if the space was active
  (`extensions/bear-spaces/background.js:87`), against "Unassigned tabs stay visible" (143).
- `MCAllTabs` (`AllTabsShowsAll`): `null = "all tabs" / no filter` (`extensions/bear-spaces/background.js:23`), but `showAllTabs`
  shows those of the current window (164): tabs that a switch hid in another one stay hidden with no space active.
- `MCDeniedEvents` (`DenialsStayOut`): "Skip denied policy decisions (don't pollute mesh with blocked attempts)"
  (`scripts/bearbrowser-mesh-bridge.py:171`) tests for `"denied"`, a word that no event has: emit-event accepts `"deny"`
  (`scripts/bearbrowser-emit-event.py:73`).  Denied events of the types that are pushed reach the mesh, where `EverythingIsPassedOn`
  promises nothing of them.
- `MCScope` (`GraphRepopulatesCleanly`): a poll that read the old scope before its awaits (`capture-sidecar/src/netmon.rs:163`) records rows
  of it after `scope_set` has cleared the map "so the graph repopulates cleanly under the new scope"
  (`capture-sidecar/src/server.rs:328-329`).  `ClosedConnectionsFade` says that they go again.
- `MCPanelFades` (`PanelFades`): the panel reads the map only when it is opened and connects to the events anew whenever they are lost
  (`settings/start/bearnet.html:271`, `291`), so what ends in between is shown for ever.

## 4. Proofs

The theorems hold for all values of the constants that satisfy the modules' named
assumptions: any set of processes or lines, any proposals, any bounds.

**`PolicyActionsProofs`**: `TypeCorrect`.  A record is well typed only because the
action its writer resolves was in the log when it was picked (`ParentsExist`), and the log
never shrinks.

The same module has `DecisionsFollow`, `EventsMatch`, `QueuesDecideHolds`
and the refinement `LogIsALedger`.  None of the three invariants is inductive.  `SafetyInv` adds:

- `RunsInv`: what a process was started as, and that a page resolves nothing;
- `RecordsInv`, `LoggedInv`: a record has its writer's parent and decision, its writer
  has logged, and every writer that has logged has a record.  `EventsMatchRecords` needs both: the event is written from
  the process's memory, not from the log;
- `ViewsInv`: what a page or the menu offers, what a process started from one was
  given, and what it then picks, is held.  This is the argument for stale views: a
  view only ever holds positions whose record says "hold", and a record never changes
  its state (a decision is a new record), so age does no harm.

One lemma, `LogsKept`, serves every step that writes neither log.  For the refinement,
`AppendRefines` maps an appended record to `Hold`, `Record` or `Settle`; every other step
leaves the log alone and is a stutter.

**`SharedLogProofs`**: `LogEndsALine`, `DamageIsConfined`, `ToolsLoseOnlyBehindACut`, for
lines of any number and length, with any of them cut short.  A place where a line may stand soundly (`Sound`) is at the start, behind the
end of a line, or behind a cell of a cut one.  The invariant `LogInv` says of a shell line that has sought its
place (`SeekInv`) that every cell beyond that place belongs to a line that
overlapped with it, and that the cell before it ends a line or a cut one unless another shell
line was at work; of a line whose file was replaced (`ReplacedInv`) that it overlapped
with a shell line; and that two that are at work have overlapped (`OverlapInv`).
`PutInv` is the step that writes cells, all of a line or some, be it at the end (a tool) or at the place
sought (the shell); `SpliceFacts` says which cells that changes.  What is the end of a line, or of a cut one, stays so (`EndsStay`).

`FileIsCells` is their type correctness.

**`BearSpacesProofs`**: all five invariants, for any tabs, windows, spaces, slots and bounds.  `TypeOK` is inductive.

`StoreInv` adds `StorageFollowsMemory` and `LoadsAlone`: until a handler starts too early, a load finds the memory
empty, nothing on its way to the store, and what it reads still stored.  `Follows` says of a memory, a store, the writes between them and the
keys that were lost how they agree; `FollowsIssue` and `FollowsDone` show that issuing a write of what memory holds, and the
end of the first one, keep it, and every step is one of these or neither (`GoingKeeps`, `BeginsKeeps`).

`SerialInv` is what handlers that run alone leave.  `Held` is, for each key, every value that the store has or will have when the
writes in flight arrive, and `HeldResolves` says that any three of these resolve together: so a restart may come
before or after any of the writes.  At most one task waits; `OnScreen` says of it, for each place where it can wait, what it has shown and hidden of
the window arranged last, and `InStore` what it has stored or issued.
`deleteSpace`, for instance, waits at `"unassigned"` until its write of the tabs is there, and then no tab has the space in any value held, so the space
may go (`SavesResolve`).  One lemma for each handler shows that it goes from one such place to the next
(`DeleteSerial`, `SwitchSerial`, `AssignSerial`, `StartupSerial`), one that it begins at
one (`HandlerSerial`), one that a tab may be closed at any of them (`CloseSerial`), and one that a write may arrive at any (`WriteSerial`).

**`CaptureSessionProofs`**: `Typed`, `OneCapture`, `NothingUnpermitted`, `EventsAreTrue`, for any
requests and commands.  The inductive invariant adds that a request that was not sent did nothing
(`UnsentDidNothing`), that what is in the slot was started (`OnlyStarted`), that one stop at most ends a
session (`EndedByOne`) and that an end which is still to be told has not been told (`EndIsUntold`).

**`AgentSessionProofs`**, in three layers, each of which uses the ones before it.

`IInv`: `Typed` and `NothingDeniedActs`, the promise the bridge's source makes of itself.
`SentAsPermitted` says of every command on the wire or done that its permit is in `refs` and is its alone;
`PermitIsLast` that where the bridge stands before a send its last event is that permit, and
no command is of it yet; `AttestsDecision` that what is being written is the decision taken.
`CommandsAreAllowed` is about the tables: no action with a command has a class other than "allowed".
Everything the browser does keeps them, for it takes commands and adds none (`BrowserSendsNothing`).

`OutcomesInv`: `DispatchedIsDone`, `CommandsHaveOutcomes`, `ReceiptIsComplete`.  An answer is of a command that the
browser did (`AnswersAreTrue`), ids are not used twice (`IdsAreUnique`), and the bridge takes only the answer to its last command, which is that of its last
permit (`WaitsForLast`), so a late one is passed over.  A command has its outcome in `refs`, or it is the one that is waited for or whose outcome is being written
(`OutcomesFollow`), and once a receipt is written there is no client to send another (`ReceiptIsLast`).

`EvidenceInv`: `ReceiptsShowEverything`, `FollowersAreInOrder`, `FollowersMissCutLines`.  A first half of a line in the file is of an event
that its run refers to, or of the one that is being written, and that one is the last (`HeadsAreAttested`, `WritingIsLast`); the lines of
one run are in its order, each once (`HeadsInOrder`).  Without a fault lines are whole and every event has one (`LinesAreWhole`,
`EventsHaveLines`), which is what `/receipts` needs.  A follower was sent nothing beyond its position (`SentWasRead`), so that what is read next is new,
and where its position is in the middle of a line, it knows of it (`CutIsKnown`).
How `read_events` and the filters go through a file is the operator `Chosen`: the elements at some places, in order.
`NthOf` proves without induction over data that it visits each of those places once and upwards: for the count of places up to a given one,
the least place with a count of k or more has a count of exactly k.

**`MemoryMeshProofs`**: nine theorems, one for each property of the run but liveness, and the refinement.  `IInv` has a part for each file.

- `CandidatesInv`: a decision that someone has chosen, or a page offers, was pending in the first `seen` records of the log
  (`ChoicesAreSound`, `PageIsSound`): that is all a view promises, and so a second decision needs an old one.  For events, `ToldOnce` counts none
  twice, and `UntoldAreCounted` has no more records without an event than tools between their two appends or killed there:
  a comparison of cardinalities, kept by each step.
- `BridgesInv`: what a bridge holds in `local` was passed on, whichever database it has read (`HeldWasPassedOn`); undisturbed, it is everything
  that was (`OneBridgeHolds`), at each of its positions, the emptied database included.
- `SyncersInv`: between the cursor on disk and what a syncer has read, every line is in its batch or was handled (`SyncersHandle`);
  undisturbed, its batch and the lines forwarded do not meet (`OneSyncerForwards`), but for lines whose emit has failed, which may have an event
  and be forwarded again.
- `RejectedHaveACause`: what the verifier rejects of the tool's records has an empty actor, and nothing else.
- `CandidatesAreALedger` maps an appended record to `Record`, `Hold` or `Settle`, by its kind and whether it names another; every other step is a stutter.

**`AutomationReceiptsProofs`**: `OnlyCoveredSessionsRun`, `LogAndFileAgree`, `RevocationsStay`.  `AnswersAreRecorded` ties the exit code that a launcher goes by
to the decision the engine recorded for it and, for a hold, to the queue; `ReceiptsAreMade` says what is in file and log at each of a launcher's positions;
`WrittenInTurn` describes a receipt that nobody disturbed by the one program which is writing it, step for step; `RevocationsAreRead` says that what
reads a revoked receipt writes it back as revoked.  The assumption `ProcessAssumption` says that a launcher is
none of the engine's other callers: they are different programs.

**`BearNetPanelProofs`**, for any connections, labels, requests, and bounds of the map, the grace period and the channel:

- `MonitorTypeCorrect` includes the cap of the map, `RulesKeep`, and `LiveIsKept`, an action property.  `RulesInv` has one request at most that saves
  (`OneSaves`), for which memory already says what it was asked to and, of every other undamaged rule, what was meant (`MemoryTells`); a
  file that is whole says what was meant, and one that is not is being written or has damaged everything (`FileTells`).  `MonitorInv` adds
  to the types of the poll and of the requests, position by position, what they hold (`PollInv`, `CallInv`), and `GoneIsOld`: what is still to be reaped was not
  listed by this poll and, if it is in the map, has been past its grace period ever since the snapshot.  That is the argument why the poll may remove from the snapshot
  without looking again: records are made new by the poll, of sockets, and by the hook, of hosts, never of one another's keys, so only the
  poll could refresh a socket's record, and it does not while it reaps.
- `PanelImplementsMonitor`: what the panel does is invisible to the monitor, so that its theorems hold of both.
- `PanelTypeCorrect` and `GhostsAreExplained`.  `NoGhosts` strengthens the property by what is under way.  Of a key that the map has not and that is not
  untold, no record is about to be announced; and if the key is shown, or a reply or an event on its way will show it, then the last event about it
  is its end.
  Events are added at the end, taken from the front or skipped anywhere; `AppendSpeaks`, `TailKeeps` and `RemoveKeeps` say what each does to
  the last event about a key, and `SendKeeps` puts them together for every step that sends.

Each inductive invariant was checked with TLC on the instance of section 3 first.

Some assumptions name what a CONSTANT stands for rather than restrict the code: that the "no event" of a run is not an event
(`NoEventAssumption`), that events of the memory tool are none of the others' (`KindsAssumption`), that launchers, callers and updaters are
different processes.

What is only model-checked: liveness and enabledness, which are beyond the proof system
(`StopEndsTheCapture`, `CallsReturn`, `EverythingIsPassedOn`, `SessionsAreSettled`, `ClosedConnectionsFade`,
`FlagsFollowTheRules`), and the disagreements of section 3, which are TLC's behaviours.  Every invariant and the refinements that a passing run checks are proved.

## 5. Not modelled, and why

- *IoT sidecar*: real concurrency, still to be modelled (section 6).
- *BearNet panel*, beyond its table of connections: drawing and counts.
- *Native shell*, beyond its appends: user interface and WebKit delegates, and a socket that relays text.
- *Rendering*, of the sidebar and the sidecar's HTML; wording of summaries, receipts and messages; `--status` of
  the mesh bridge and `bearbrowser-history.py`, which only read and print; the YAML readers of bridge and engine, except for
  what the engine's own one does to a word in quotes.
- *Settings actors*, *BearContainers*: event forwarding with almost no state of their own.
- *Lookups and OSINT*: stateless queries.
- *Source patcher*, build, packaging, release, remote-settings mirror: scripts run by hand or in CI, one
  file after the other; pure I/O.

Three things the models show that are not stated as findings, because no property can be violated by the code alone:
a launcher whose session is denied creates no receipt, and a revoked session runs on, where
`docs/runtime-automation.md:93-94` has a receipt and an end; the status `failed` that the launcher gives
is none that the verifier accepts (`LogTellsTheFile` says so); and what the mesh bridge writes to `candidates.jsonl` is not
pending for anyone and does not verify (`VerifierRejectsMeshOrNoActor`, which `MemoryMeshProofs` proves).

## 6. Plan

Done: `HoldLedger`, `PolicyActions`, `SharedLog`, `BearSpaces`, `PolicyGate`, `CaptureSession`, `ActionContract`,
`BidiTransport`, `EvidenceStream`, `AgentSession`, `MemoryCandidates`, `MeshBridge`, `BlockerSync`, `MemoryMesh`,
`PolicyEngine`, `AutomationReceipts`, `Firewall`, `ConnectionMonitor`, `BearNetPanel`, and the proof modules of section 4.

Next: `IotSidecar`, composing `PolicyGate`: commands that race in the cache.
