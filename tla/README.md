# A verification project for the dsh gateway

TLA+ specifications of the gateway, the agents it relays to and the supervisor of each machine, model-checked with TLC on
small instances and, where marked, proved with TLAPS for every value of the constants. Everything is translated from the
source; paths below are relative to the repository.

Run, in this directory:

    tlc -workers 2 -config MCNodeRegistry.cfg MCNodeRegistry
    tlapm NodeRegistry_proofs.tla

and likewise for every other run of `PROJECT.json` and `*_proofs.tla`. `AuditTrail` and `NodeLink` need no definitions for
their instances, so they are run themselves, with `AuditTrail.cfg` and `NodeLink.cfg`. `PROJECT.json` lists the runs with their modules, configurations and
properties, every mutant, the source lines of every definition, the theorems and the hazards.

## 1. Inventory

The **gateway** (`apps/gateway`) is one Node process on a SQLite store. Machines behind NAT connect out to it: the
**console agent**, a plugin inside dsh, and the **supervisor**, a process of its own that starts and stops dsh. Browsers
reach a machine's console through the gateway.

    browser --HTTP/WS--> gateway (router, auth, registry) <--WS-- console agent --HTTP/WS--> dsh
    portal  --HTTP-----> gateway (control API)            <--WS-- supervisor ----spawn----> dsh

| component (source) | state it keeps | operations | correct when |
|---|---|---|---|
| Node registry (`apps/gateway/src/nodes.ts`) | live entry per machine and role, relay channels, lease timers; rows and pairing codes in the store | attach, onboarding, approve, revoke, delete, heartbeat, expire, relayStream, relayWsOpen, stop | the live map, the store and the channel maps agree, whatever closes or reconnects when; nobody waits on a channel whose node is gone |
| Daemon-control registry (`daemon-control.ts`) | pending requests with timers | register, settle, failAll | every request settles exactly once |
| Supervisor (`plugins/dsh-gateway-agent/src/daemon.js`) | state, child, token, `daemon-state.json` | start, stop, restart, readiness wait, refresh, child exit, bootstrap | the state it reports follows dsh; one dsh; requests are answered |
| HTTP relay router (`router.ts`) | response head and buffer of one relayed request | onResponse, onData, onEnd, onError | one head, then the request's own body in order, then one end |
| Console agent connection (`index.js`, `config.js`) | socket, timers, tables of request bodies and upstream sockets, the shared `config.json` | connect, handshake, reconnect, watchdog, onboard; relay frames | one attempt at a time and in the end a link; frames reach the upstream they belong to, across reconnects and gateway restarts |
| Sign-in throttle (`login-throttle.ts`) | failures and locks per account and address | hydrate, check, recordFailure, recordSuccess, prune | no attempt is admitted beyond a limit or during a lock, except those under way when it was reached; prunes and restarts forget neither |
| Sessions (`auth.ts`, `authz.ts`) | session map | create, get (renews), bindMachine, evict, destroy | nobody comes in past either limit; a session in use is not dropped for one that is not |
| Users, machines, assignments API (`control.ts`) | rows of the store | create, edit, password, delete, approve, revoke, assign, export | roles are given by those who may; no grant outlives its rows |
| Audit retention (`audit-retention.ts`) | one purge under way; rows | interval and lazy purge, in batches | the trail has no holes, stale rows go, an export beside it repeats nothing |
| Supervisor control (`supervisor-control.js`) | the pid in `daemon-state.json` | start, stop, apply | one supervisor, and no more than what went wrong accounts for; what the card answers is so |
| Updater (`updater.ts`) | the checkout, the reload timer | check, update, reload | an update answered "ok" is served; a check, also one whose reads failed, does not overstate what is new |
| Frame codec (`packages/protocol/src/codec.js`) | partial frame | encode, parse | parsing is independent of chunking |
| Store (`packages/store`) | tables | synchronous calls behind an async interface | each call is atomic |

The registry owns the links and hands frames to the router and to browsers; the agent forwards them to dsh on channels that the gateway
numbers. Sessions read the users' rows anew at every use, so the API's changes bind at once. The API deletes a user's throttle
row and appends the audit events that the retention trims. The settings card starts and stops the supervisor through its pid file,
and the plugin and the supervisor share the identity in `config.json`. The updater ends the whole gateway process, and with it
sessions, channels and pending requests.

Behaviours that are hard: a socket replaced by a reconnect whose late `close` event acts on the machine; half-open
connections and lease expiry; a timeout racing an answer; a restart of the gateway with messages in transit; overlapping
lifecycle requests, each suspended at probes, scripts and exits; a supervisor restarted while dsh runs; two processes that write
one file without a lock; requests that check, await a hash and write; pids that are used again; a purge between two pages of an
export; a git that hangs or fails half-way. `PROJECT.json` lists each at the line where it bites.

## 2. Modules

| module | models | status |
|---|---|---|
| `RequestLifecycle` | abstract: a request is issued once, answered at most once (`SafeSpec`), and in the end (`Spec`) | done |
| `NodeRegistry` | `nodes.ts` and `daemon-control.ts`, with the store's rows they use and the process's stop, exit and restart | done |
| `NodeRegistry_proofs` | theorems about it | done |
| `MCNodeRegistry` | instances | done |
| `Supervisor` | `daemon.js`: operations, readiness wait, refresh, exits, bootstrap | done |
| `Supervisor_proofs` | theorems about it | done |
| `MCSupervisor` | instances | done |
| `LoginThrottle` | `login-throttle.ts` with the sign-in handler, the rows of the store, deletion of users, exit and restart | done |
| `LoginThrottle_proofs` | theorems about it | done |
| `MCLoginThrottle` | instances | done |
| `Accounts`, `Accounts_proofs`, `MCAccounts` | users, machines and assignments: the routes of `control.ts` that change them | done |
| `Sessions`, `MCSessions` | the session map and its uses; extends `Accounts`, whose actions change the rows it reads; its theorems are in `Accounts_proofs` | done |
| `Tunnel`, `Tunnel_proofs`, `MCTunnel` | the data plane: router, channels of the registry, links, the agent's tables, dsh | done |
| `FrameCodec` | the frames of a link, byte by byte; checked by an assumption of `MCTunnel` | done |
| `AuditTrail`, `AuditTrail_proofs` | retention, the store's rows and the export | done |
| `SupervisorControl`, `MCSupervisorControl` | saves of the settings card | done |
| `NodeLink`, `NodeLink_proofs` | both connections of a machine, their file, and admission | done |
| `Updater`, `MCUpdater` | updates, checks and the reload | done |
| `Processes_proofs` | theorems about `SupervisorControl` and `Updater` | done |

### NodeRegistry

| variable | code |
|---|---|
| `machine`, `daemonCol`, `code` | rows of the store: machine status, `daemon_state`, pairing codes |
| `proc`, `boots` | the gateway process |
| `sock` | each connection: phase, who authenticated, whether the peer is still there (`"tail"`: gone, one frame still in transit) |
| `nodes` | `NodeRegistry.nodes`, keyed by machine and role |
| `relay`, `fate` | `streams`/`streamsNode`/`wsChannels`/`wsChannelNode`; what the caller was told |
| `control`, `answer` | `DaemonControlRegistry.pending`; what the caller was told |
| `admitted` | history: the code each machine was admitted with |

An action is one event of the event loop. Handlers such as `handleOnboarding` await store calls only; the gateway's store is
synchronous SQLite behind an async interface, so these awaits are microtasks and no other event comes between. That is why a
handler is one action, and the reason is specific to this store. An entry's `via` is the socket its request was sent
on; the code keeps the machine only, which is what the findings of section 4 are about. The agent, the browser and the
network are the environment: any message they can send may come, late ones too.

HTTP flow control, the bytes of frames, listing and the choice of a single node (`singleNodeId`) are left out. A relay refused at once
("node not connected") leaves no state and is not an action.

### Supervisor

An operation is a process: `op[o].pc` is the await where `bootstrap`, `start`, `stop` or `restart` is suspended. Requests
overlap, because `handleControl` is not awaited. An action is the code between two awaits. A continuation that waits for a
microtask only (`Resuming`) runs before any other event (`Idle`); when two are resumed by one event, `Rank` gives the
order of the promise queue.

Assumptions of the model, each a choice to be known when reading its results:

- A status script tells whether some dsh is up at the moment it looks; its answer arrives later (`probing`, then `probed`).
- The dsh that a start script launches is there when the script ends, if at all.
- `daemon.json` does not change, except its "enabled" box, which every `reloadConfig()` may find either way.
- A dsh that boots comes up only while no other is up (the port is taken), and may end at any time.
- Somebody starts a dsh by hand only while none is alive.
- A spawn error is a child that exits at once, or a crash of the supervisor.
- A request's answer counts as given when it is sent; what becomes of it in transit is the registry's.
- A supervisor starts with any `daemon-state.json` an earlier one may have left.

### LoginThrottle

| variable | code |
|---|---|
| `accounts`, `ips` | the maps of `LoginThrottle`; `held`: there is an entry |
| `accountRow`, `ipRow` | the rows of the store; `held`: there is a row |
| `attempt`, `at` | each sign-in: where it is, for which account, from where, and when it failed |
| `pardoned`, `promised` | history: failures that no longer count, because a lock, a success or a deletion settled them; until when an account is locked |
| `deleted` | history: entries whose row an administrator's deletion took, and that have not been written since |
| `now`, `up`, `boots` | the clock, the process, its restarts |

A sign-in is two actions, `Check` and `RecordFailure` or `RecordSuccess`, since the handler awaits a scrypt in between; whether the
password was right is a free choice. Any other action may come in between: other sign-ins, `Prune`, `DeleteUser`, the end of the
process (the sign-in is then lost). The code keeps time stamps; the model keeps sets of sign-ins, with the
time stamp of each in `at`, which a list of time stamps cannot confuse. Store calls are synchronous, as above.

Assumptions: the clock does not go back; no crash falls between the two writes of one `recordFailure` (both are made in one turn,
and the caller has not been answered). Whether a user exists is not kept, as the throttle goes by the name alone; any
name may be deleted. The Retry-After seconds are left out.

`StoreAgrees` compares row and entry both ways: a lock or a failure that is only in memory violates it, and so does a row that is left
without its entry. Accounts in `deleted` are excepted while they have no row, because `control.ts:229` deletes the row and leaves the
entry; section 4 (`DeletedLockout`) shows what that does.

### Accounts

`role`, `machine` and `assigned` are the rows of the store; `request` is what awaits a scrypt (`POST /gw/users`, a password reset by
`PATCH`, `POST /gw/me/password`), as it was read when it arrived; `appointedBy` is a history: the role of whoever last wrote a row.
Everything else is one action, as store calls are synchronous. `POST` takes any text for a role (`control.ts:145`), so the rows
may hold roles that are none of the three. Whether a password is right, or valid, is a free choice.

### Sessions

`open` and `session` are the map of `SessionStore`; `verifying` the sign-ins in their scrypt; `lastUse` a history. `Use` is any request
let in under a token, the upgrade of a browser's socket included; `OpenConsole` binds the session, which also renews it without
asking whether it has expired, in the same turn in which it was found alive. `authorizeConsole` reads the user's, the machine's and
the assignment's rows. Deleting a user leaves its sessions, which then name nobody.

### Tunnel

| variable | code |
|---|---|
| `channelSeq`, `streams`, `wsChannels`, `node` | the registry's |
| `response` | what the router writes for a request: head, what is held back, what was sent |
| `browser` | a browser's socket |
| `link`, `down`, `toGateway` | each connection of the agent and the frames in transit, in order |
| `agent`, `pendingBodies`, `wsUpstreams` | the agent's `ws` and its tables by channel |
| `upstream`, `socket` | what dsh got and sent |

`channel` of a party is the number it was given, until the process ends; the `channel`, `link` and `boot` of what dsh is asked say
where the closure of `forwardUpstream` or `handleWsOpen` answers, `boot` being a history.

A link is lost on the agent's side at once; the gateway may read what was in transit and notices later. A restart numbers channels
from one again while the agent keeps its tables. What the model contains and the properties except: an entry of `wsUpstreams` that a
restart of the gateway left behind (`index.js:203` hands it a later request's body); the same of `pendingBodies`
(`index.js:359`, see `StaleBody` below); messages of a browser's upstream go on over
the new link after a reconnect, with a gap; channels that the gateway drops are not told to the agent; a character cut by two chunks of a
page held back is garbled (`router.ts:145`).

### AuditTrail

`ts` is every event ever appended, by row id; `kept` the rows that are there; `purge` the flag, the pass under way with its cutoff and
rounds; `export` one export with its offset and what it sent. The clock is not set back, so the order of ids is that of times.

### SupervisorControl

`proc` says what each pid is: free, a supervisor running or exiting, or a stranger. `pidFile` is `supervisorPid` of
`daemon-state.json`, which outlives its process; a process that dies while it writes leaves the file half written (`Vanishes`). A save is
suspended at each await. Nothing is assumed of when a supervisor registers, and four things that the code lets happen are in the model,
each counted in the history `mishaps`:

- a save begins before another has answered (`overlapping` names them): both may find no supervisor;
- a save reads the state file while the supervisor is rewriting it, and finds no pid in it: `readJson` answers `{}`;
- `ps` (or powershell) fails, is missing or takes more than 5 s, and a live supervisor is "not ours": `Look` may answer FALSE of it;
- the 10 s of `startSupervisor` pass before the supervisor it spawned has written its pid, for `bootstrap()` awaits the status script first
  (up to 30 s, `daemon.js:743-766`).

After any of them a later save starts a second supervisor, refuses to stop the one that runs, or reports "failed" of one that comes up.
`OneMorePerMishap` says that nothing else does, and that each makes one more at most, whatever dies, is stopped or reuses a pid in between;
without mishaps it says "never two". `AnswersAreSo` is stated likewise. Both are for machines without a service manager. A stop may fail by
the exception of `kill()` or because SIGKILL does not end the process (`StopFails`); a spawn may throw. There is one dsh home:
`isOurSupervisor` tells supervisors of different homes apart by nothing, and the model has none of another.

### NodeLink

`link`, `timer` and `memory` are the fields of `Connection` and of the supervisor's connect loop; `pairing` the code kept in the
console's closures; `config` the file; `job` the read-modify-write each process is in the middle of (read, emptied, filled), for there
is no lock; `stray` codes on sockets given up that may still reach the gateway; `issued` and `machine` the gateway's rows. Delays,
the back-off, URLs that do not parse (the console is then idle, `index.js:188-192`) and the heartbeat's content are left out. An expired, an unknown and a used code are refused alike. A key
travels with its machine id. There is one gateway.

### Updater

`head` and `origin` are the checkout's refs, `remote` the branch of the remote, `loaded` the commit that the process was
loaded from; commits are numbered along the branch, which is only fast-forwarded. Each git command is awaited; `git` says what the
`git pull` of an update does, which outlives the gateway. The loop of `docker/entrypoint.sh` is assumed: without it the exit is final.
The detached build and the package's version are left out.

A check catches the failure of every command but its fetch, and still answers ok: the branch is then taken for "main", the head or the tip
for none (`NoCommit`), a count for 0. `own`, `counted` and `shared` are histories that say so: whether the branch fetched was the one
checked out, whether the count succeeded, whether others moved refs meanwhile. Of another branch anything may be reported. `ReportsAddUp`
holds of every check of the own branch, disturbed or not: the tip is no older than the question, and what is reported as behind is never
more than lies between head and tip; it is exactly that if nobody interfered and no read failed. `applyUpdate` reads the branch too
(`updater.ts:198-203`), and pulls "main" when it cannot; the model takes the branch checked out to be read there, or to be main.

### FrameCodec

`encodeFrame` and the parser over sequences of bytes, the parser's loop as a recursive function of the buffer. `MCTunnel` assumes, and TLC
evaluates, that pairs of frames at the boundaries of their fields survive every cut into three chunks; so `Tunnel` may take a
frame as one message.

## 3. Runs

| run | instance | what it shows |
|---|---|---|
| `registry` | 2 machines, 3 sockets, 2 codes, 1 relay; symmetric | the live map only names open sockets of the right machine and role; the status used for admission equals the store's; no channel outlives its socket; codes are one-time; a late close of a replaced socket keeps the fresh entry; one answer per relay |
| `registry_live` | 1 machine, 2 sockets, 1 relay, 1 lifecycle request, 1 restart; fair | every lifecycle request is answered exactly once (implements `RequestLifecycle!Spec`); nobody waits on a request no map holds; vanished nodes leave, silent relays end, the portal does not stay at "starting" |
| `supervisor` | 2 requests of any kind, 1 boot, 1 refresh in flight, 1 probe per wait, 4 setups; symmetric | "starting" always has an operation or a wait behind it (if there is something to start with); without overlaps a live child is never lost sight of, so there are never two |
| `supervisor_live` | 1 request, the boot, 1 refresh, all 12 setups; fair | every request is answered exactly once; "starting" ends; with a status script, "running" does not outlast dsh and a live dsh is noticed |
| `throttle` | 4 sign-ins, 2 accounts, 2 addresses, limits of 2, windows of 3 and 2, locks of 1 and 2, 3 ticks, 1 restart; symmetric | types; rows and entries agree both ways, but for accounts deleted since their last write; nobody is admitted during a lock, nor with the limit of recent failures reached |
| `accounts` | 2 users (one the bootstrap admin), 1 machine, 2 requests in their scrypt; symmetric | nobody is system admin but by a system admin, however requests overlap; no grant outlives its user or machine |
| `sessions` | 3 tokens, 1 user, 1 machine, 2 places, idle 1, absolute 3, 4 ticks; symmetric | nobody is let in past either limit; a session in use goes only by sign-out, with the process, or to newer ones in use |
| `tunnel` | 1 page posted with a body in 2 chunks, buffer of 1, 1 browser with 2 messages and 1 reply, 2 links, 1 restart | what a browser gets is its own, in order, whole if it ends well; sockets hear their own browser, in order |
| `audit` | 4 events, 3 ticks, retention 1, batches and pages of 2, failures, exits; fair | the trail is cut at its old end only; an export sends nothing twice and misses no more than was purged; stale rows go |
| `supervisor_control` | 3 saves, overlapping or not, 3 pids that are reused, 2 mishaps, 1 crash, 1 stranger; symmetric | no more supervisors than one and the mishaps account for; what a save answers is so |
| `node_link` | 2 codes, 2 machines, 2 edits, 1 loss (cut, silent or never answered), 1 restart; fair | one socket or timer per process; in the end both are joined if the file is usable, as the same machine if there was one onboarding |
| `updater` | 2 updates, 1 check, 1 push, 1 death; fair | an "ok" is served in the end; every update ends; a check never overstates what is new, and is exact if undisturbed |

Type invariants are checked by `throttle` and proved for `NodeRegistry`, `Supervisor`, `LoginThrottle`, `Accounts`, `Sessions`, `Tunnel`,
`AuditTrail`, `SupervisorControl` (in its invariant), `NodeLink` and `Updater`.

**Bounds and why they are enough.** `Machine` = 2 tells "of this machine" from "of another". `Socket` = 3 gives a console, its
replacement and a supervisor or a second machine: the shortest histories in which a late close can do harm use two of one
key. `Code` = 2 with two machines lets a code be tried twice. `Channel` = 1 because channels do not interact, save
by being dropped together; the proofs, those of `Tunnel` too, cover any number. `MaxBoots` bounds restarts; 1 is what a stale code or a frozen state
needs. `Reported` lists the daemon states that supervisors report in the instance: one transient, one settled. In
`MCSupervisor`, two requests are the fewest that overlap, and the boot with its wait and the refresh are two more
concurrent parties; `Attempts` = 1 makes every probe the last one too, and a wait of `Attempts` = n repeats the same step.
`Control`, `Bootstrap` and `Refresh` bound requests, boots and refreshes in flight (the code does not keep a slow refresh from
overlapping the next: two can be set). In
`MCLoginThrottle`, two accounts and two addresses tell the two limits apart; a limit of 2 leaves room for an attempt under way
when it is reached; four sign-ins are two to reach a limit, one under way, one refused. The windows differ so that a
failure ages out for the account and not for the address, both within `MaxTime` = 3, and the second lock is longer than the first.
In `MCAccounts`, two requests in their scrypt overlap each other and everything else; three parties are told apart by their roles, not
their names. Three sessions for two places are the fewest that evict. `MCTunnel` has a buffer of one chunk and responses of up to two, so
that a page both fits and outgrows it; the second link and the restart make channel numbers collide. A batch and a page of two with
four events let a purge take several rounds and an export several pages. The instance of `NodeLink` has a second code and machine so that a
second onboarding can go elsewhere; `OneMachine` is stated for behaviours with at most one. A link is lost, falls silent, or is never answered; `Rejoins` and `OneMachine` except the last, see `MuteUpgrade` below.
Two updates overlap in every way, a third repeats that; one push is what a pull can bring. One check beside them is disturbed by their pulls;
two checks, which fetch and so disturb each other the same way, are left to the theorem. In `MCSupervisorControl` three
pids can exceed the bound after no mishap and after one, not after two; the second mishap is there for what a save answers, and for more
pids `OneMorePerMishap` is left to the theorem.
When an instance has used up its sockets, requests, sign-ins, time or boots it may stop, so deadlock is
not checked.

**Symmetry** is used in safety runs only.

**Fairness.** Registry: the sweep timer fires (`Expire`), a lease lapses if nobody can renew it, a control timer fires, and a
socket that the gateway closed is eventually gone, since `ws` waits 30 s for the peer's close frame. Relay timers, nodes and browsers
are given none: `SilentRelayEnds` holds by the lease alone. Supervisor: scripts end (`runScript` kills
them after 30 s), timers fire, events of the process are delivered, the refresh comes round every 15 s. Nothing is assumed of
dsh, of the gateway, nor that a supervisor is started again. A stop of a child that ignores every signal is answered because the
grace after SIGKILL is a timer. Audit: the interval fires and a batch that was begun ends, in success or failure; the store fails finitely
often. NodeLink: timers fire, events of sockets are delivered, the gateway answers what it hears, a connection attempt that nobody accepts
is ended by the operating system, and a read-modify-write of the file goes on; nothing is assumed of the gateway's admins nor of
the network, whose losses are finitely many. Updater: timers fire, git commands that read end or are killed, the loop
restarts the gateway; nothing is assumed of the pull itself, which may hang until it is killed.

**Mutants.** Each property is shown to depend on the code: `PROJECT.json` names, for every property of every passing run, a definition and a
defective form of it (the operators marked `defect` in the modules) under which TLC finds the property violated.

## 4. Where the code and its comments disagree

These instances are kept beside the runs; each checks one property that a comment or the interface promises and that TLC finds
violated, e.g. `tlc -workers 2 -config StaleClose.cfg MCNodeRegistry`. None is a property of a run.

| configuration (module) | property | what TLC shows |
|---|---|---|
| `StaleClose` (`MCNodeRegistry`) | `DroppedOnlyWithItsNode` | `nodes.ts:614`: the close of a replaced socket drops the relays that run on the fresh one, as `dropChannelsForMachine` goes by machine; 611–612 say that a late close must not evict the fresh entry |
| `CrossFail` (`MCNodeRegistry`) | `FailedOnlyWithItsSupervisor` | `nodes.ts:616` (280, 293): `failAll` fails requests to other machines' connected supervisors; `daemon-control.ts:5–7`: "when the supervisor disconnects" |
| `ReservedClose` (`MCNodeRegistry`) | `BrowserIsNeverForgotten` | `nodes.ts:388`: a close code such as 1006, which the agent forwards, cannot be sent; the error is swallowed and the browser's socket stays open on no channel |
| `SeededCode` (`MCNodeRegistry`) | `OneMachinePerCode` | `main.ts:169`: every boot makes a consumed seeded code usable again; `nodes.ts:120`: "one-time" |
| `StuckStarting` (`MCSupervisor`) | `StartingIsAnAction` | `daemon.js:398`: `start()` throws in state "starting" when there is nothing to start with, and the refresh skips that state |
| `StaleWait` (`MCSupervisor`) | `StaleWaitNeverWins` | `daemon.js:437`: a wait superseded during its probe still sets "running"; 254: "a stale readiness wait cannot win" |
| `DeletedLockout` (`MCLoginThrottle`) | `DeletionClearsLockout` | `control.ts:229`: deleting a user clears the stored row of the throttle, not the entry in memory; who gets the name next is locked out for the old failures |
| `PartialEdit` (`MCAccounts`) | `OnlyFieldsPresentAreTouched` | `control.ts:199`: a password reset writes back the role it read before the scrypt; 157: "only the fields present in the body are touched" |
| `ExportSkips` (`AuditTrail`) | `ExportIsComplete` | `control.ts:82`: a purge between two pages shifts them and rows are skipped; 407: "streams every matching event" |
| `UpstreamReset` (`MCTunnel`) | `FailureEndsOneResponse` | `index.js:434`: an upstream that fails in mid-response makes the agent send a second head; `writeHead` throws in the gateway's message handler (`router.ts:127`) and the process ends; `router.ts:95`: "just close; the client sees a truncated body" |
| `StaleBody` (`MCTunnel`) | `BodiesAreOwn` | `index.js:360`: a request whose body had not come when the gateway was restarted stays in the agent's table; another browser's message on the same new channel number, sent to a link that its "open" never reached, becomes its body and dsh is asked with it; 358: "Request bodies arrive as binary frames after the relay_request JSON" |
| `OverlappingSaves` (`MCSupervisorControl`) | `NeverTwo` | `supervisor-control.js:110`: one mishap is enough for a second supervisor: saves at once that start one each; a `ps` that fails (48); a supervisor that registers after the deadline (126); a state file read half written (70). 106: "Start the supervisor unless one is already running" |
| `RecycledPid` (`MCSupervisorControl`) | `StrangersAreSpared` | `supervisor-control.js:153`: SIGKILL goes to whoever has the pid eight seconds after it was identified; 8–10 say that it is checked |
| `LateRestart` (`MCSupervisorControl`) | `RestartsAreReported` | `supervisor-control.js:172`: a service manager that takes longer than 1.2 s is not reported; 164–166 say it is |
| `LostIdentity` (`NodeLink`) | `IdentityIsKept` | `config.js:44–47`: an unlocked read-modify-write of one process undoes the identity that the other stored; `daemon.js:610`: "so later restarts reconnect instead of re-onboarding" |
| `MuteUpgrade` (`NodeLink`) | `SilenceIsNoticed` | `index.js:321`, `daemon.js:675`: the watchdog looks at open sockets only; one whose upgrade is never answered stays for good; `index.js:317`: "Close the socket if the gateway has been silent past the watchdog window" |
| `StalePull` (`MCUpdater`) | `HeadIsServed` | `updater.ts:205`, `297`: a step after the pull fails, or a pull outlives the reload of another update; the gateway serves older code than its checkout; 8–12: the reload is there so that it does not |

`OneChild` is stated for histories where operations do not overlap and SIGKILL works (`disturbed` is the history variable that
says so). Two overlapping starts can both spawn: both look at `this.child` before either assigns it (`daemon.js:354`, `360`, `388`).

## 5. What is proved

`NodeRegistry_proofs` holds for every set of machines, sockets, codes, channels and requests and any `MaxBoots`, from the assumptions named
in `NodeRegistry`: the "no such" constants are not elements of their sets, seeded codes are codes, reported states are states.

The invariants of the runs are not inductive alone. The inductive one is `IInv`, in three parts, each preserved given the ones before:

1. `Coherent`: `TypeOK`, `LiveEntryIsAttached` and `AdmissionMatchesStore`, with `EntryIsAdmitted`: the status of an entry is "pending" or
   "approved". Without it the induction could start from a live entry of a machine that has no row yet, and a registration would
   then make the row and leave the entry's status behind. A close can only be shown to leave other entries alone if every
   entry's socket authenticated as the entry's key, which is why the three go together.
2. `RelaysKept`: a channel in the maps has a caller who waits, and was opened on a socket of its machine that has not closed; an HTTP
   caller who waits is in the map. The machine matters: `SocketClosed` drops by machine, so a channel's socket must be one of that machine.
3. `ControlsKept`: the same of lifecycle requests, whose sockets are supervisors' (a close fails requests only if it is one).

| theorem | says |
|---|---|
| `TypeCorrect` | `[]TypeOK`; in particular a stored daemon state is never "starting" |
| `EntriesAreAttached`, `AdmissionIsCoherent` | the live map against sockets and against the store |
| `NoRelayIsLeftBehind`, `NoControlIsLeftBehind`, `NobodyIsForgotten` | nobody waits on a dead socket, or in no map |
| `Inductive` | `[]IInv` |
| `RelaysSettle`, `ControlsSettle` | both registries implement `RequestLifecycle!SafeSpec`: every step maps to a step or a stutter |
| `RelaysNeedApproval` | action property: a channel opens only to an approved machine |
| `FreshEntryIsKept` | action property: a late close of a replaced socket evicts nothing (`CloseStep`: only a close event or the exit of the process closes a socket) |
| `IssuedCodesAreOneTime` | with `SeededCode = {}`: no two machines with one code. The hypothesis is needed: `SeededCode.cfg` |

The action properties and refinements follow from `IInv` and a lemma on what one step can do to one caller
(`FateStep`, `AnswerStep`).

`LoginThrottle_proofs` holds for any accounts, addresses and finite set of sign-ins, positive limits and windows, any sequence of positive
back-offs, any clock bound and any number of restarts.

| theorem | says | by the inductive invariant |
|---|---|---|
| `ThrottleTypes` | `[]TypeOK` | itself |
| `LocksHold` | action property: nobody is admitted to an account during its lock | `LockKept`: row and, while the gateway runs, entry carry every lock that stands. The entry alone is not inductive: a restart reads the row |
| `GuessesCounted` | action property: who is admitted finds fewer recent failures than the limit, of the account and of the address | `AccountCounts`, `AddressCounts`: every failure that counts is in the entry and in the row. `check()` counts the entry's, a superset |
| `StoreAndMapsAgree` | `[]StoreAgrees`, both ways; of an account in `deleted` only that it has no row | with `Charged`: only failed sign-ins are remembered. Otherwise recording a failure could change the age of one remembered elsewhere |

`Supervisor_proofs` holds for any requests, boots, refreshes in flight, probes to a wait and setups of `daemon.json`, overlapping in every way.

| theorem | says | by the inductive invariant |
|---|---|---|
| `SupervisorTypes` | `[]TypeOK` | with: a sleeping wait has a probe left; a start script runs only where there is no child command |
| `StartingHasAReason` | `[]StartingIsInFlight` | `StartingHas`, which names the reason: a stop, the start script of the newest start, or its wait on a child that has not gone. Any wait would not do, as a superseded one gives up without a word. An exit during a stop leaves "starting" to the stop (`FlagHeld`) |
| `OneChildAtATime` | `[]OneChild` | `Undisturbed`: one operation at a time, its child the only one, a killed one waited for, and no child from `start()`'s first look on |
| `ControlsAnsweredOnce` | implements `RequestLifecycle!SafeSpec` | `Once`: who is under way has not been answered |

`Accounts_proofs` holds for any users, machines and requests under way.

| theorem | says | by the inductive invariant |
|---|---|---|
| `AccountTypes` | `[]TypeOK` | itself |
| `GrantsHaveRows` | `[]AssignmentsHaveRows` | itself, with the types: deleting cascades, and a write after its scrypt only ever adds a user's row |
| `SystemAdminsAppointed` | `[]SystemAdminsAreAppointed` | with the same of what the requests under way will write: a request that carries "system-admin" was made by one |

The same module proves the theorems of `Sessions`, for any limits and any finite set of tokens, from `SessionsHold`: its types, and that a
session, open or not, was issued before now and expires `idleTTL` after its last use (`Renewed`).

| theorem | says |
|---|---|
| `SessionTypes` | `[]SessionsTypeOK`; in particular the map never holds more than `sessionMax` sessions |
| `LatecomersStayOut` | action property: nobody is let in past either limit. The renewal keeps `issuedAt`, and `Renewed` turns `expiresAt` into the last use |
| `SessionsInUseAreKept` | action property: a session in use goes only by sign-out, with the process, or to `sessionMax` others in use and not older. `EvictedIs` says what `evict()` leaves, by cardinalities: one goes, the oldest, and only if all are in use |

`AuditTrail_proofs` holds for any retention, batch, page, rounds and any number of events, failures and exits. `NoHoles` rests on the
order of the clock (times grow with ids) and on the cutoff of a pass lying in the past; `ExportSendsOnce` on the offset being at most
the rank of the first row not yet sent. `ExportMissesLittle` (`[]ExportGoesForward`) adds that an export misses no more than was purged
while it ran: `PurgedCovers` says that the rows sent and gone since are at most those purged. A page that is not full takes all that is
ahead (`ShortPageIsLast`), so what is missed lies behind the offset; at most as many rows lie there as the offset says
(`BehindIsSmall`), which is how many were sent, and those sent that are still there lie behind it too.

`Tunnel_proofs` holds for any finite sets of requests and browsers, any pages and bodies, any number of chunks, messages and replies, any
buffer, links and restarts. Neither property is inductive, for what a browser reads next is in transit, and whether that is its own
depends on who sent it on which channel number before which restart. `IInv` has four layers, each kept given the ones before:

1. `Attached` (with `TypeOK`). The gateway numbers channels one by one, each number with one owner until the process ends. What dsh is
   asked for a party is `Current` (of this process, on that party's channel) or `Past` (of one that ended, and its link is closed). The
   agent's tables may hold old entries, but an entry names a party that dsh was asked for on that very channel. This is what a restart
   needs: numbers repeat, but links do not, and an answer goes by the link its request came on.
2. `Owned`: a frame in transit is of the owner of its channel; going down it opens what is not yet started or carries that owner's data,
   going up it comes by the link of what dsh was asked. And bodies are their requests' own, unless the process has ended since.
3. `FlowingUp`: for a party somebody listens for, the data on its channel is numbered on from what was heard, with no number missing
   up to what dsh has sent while the link is open; heads come before data and the end after all of it. A page held back counts as heard.
4. `FlowingDown`: data for a socket comes after what that was given, in order; and if the socket's link is still the agent's, or has yet to
   be opened, without gaps. After a reconnect there may be one: a message can be lost with its link.

| theorem | says |
|---|---|
| `TunnelTypes`, `Relayed` | `[]TypeOK`, `[]IInv` |
| `BrowsersGetTheirOwn` | `[]ResponsesAreOwn`, by layers 2 and 3 |
| `SocketsHearTheirOwn` | `[]ConversationsAreOwn`, by layers 3 and 4 |

`Processes_proofs`, on `SupervisorControl`, holds for any pids, saves, mishaps, crashes and strangers, with saves that overlap in every way
and every failure above. The count of supervisors is not inductive: a save that overlaps another may still add one it was counted for
when it began, and a save that sees nothing amiss must be known to find what there is. The invariant has three parts:

1. `AloneIsOne`: of the saves under way at most one is not in `overlapping`.
2. `Bounded`: the supervisors, and the overlapping saves that may still spawn one (`Owed`), are together at most one more than `mishaps`.
3. `FileKnows` and `SaveKnows`: unless that sum is at most `mishaps` (`Covered`: one more would still be paid for), the state file names a
   supervisor, or the lone save polls for the one it has spawned; and the pid a lone save has looked up is a supervisor's.

| theorem | says |
|---|---|
| `NoUnpaidSupervisor` | `[]OneMorePerMishap` |
| `AnswersAreTrue` | action property: `AnswersAreSo` |

`NodeLink_proofs`: `LinkTypes`, and `AlwaysOneAttempt` for any number of codes, machines, edits, losses and restarts. It needs one fact more than
its types: only the plugin onboards, so that a job of the supervisor never touches the console's socket.

`Processes_proofs`, on `Updater`: `RefsInOrder`: served ≤ checkout ≤ origin's copy ≤ remote, for any number of updates and checks. `ReportsAreCoherent`
(`[]ReportsAddUp`) from `CheckHolds`, which says what a check knows after each of its commands: its head is not ahead of the
checkout, nor its head and its count together ahead of origin's copy; they are equal as long as nobody interfered and the count succeeded.

So every safety property of the runs is a theorem. Only model-checked: everything under fairness, which is out of the prover's reach
(`ControlsSettleOnce` beyond its safety part, `VanishedNodeLeaves`, `SilentRelayEnds`, `PortalThaws`, `ControlsAnswered`
likewise, `StartingEnds`, `RunningIsRefuted`, `LiveIsNoticed`, `StaleRowsGo`, `Rejoins`, `OneMachine`, `OkIsServed`, `UpdatesEnd`); and the codec,
whose recursion would need an induction that the installed provers cannot instantiate.

## 6. Not modelled

`console-adapt.ts` (text rewriting), the portal (`apps/web`) and the settings card's page (`client.js`), installers and service scripts,
secrets and HMAC (primitives), migrations (generated), wiring in `main.ts` other than seeding, upgrades, shutdown and restart. They
hold no protocol state. Of modelled components: the choice of a single node when a path names none (`singleNodeId`), header
rewriting and statistics of the router, back-off lengths, Retry-After seconds, queries that change nothing, the line codec for JSON
(used by tests only). The escalation of the throttle's back-off is not a property: a prune that finds the failures aged out starts it
over (`login-throttle.ts:168`). Nor is it one that a hung child is not reported as running: the refresh does so (`daemon.js:335`).
