# Formal verification of cloakbrowser-mcp

TLA+ specifications of the bridge process and its parts, TLC configurations
that model-check them on small instances, and TLAPS proofs of what matters most
for every instance. The code is TypeScript on Node.js under `src/src`; every
definition is translated from it, and `PROJECT.json` maps each definition to
its lines.

## The system

`cloakbrowser-mcp` is an MCP server that forwards the tools of an upstream
Playwright MCP child process and adds a managed CDP endpoint: an HTTP and
WebSocket proxy through which a client reaches the Chromium of its session. It
runs over stdio, or serves many sessions over Streamable HTTP, bare or under a
Docker launcher that supervises Xvfb and the CLI.

| component | source | state it keeps | operations | what is hard |
|---|---|---|---|---|
| managed CDP session | `cdp/session.ts` | generation, owner, owner uses, restart promise, pending cleanups, disposing | start, browser and other tool calls, probes, losses, restart, dispose | restarts, calls, probes, deadlines, failing cleanups and disposal interleave at every await |
| bridge server | `server.ts`, `bridge/tools.ts` | phase, tool cache, promises in it, tool count | start, list tools (pages), call tools, bridge info, dispose | cache filled by an earlier generation or before an announced change; joined promises; restarts |
| CDP proxy | `cdp/httpProxy.ts`, `cdp/webSocketProxy.ts` | generation, active requests, pending upgrades, attempts, pairs, stop promise | stage, publish and clear a generation, forward a request, relay a WebSocket, stop, release | a generation is replaced while a probe or handshake is awaited; limits; deadlines; shutdown while traffic flows |
| CDP admission and reports | `cdp/capability.ts`, `urls.ts`, `limits.ts`, `security.ts`, `config.ts` | rejections of a window | check a capability, Host, Origin and handshake; count and report rejections | which check answers first; a rejection that is never reported |
| external port pool | `cdp/allocator.ts` | leased ports, binding and release promise of each lease | acquire, close the binding, release | concurrent acquires; release before, during and after the close; failing closes |
| Chromium client, internal ports | `cdp/chromium.ts`, `cdp/internalPort.ts` | none besides a reserved port | probe, prove the browser, reserve | answers that come late |
| Streamable HTTP sessions | `http/server.ts`, `http/sessionStore.ts` | sessions, closings, pending initializations, records | initialize, request, DELETE, expiry, disconnect, close | initialization races with disconnect, expiry and shutdown; slots |
| HTTP requests, metadata, node server | `http/requests.ts`, `responses.ts`, `options.ts`, `nodeServer.ts` | none that outlives a request | route, authorize, read a body, read the metadata of a session | the order of the checks; what one session's metadata may override |
| CLI and doctor | `cli.ts`, `cli/options.ts`, `cli/doctor.ts` | signal listeners, the one close | read options, start, shut down, diagnose | precedence of flags and environment; signals and the end of stdin at any time |
| Docker launcher and display | `docker/*.ts` | phases of the display and the CLI, shutdown, pending probe | start the display on demand, health, shutdown | stop during a start, late answers, one shutdown for many causes |
| profile lock | `bridge/config.ts` | lock file, profiles locked in this process | lock, reclaim, release | reclaiming the lock of a dead process races with others |
| runtime preparation | `bridge/config.ts` | stdout depth, binary path in the environment, its queue, temporary directories | prepare, dispose | several preparations in one process, each failing anywhere; what the three sources of options say of one another |
| profile seed | `bridge/profile-seed.ts` | seed file | create or read | two writers; a crash leaves it empty |
| logging, paths, lock cleanup, patches, scripts | rest | none that outlives a call | format, patch modules at load, remove stale files | none |

How they interact. The bridge server starts a managed session per MCP session;
the session acquires a lease (a bound proxy) from the pool, creates owners
(child processes) and tells the proxy which generation it leads to; the proxy
calls the session back to probe before it forwards and to report a lost browser.
The HTTP server holds one bridge per session and disposes it on DELETE, expiry,
disconnect and shutdown. All of it is one Node.js thread: an action of the
specifications is what one event does until every continuation it released
awaits another event, and interleaving happens between such turns.

The CLI starts either; the launcher starts the CLI, the display the CLI asks for,
and answers Docker's health check by asking the CLI. Each bridge prepares a
runtime, which locks its profile and reads the profile's seed.

What makes the parts correct, in a sentence each: a session never leads anyone
to a child that is being disposed, never runs two children at once, never takes
a child from under a request, answers everyone who waits and returns its port
last (session); a connection belongs to one generation, counts against a limit
for exactly as long as it can reach the browser and never outlives the lease
(proxy); a port belongs to one lease (pool); slots are counted exactly, a
closed session stays closed and nothing that was started is lost (HTTP
sessions); no list of tools outlives what it lists (bridge server); the first
check that fails decides, before anything is spent (admission, HTTP requests);
what the operator said last is what runs (CLI, runtime); what the launcher
reports is so, and it ends (Docker); one owner of a profile (lock); what is
shared is given back (preparation); one seed for ever (seed).

## Modules

| module | of | status |
|---|---|---|
| `CdpSession` | `cdp/session.ts`, the session parts of `server.ts` | modelled, checked, safety proved |
| `CdpSessionProofs` | theorems about `CdpSession` and `CdpPortAllocator` | proved |
| `CdpEndpoint` | what one CDP endpoint promises (abstract) | refined by `CdpSession` and `CdpProxy` |
| `CdpPortPool` | what the port pool promises (abstract) | refined by the next one |
| `CdpPortAllocator` | `cdp/allocator.ts` | modelled, checked, proved |
| `CdpProxy`, `CdpProxyProofs` | generations, connections and shutdown of `cdp/httpProxy.ts`, `cdp/webSocketProxy.ts` | modelled, checked, safety proved |
| `CdpAdmission` | what the proxy decides by looking at a request (operators) | used by the next one |
| `CdpExchange`, `CdpExchangeProofs` | one exchange of the proxy in time: answers, deadlines, slots, reports | modelled, checked, safety proved |
| `HttpSessions`, `HttpSessionsProofs` | `http/server.ts`, `http/sessionStore.ts` | modelled, checked, safety proved |
| `CliConfig`, `Doctor`, `InitializeMeta` | options, diagnostics and session metadata (operators) | used by the next one, the first two also in its proofs |
| `HttpFront`, `HttpFrontProofs` | `cli.ts`, `http/nodeServer.ts`, the way of a request to a session | modelled, checked, safety proved |
| `ProfileLock` | the lock of a profile, `bridge/config.ts` | modelled, checked, proved |
| `ProfileSeed` | `bridge/profile-seed.ts` over `ProfileLock` | modelled, checked, proved |
| `RuntimeConfig` | what a preparation derives from its inputs (operators) | used by the next one |
| `BridgeRuntime` | `prepareBridgeRuntime`, several in one process | modelled, checked, safety proved |
| `RuntimeProofs` | theorems about `ProfileLock`, `ProfileSeed` and `BridgeRuntime` | proved |
| `BridgeServer`, `BridgeServerProofs` | `server.ts`: tool lists, start and disposal | modelled, checked, safety proved |
| `DockerLauncher`, `DockerLauncherProofs` | `docker/*.ts` | modelled, checked, safety proved |
| `MC...` | instances for TLC | |

### CdpSession

`generation`, `owner` are the fields of the same name; `route` is what the proxy
was last told (unavailable, verifying or ready, and for which owner); `boot` is
the one operation under a deadline, startup or a restart: the phase of
`#restartWithSignal`, `#createOwner` and `#bootstrapOwner` it awaits in, and its
abort signal. A restart waits three times before it retires the owner ("wait" for
the requests at it, "previous" for its earlier cleanup, "drain" for provisional
ones), each in its own turn, and reads the owner after the last. `cleanups` holds every disposal in progress with the part it is
at: the `#pendingOwnerCleanup` ("owner"), members of `#pendingCleanups`
("late" for a resource that arrives after the abort, "owned" for what was
already there), the undo of a failed creation and the final disposal. `teardown`
is `dispose()` or `rollbackStartup()`. `call` holds each MCP request with the
generation and owner it captured before its awaits, which is where stale reads
come from. `res` and `browser` are the world: which parts (reserved port,
runtime, upstream process) of which owner are held, and whether its Chromium
lives.

Requests are `runBrowserTool` (kinds "browser" and "close", with the probe
before and the probe after), `runWithCurrentUpstream` ("other") and
`probeGeneration` ("info"). A tool may succeed, fail or hang; a browser may die
at any time; any acquisition may succeed, fail or come after the abort; any
disposal may be rejected. The deletion of the bootstrap challenge, awaited inside a
`#bootstrapOwner` that has already lost its route, is part of
`BootstrapRejects`.

### CdpPortAllocator and CdpPortPool

A lease is one call of `acquire()`. `Acquire` reserves the lowest free port up
to the await, `Bound` and `BindFails` end it; `CloseBinding` and `Release` may be
called in any order and number, and `CloseSettles` is the listener's close,
which may fail. `CdpPortPool` says only that a port is granted to one lease at a
time and comes back by that lease's return; `Held` maps the allocator to it.

### CdpProxy

`conn` follows an upgrade through `#pendingUpgrades` (its probe), `#attempts`
(the upstream handshake) and `#pairs` (relaying), and keeps its TCP socket and
the two WebSockets apart, since a slot is held until both sides are closed.
`request` is an HTTP request that is probed for, then forwarded; `present` says
whether its client is still there (`Awaited`: the requests somebody waits for).
Nothing in the proxy watches a request's connection, so the handler of a client
that left runs on, keeps its slot and may still be sent upstream. The session's
calls (stage, publish, clear, stop, release) are actions with the order the
session gives them. `onBrowserLoss` clears the generation in the same turn.
Messages are a choice of relayed, over the queue limit, or closing the browser;
a terminated socket ends at once; `server.close()` waits for the last connection,
not for handlers, so that `release()` may return the port while the request of a
client that left is still under way.
`setUnavailableCapability` is called by no part of the program and left out.

### CdpEndpoint

The proxy takes `stageGeneration`, `publishGeneration` and `clearGeneration` in
any order its caller chooses; that the order is right is the session's doing.
`CdpEndpoint` says what order is right: stage over nothing, publish what was
staged, cut off before the next, nothing new once the session is over.
`CdpSession` implements it with `route` (so the session keeps what the proxy
relies on), `CdpProxy` with its `generation` (so the calls assumed there, and
the losses the proxy adds by itself, are steps the session can take).

### HttpSessions

`init` follows an initialize request through `#handleInitializeRequest`;
`sessions`, `closing` and `pending` are the maps and the counter of the class;
`record` is the store, where "expired" is an active record past its time;
`request` is a request or DELETE that names a session; `server` is `close()`.
`waits` holds the closings an `allSettled` or an awaited `#closeSession` waits
for. The store answers within the turn of its caller; a close of an id without
session settles at once; a disposal that rejects counts as done. The listener has
closed (`Closed`) when its connections are gone, whatever handlers of departed
clients still do. The transport
of the MCP SDK is external: it accepts an initialize request (and creates the
record), refuses it with an answer, or throws.

### CdpAdmission and CdpExchange

`CdpAdmission` has what the proxy decides by looking at a request: capability,
path, query, method, body, Host, Origin, upgrade headers. The chains of IF are in
the order of the code, because the first check that fails answers.
`CdpExchange` puts them in time: `exch` follows a request or an upgrade through
the probe, the upstream request or handshake, and its answer; `counts`, `window`
are `SecurityReporter`'s; `active` is the count of slots. `current` and `sound`
record what was true of an exchange when it was let in, and `unreported` the
rejections not yet in a report; they are read by properties only. Time passes
only where a deadline runs (`left`), and a timer that is due may be late.
`Prober` is the session itself, which checks a staged generation through its own
proxy; an old request that hangs can hold the slot it needs.

### BridgeServer

`session` is what `server.ts` sees of the managed session: owner, generation,
whether a restart runs. Without one the owner is the same child for ever.
`cache` maps a page to the promise that stands in it and `fetch` holds the
promises, since what a list joined, what the cache holds and what the child
answers may belong to different generations. `wire` is the ordered output of the
child: an answer and a `list_changed` cannot overtake each other, but the handler
of the latter awaits (`checks`). Tools are a version and whether they include
page tools. Tool calls are in `CdpSession`.

### ProfileLock and ProfileSeed

One action is one system call of `acquireProfileLock` and what it calls; a
process may be killed between any two. A file is named by the runtime that
created it, which stands for its inode and the pid in it; pids are not reused.
`overlapped` remembers whether two servers of the profile were ever started at
once: the documentation forbids it, and `OneOwner` and `SeedKept` hold as long
as nobody did. `ProfileSeed` adds `readOrCreateProfileSeed` under the lock, by
link or, on file systems without links, by exclusive create. CloakBrowser's own
wrapper, which writes the same file without the lock, is external.

### RuntimeConfig and BridgeRuntime

`RuntimeConfig` derives, as operators, what is launched from the operator's
options, the metadata of the session and the environment: arguments, proxy,
WebRTC address, engine, extension, context. An argument list is a sequence of
keys with values from `Texts`, a filter keeps the positions that pass (`Picked`,
in order), and Chromium reads an argument by its first or its last mention
(`First` is how the bridge reads it, `Last` how Chromium does); an argument that is
written twice counts where it came first (`Distinct`). The credentials of a proxy
are ones the bridge can decode or not (`secret`): those it cannot, and those in
variables the child inherits (`HTTP_PROXY` and its like) or in the operator's own
arguments, do reach the child, and `ProxySecretHidden` promises nothing of them.
`BridgeRuntime` runs
`prepareBridgeRuntime` for several sessions of one process: `depth` and
`suppressedWrite` are the nesting of `suppressStdout`, `queue`, `previous` and
`binaryEnv` the serialised override of `CLOAKBROWSER_BINARY_PATH`, `activeLock`
and `held` the profile lock. `malformed` names the step whose parser refuses its
text, so that a preparation fails at each of its steps.

### DockerLauncher

The CLI and Xvfb are processes that run, hang or exit; `phase`, `startup`,
`failure` are `DockerDisplayManager`'s, `request` the CLI's requests on the
control channel, `check`, `asked`, `answered`, `wire` the health check with its
probe id, `stage` the one shutdown. The X11 handshake is a step that succeeds or
fails. A timeout may fire as soon as it is armed, so a late answer is always
possible. A signal is handled once (`armed`): the second of its kind ends the
launcher where it stands (`SignalAgain`, stage "dead"), and tini, which started
it, ends the container with everything in it. The listeners for signals, the
health socket and the CLI are set up in one turn, since binding a Unix socket
waits for nothing, so that no signal comes while `stage` is "starting"; an earlier
one kills a process that has started nothing and is left out. The model ends when
the exit code is settled.

### CliConfig, Doctor, InitializeMeta and HttpFront

`CliConfig` reads an invocation, flags before environment before default, with
the checks across options (TLS identity, CDP exposure, endpoint). `Doctor` is
what each diagnostic may report, `InitializeMeta` what a client may send with
`initialize`. `HttpFront` is the process: `handlers` are the `process.once`
listeners, so a second signal of a kind, or one before they are registered,
kills at once; `closes` counts calls of `close()`. A request passes the gates in
the order of `requests.ts` and `server.ts`, and its body is read in portions:
over the limit it is answered 413, or its connection is torn down by Node when
the limit is met while it still streams. `gone` are requests whose client left: a
body that is read ends there (`BodyAborted`), anything else goes on. `close()`
takes the sessions out of their map at once and disposes them, then waits for the
listener's connections; an initialization whose client left may still be setting
up its bridge when the process exits with 0 (`ListenerClosed`). While it drains no
new request is served, as Node closes idle connections with the listener. A
session is named by the request that created it, and `ask` and `answer` of a
finished request are kept so that `GatesFirst` can say whether one is right for
the other.

## Runs

| run | instance | distinct states | shows |
|---|---|---|---|
| `session` | 2 calls, 3 children | 134,856 | `RouteReachesOwner`, `NoRetiredOwnerInUse`, `NoOverlappingChildren`, `LeaseReleasedLast`, `ForwardedOnceWhenReady`, `DisposeWins`, `EndpointSpec` (its route is an endpoint), `WaitersAnswered`, `CleanupsEnd` |
| `proxy` | 2 upgrades over 2 slots, 2 requests over 1, 2 generations, leaving clients | 341,512 | `OldConnectionsSevered`, `ReleasedAfterTraffic`, `ForwardsToCurrent`, `EndpointSpec`, `SlotsReturned` |
| `exchange` | 2 client exchanges and the prober, 2 generations, 1 slot of each kind, deadlines of 1 | 153,791 | `CheckedFirst`, `CountersExact`, `ExchangesEnd` |
| `port_allocator` | 3 leases, 2 ports | 2,916 | `NeverCollides`, and `PoolSpec`: it implements the pool |
| `http_sessions` | 2 initializations for 1 slot, 1 request, leaving clients | 284,089 | `CapacityKept`, `NoOrphanBridge`, `ClosedForGood`, `SessionsReleased` |
| `front` | 2 requests, leaving clients, a table of invocations | 280,806 | `GatesFirst`, `HandedAsTold`, `ExitCodeTrue`, `ConfigAsTold`, `StopsWhenTold` |
| `bridge_server` | 2 lists over 2 pages, 2 children, 1 change of tools, with and without a managed session | 658,463 | `CacheFresh`, `DynamicToolsOfGeneration`, `ListsAnswered` |
| `runtime` | 2 preparations, the first over seven themes of inputs | 184,965 | `SharedStateGivenBack`, `ToldAsAsked`, `QueueNeverStuck` |
| `profile` | 3 runtimes in 3 processes, the external writer | 116,130 | `OneOwner`, `SeedKept`, `ReclaimsOnlyDead`, `StaleLockReclaimed` |
| `docker` | 2 display requests, 2 health checks, up to 2 signals | 594,630 | `ReportsTrue`, `LauncherResponds` |
| `session_lost_child`, `docker_clean_exit` | as above | | `AtMostOneLiveChild` and `StopIsNotFailure`, which the code does not keep (below) |

Deadlock is not checked: every instance serves finitely many requests and then
rightly stops, as the program does when its clients leave or it exits.

**Bounds.** `MaxOwners` bounds the children ever created. A restart that was
joined serves every waiting call, so each call causes at most one restart: with
one child more than calls the bound never blocks. Two calls are the user of the
old owner and the one that replaces it, or the one that starts a restart and the
one that joins it; what three calls would add is covered by the proofs, which
hold for any number. Two generations in the proxy are the old and the new; two
upgrades over two slots let connections of both coexist, and two requests over
one slot reach the limit. In an exchange one slot makes the second exchange meet
a full proxy, `MaxCount = 1` makes the second rejection saturate the counter,
and each input has up to two things wrong, so that the order of two checks
shows. Two ports and three leases run out of ports and use one again. Two
initializations race for one slot. Two lists share a promise or follow each
other across one replacement of the child. Three processes are a dead owner and
two that find its lock. Two preparations contend for everything preparations
share, and only one of them needs to try the whole table of inputs. Two health
checks are one that timed out and one that its late answer could satisfy. Each
input is served once.

**Fairness.** What a deadline, a timer, a process exit or the event loop bounds
is fair; what nobody has to do is not: to call, answer a tool call, end a
request or its body, leave, die, send a signal or dispose. In particular:

- `CdpSession`: startup and restart (their deadline ends what hangs), probes
  (`upstreamTimeoutMs`), cleanups and the teardown, which end in a result or an
  error. A child that never connects is ended by the timeout, not by fairness.
- `CdpProxy`: a handshake (its deadline) and a WebSocket that is closing.
- `CdpExchange`: `Tick`, `WindowEnds` (timers), an aborted probe, and the timer
  of a hung Chromium.
- `HttpSessions`: the cleanup timer while the server is open and the
  continuations of a wait that is over.
- `BridgeServer`: continuations, the request timeout of the MCP SDK
  (`FetchFails`), the restart deadline, and reading the pipe of the child.
- `BridgeRuntime`: each awaited step of a preparation ends.
- `DockerLauncher`: the steps of a shutdown and a check, each with a timeout,
  the display's startup, and an answer over the socket. `GiveUp` is strongly
  fair: the deadline loop of the startup asks for the time again and again.
- `HttpFront`: the start, the close and the server's side of a request.
- `ProfileLock` and `ProfileSeed` need none: what they promise of a stale lock
  is that no attempt is refused because of it.

## What the code does not keep

Two documented promises that TLC shows violated by a behaviour of the code, each
a run of its own and a finding in `PROJECT.json`:

- `AtMostOneLiveChild` (`session_lost_child`): a child whose provisional cleanup
  was rejected is forgotten, and the next restart starts another beside it.
  Without rejected cleanups children never overlap (`NoOverlappingChildren`,
  proved).
- `StopIsNotFailure` (`docker_clean_exit`): a readiness probe answered while the
  display is being stopped sets its phase back to ready, and the exit of Xvfb
  that the launcher asked for is then reported as a failure of the container.

Five more formulas state what one would wish. TLC refutes each when it is named
as INVARIANT or PROPERTY in the `.cfg` of its module:

- `RuntimeOutlivesUpstream` (`MCCdpSession`): a restart aborted while the
  upstream connects disposes the runtime first, against the documented order.
- `OldAnswerSparesGeneration` (`MCCdpSession`), `OldConnectionSparesGeneration`
  (`MCCdpProxy`): the late answer to a `browser_close`, and some events of a
  connection of an earlier generation, invalidate the generation published since.
- `NoSessionOutlivesServer` (`MCHttpSessions`): an initialization in flight
  during `close()` registers a session that nobody closes.
- `EverySessionCanExpire` (`MCHttpSessions` with `SessionMax = 2`): a session
  whose initialize request the transport refuses has no record, so it keeps its
  slot and its bridge.

Smaller observations made while modelling, without a property of their own:
`startBridge` (`server.ts:88-93`) does not dispose the prepared runtime, and with
it the profile lock, if connecting the upstream fails without a managed session;
`upstreamToolCount` is the maximum of what pages and late answers said;
the shutdown of `http/nodeServer.ts` waits for open connections, so a client that
never ends its request keeps the process up (the exception in `StopsWhenTold`),
while one that leaves lets it exit under an initialization; an
`--endpoint` whose normal form differs from its text is accepted and cannot be
reached.

## Proofs

Eight modules hold the theorems listed in `PROJECT.json`. In each, an inductive
invariant is proved with one lemma per action, and the properties follow. The
invariant is defined in the module of the component, where its conjuncts stand
with their reasons: `Safe` in most, `LockSafe` for the lock, `AllocatorInv` for
the pool, `FrontSafe` for the process and `SharedSafe` and `AnswersKept` for the
preparations, the latter proved under the former. Each component's contains its
type invariant, and TLC agreed with it on the instance of the component's run
before it was proved. Every safety invariant and every action
property of the runs that pass is the statement of a theorem.

`CdpSessionProofs` proves, for any set of calls and any bound on the children,
every invariant and action property that `session` checks, and that the session
implements `CdpEndpoint`. None of the invariants is inductive alone: that a
disposed owner is not routed to depends on which phase the restart is in, which
cleanups exist in that phase, and which owner they concern. `Safe` adds what is
missing: `PhaseInv` (an operation runs only over an unpublished session, aborted
ones only undo), `OwnerInv` (the owner and the one being built belong to no
cleanup, owners are numbered in order), `ChildInv` (a live child is the owner,
the one being built, or about to be disposed), `CleanupInv` (which cleanups
exist when), `UseInv` (no request is at an upstream while the owner is replaced)
and `LeaseInv`. In each lemma there is one step per conjunct the action
disturbs; `Frames` covers the rest. That no generation is routed while an owner
is built is what makes a staging step legal (`SessionImplementsEndpoint`).
The type lemmas come first; they need `OwnerInv` and `PhaseInv` too. Assumed is
only that `MaxOwners` is a positive natural number.

The same module proves `NeverCollides` of the pool, with `ClosesFirst` (closing
precedes releasing, an open listener is one that did not close) as the
strengthening, and that the allocator implements `CdpPortPool`: initial states
map to initial states and each step to a grant, a return or a stutter. Assumed is
that the range is one of port numbers.

`CdpProxyProofs` proves every safety property of `proxy`, and that the proxy
implements `CdpEndpoint`, for any upgrades, requests, limits and generations.
`Safe` joins `OldConnectionsSevered`, `LimitsKept` (what holds a slot is counted
until both of its sides are closed), `NeverDropped` (an upgrade is answered unless
its client left) and `Phased` (a stopping proxy has no generation, a stopped one
no connection and nobody waiting for an answer). `ReleasedAfterTraffic` adds that
no generation is published once the port is returned, which is why what a
departed client's request still does cannot reach a browser of another lease
through this proxy. That only finitely many connections
and requests exist is part of the invariant rather than assumed, which is what
the cardinality lemmas about slots need.

`CdpExchangeProofs` proves `CheckedFirst` and `CountersExact`. The strengthening
is `Underway`: an exchange that was let in had passed every check and keeps
knowing it until it is answered, although the generation may change meanwhile.
`RequestLetIn` and `UpgradeLetIn` show that an exchange that no check answered
satisfies all of them; `OneExchange` reduces a step to the one exchange it
changes. Assumed is that inputs have the shape `Input`, that the advertised
scheme is http or https (`resolveCdpConfig`), and that limits and deadlines are
positive.

`HttpSessionsProofs` proves `CapacityKept`, `NoOrphanBridge` and `ClosedForGood`
for any finite set of initializations, any requests and any capacity. `Safe`
adds `Phased` (which bridge and record a session has at each point of its
initialization, and that a session being closed is not registered). The slots
are handled by three cardinality lemmas (a slot is reserved, returned, or
neither), and every kind of close by one (`CloseFacts`). Assumed is that the
capacity is a positive natural number, the initialize requests are finitely many
and each request names a session.

`BridgeServerProofs` proves `CacheFresh` and `DynamicToolsOfGeneration` for any
lists, pages, children and changes. `SessionInv` says that a published generation
is the living owner's, `CacheInv` that an entry of the cache is a promise made
since the last restart whose answer is the owner's latest unless its announcement
is on the way, `ListInv` that the promise a list joined under the published
generation was asked of its child or never will be. The last is what the visible
page tools rest on, since a list is answered long after the generation it began
under was looked up. Assumed is that there is a page and that the bounds are
natural numbers.

`RuntimeProofs` proves `OneOwner`, `ReclaimsOnlyDead`, `StaleLockReclaimed` and
`SeedKept` for any number of runtimes and processes, killed at any step, and that
a refused or released acquisition leaves no lock. Who reclaims a stale lock looks
at it three times; `LookStands` says that what it saw still stands at each look
while servers start one at a time, which is why no such attempt is refused.
Assumed is that each runtime is prepared in one process and that a file is named
by its creator.

About preparations it proves `SharedStateGivenBack` and `ToldAsAsked`.
`SharedSafe` counts what the first needs: `depth` is the number of preparations
inside `suppressStdout` and standard output is diverted exactly while there is
one (`OutputCounted`); a preparation under way has its directory, and the lock
if it asked for a profile, which no other then holds (`LockCounted`); only the
first of the queue builds (`InTurn`), with its own path in the environment
(`BinaryOverrideOwn`), so that what it puts back is what it found. `AnswersKept`
is what the second needs: it follows each preparation from its inputs to its
runtime, saying of each step what has been refused so far (`NotRefused`), that
the builder's answer is one it may give (`Options`), and what a returned runtime
is made of (`MadeOf`). The rest is
about argument lists of any length: `OrderEnumerates` (the positions of a filter
are its positions in order), `PickedKeeps` (a filter keeps what passes, once and
in order), `Merged` and `SameFor` (who wins when lists are merged, and that a
later step leaves the first and the last mention of a key alone), `DistinctIs` and
`BaseIs` (what is left of repeated arguments) and `OperatorsLast` (the operator's
arguments stay behind CloakBrowser's defaults). From these
follow the properties of the operators (`FinalIs`: a managed session's debugging
port is the internal one and no other is left). Assumed is that there are
finitely many preparations, each with its inputs, that the operator's arguments
are argument lists, and that the texts the code writes itself are in `Texts`.

`HttpFrontProofs` proves `ConfigAsTold`, `ExitCodeTrue`, `GatesFirst` and
`HandedAsTold` for any invocation, any finite set of requests and any body
limit. `ConfigAsTold` follows from lemmas about the options: one that is not
refused is its default or a text its parser takes. `FrontSafe` says which gates
a request has passed at each point of its way (`Admitted`), that what is served
is served with the options that were read (`ServesAsTold`), who opened a session
(`Opened`: a request that broke no rule and was answered 200), that a process that
does not listen yet has no session and no request (`Silent`), and that `closes`,
the sessions being disposed and the exit code agree with how far the shutdown is
(`CloseCounted`). `GatesFirst` numbers the rules of a request in the order of the
code (`Breaks`), so that "the first rule it breaks" is a statement about the
answer and not about the path taken to it. That slots are never exceeded is
`CapacityKept` of `HttpSessions`.
Assumed is that a numeral denotes an integer ("32" denotes 32), that there are
finitely many requests, and that what `doctor` finds are facts it can find.

`DockerLauncherProofs` proves `ReportsTrue` for any number of display requests
and checks. `Safe` adds `Stopped` (who is past a part of the shutdown has stopped
that part), `Noted` (a failure is noted when it is noticed, and the exit code has
seen it) and `HealthAnswered` (a check is ended well only by the answer to
itself).
Nothing is assumed.

Only model-checked is liveness: `WaitersAnswered` and `CleanupsEnd` (`session`),
`SlotsReturned` (`proxy`), `ExchangesEnd`, `SessionsReleased` (`http_sessions`),
`StopsWhenTold` (`front`), `ListsAnswered` (`bridge_server`), `QueueNeverStuck`
(`runtime`) and `LauncherResponds` (`docker`). Each needs fairness, hence
`ENABLED`, which is outside what the prover does. What a step of these arguments
would need of the state is in the invariants. The two promises the code does not
keep are refuted by TLC and have no theorem.

## Not modelled, and the plan

In this order:

1. `CdpSession` and `CdpProxy` composed: one module in which a step of the
   session that changes `route` is the call that the proxy takes, so that a
   probe the proxy awaits is a `probeGeneration` of the session. Until then both
   implement `CdpEndpoint`, which keeps them consistent about generations but
   says nothing of a probe of one that waits for the other.
2. Theorems about that composition, from `SessionImplementsEndpoint` and
   `ProxyImplementsEndpoint`.
3. `HttpFront` and `HttpSessions` composed, so that requests of kept-alive
   connections that arrive after the listener closed are served by both.

Left out: `setUnavailableCapability` of the proxy, which no part of the program
calls; queue sizes in bytes; which URLs of a discovery answer are rewritten and
how Chromium's answers are parsed (`cdp/chromium.ts`); the removal of a stale
Chromium singleton lock (`cli/singleton-lock-cleanup.ts`, one sequential pass
before anything runs); logging, paths, texts and help; the compatibility patches
of the upstream package, applied once at load; and release, documentation and
test-report scripts and the video tool, which are not part of the program.
