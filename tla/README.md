# A TLA+ development of truenas-mcp

truenas-mcp is an MCP server in Go. AI clients speak MCP over HTTP to it; it
speaks the TrueNAS middleware's JSON-RPC 2.0 over one websocket connection per
credential to a TrueNAS host (the *target*). It keeps no database: what it knows
is in memory, in sealed tokens the clients hold, and on the target. What is hard
about it is therefore concurrency (goroutines sharing a connection, a cache, a
registry), loss (connections that die with requests in flight), time (codes,
tokens, tasks and log collections that expire) and what one component may assume
of another while all this happens.

This directory holds TLA+ modules translated from the source, TLC
configurations that check them on small instances, and TLAPS proofs.
`PROJECT.json` maps every definition to the lines it models and lists the runs,
hazards, findings and theorems. Paths below are relative to `src/`.

    tlasany M.tla                          parse
    tlc -workers 2 -config X.cfg MCModule  a run (see the table of runs)
    tlapm M_proofs.tla                     the proofs about M (seven modules)

Contents: [inventory](#inventory), [modules](#the-modules-and-the-code),
[runs](#what-the-runs-check), [bounds](#bounds), [fairness](#fairness),
[proofs](#what-is-proved), [findings](#where-the-code-and-its-words-differ),
[not modelled](#what-is-not-modelled), [plan](#plan).

## Inventory

| Component | Source | State | Operations | Module |
|---|---|---|---|---|
| Middleware JSON-RPC client | `internal/truenas/client.go`, `errors.go` | `nextID`, `pending`, `closed`, `readErr`, a channel per call | `Call`, `readLoop`, `failPending`, `forget`, `Close`, `Alive` | `CallContract`, `RpcClient` |
| Event-source subscriptions | `internal/truenas/client.go` | `subscriptions`, `unsubscribing`, a bounded buffer each | `Subscribe`, `dispatchNotification`, `endSubscription`, `unsubscribeAsync`, the context watcher | `StreamContract`, `Subscriptions` |
| Sessions and handler cache | `internal/server/session.go`, `mcp.go` | cached handlers, a `sync.Once`, mutex and session per credential, tracked sessions | `handlerFor`, the session provider, `Open`, `Track`, `CloseAll`, the consent-page probe | `SessionProvider` |
| OAuth authorization server | `internal/oauth/*.go` | master key, replay cache; all else is in sealed values | register, authorize, exchange, refresh, `CredentialFromRequest`, restart | `OAuthServer` |
| Write tools, jobs, MCP tasks | `internal/server/write_tool.go`, `tasks.go`, `internal/truenas/job.go` | `taskRegistry` per credential | write tool, task substitution, `tasks/get`, `tasks/update`, `tasks/cancel` | `JobTasks` |
| App logs | `internal/server/concern_tool.go`, `log_collector.go` | one collection: entries, bytes, two timers, a goroutine | `appLogs`, `collectLogEntries` | `AppLogs` |
| Inventory | `internal/server/inventory.go` | one summary under assembly | `collectInventory` | `Inventory` |
| Tool gate | `internal/tools/safety.go`, `discovery.go`, `unroled.go`, `internal/server/discovery_tool.go` | tables; the target's catalogue is asked for every time | `CheckDenied`, `CheckDiscoverable`; `search_methods`, `describe_method`, `call_method` | `ToolGate`, `Tools` |
| Configuration writes | `internal/server/config_write_tool.go`, `internal/tools/config_writes.go` | none | the config write tools | `Tools` |
| Concern dispatch | `internal/tools/dispatch.go`, `concerns.go`, `internal/server/concern_tool.go` | tables | `Resolve`, `middlewareParams`, `shape` | `Dispatch`, `Concerns`, `Tools` |
| Download, file reading | `internal/truenas/download.go`, `internal/server/read_file.go` | one download | `Download`, `awaitDownloadJob`, `readFile`, `isText` | `Download` |
| Configuration | `internal/config/config.go` | none | `Load`, `validate` | `Config` |
| Lifecycle, health | `cmd/truenas-mcp/main.go`, `internal/server/health.go`, `probe.go` | the process, its listener, the health flag | `main`, `run`, `runStdio`, signals, `Shutdown`, the health flag | `Lifecycle` |
| MCP resources | `internal/server/resources.go` | none | live resources, the job resource | `Tools` |
| Discovery documents, consent page, MCP app pages | `internal/oauth/metadata.go`, `consent.go`, `internal/apps` | static | none | not modelled |

`Server` composes the last seven with the inventory.

How they interact: an HTTP request brings a raw API key or an access token;
`CredentialFromRequest` (OAuthServer) turns it into a credential; `handlerFor`
(SessionProvider) finds the MCP server of that credential; its tools ask the
provider for a session and make calls on it (RpcClient), from many goroutines at
once. `appLogs` reads an event stream (Subscriptions, AppLogs); the inventory
fans calls out (Inventory); a write tool starts a job and the tasks extension
hands out a task id for it (JobTasks). The consent page (OAuthServer) opens and
closes a connection of its own to check an API key (SessionProvider's probes).
The other tools read or write through one or two calls on that session (Tools,
Download), behind the gate (ToolGate) if they can reach more than a fixed method.
All of it runs inside a process (Lifecycle) that an environment configures
(Config) and a signal ends; at its end `CloseAll` closes what is tracked.

What is hard in each, and what makes it correct:

- **Client.** A response may arrive late, out of order, for a caller that has
  given up, or never; the read loop must neither block on a channel nor close
  one twice; a dying connection must release everyone. *Correct*: answers never
  cross, the loop never blocks, nobody is left waiting, a call is applied at
  most once and an error says no more than is known.
- **Subscriptions.** Notifications name a source and not a subscription, so a
  new subscription to a source must wait until the old stream is over on the
  target, or it is fed the old one's events; meanwhile buffers fill, contexts
  end and the connection dies. *Correct*: no event reaches another's consumer,
  one stream per source, no stream without an owner, `done` closed exactly once,
  a consumer always released.
- **Sessions.** Tool calls of one credential race to open and replace its
  connection while others wait on the `Once` and the mutex. *Correct*: one's own
  credential, one live connection per credential, nothing leaked, nothing left
  locked.
- **OAuth.** Everything a client holds can be presented anywhere, at any time,
  twice at once, and to the next process. *Correct*: a code is redeemed once,
  access follows a consent and ends when it should, a refused exchange burns
  nothing.
- **Tasks.** The registry forgets while clients poll and jobs end or are pruned
  by the target, which takes its time to say so; a restart forgets everything.
  *Correct*: a task id means its own job to its own client, is known as long as
  was promised or until a restart, and what is told of it was true when it was
  asked for or since.
- **App logs.** A collection ends for one of six reasons that race. *Correct*: no
  holes, within bounds, silence not mistaken for loss, no goroutine or stream
  left behind.
- **Inventory.** Sections fail one by one. *Correct*: what is missing is said.
- **Tool gate, configuration writes.** What a method is, only the target knows, and
  it is asked before the call that depends on the answer; in between the
  connection may die and the target come back as another release. *Correct*: what
  runs is what was judged, and a job that was started can be followed.
- **Concern dispatch.** Arguments, limits and projections are dealt with in three
  places. *Correct*: nothing the caller asked is dropped, and an answer that lacks
  something says so.
- **Download.** The body of a download ends before its job, which may have failed,
  and a limit cuts it anywhere. *Correct*: a file not said to be cut is whole.
- **Lifecycle, configuration.** A signal comes before, while and after the listener
  comes up, alone or with its failure, and while a tool call runs. *Correct*: the
  process ends, success is reported only for a clean end, and nothing is served
  under settings that contradict each other.

## The modules and the code

Definitions keep the names of the functions they model where TLA+ allows it;
`map` in `PROJECT.json` has the lines. Where the code takes a lock, one action is
one critical section; where it waits (a channel, a `select`, a call to the
target), the next step is another action, so everything that can happen in
between does. Definitions under a comment that starts with "Mutant:" are not part
of the model: each is a plausible slip in the definition that follows it, and
shows that a property notices.

**CallContract** (abstract). What `Client.Call` promises with no identifiers,
channels or frames: `Open`, `Apply` (the target, at most once), `Answer` (its
verdict on this very call), `GiveUp` (an error that promises nothing), `Refuse`
(`ErrClosed`: never applied), `Close`. `Inventory` is built on it.

**RpcClient**. `Register` is the critical section that allots `nextID` and enters
`pending`; it tests `closed` and not `readErr`, as the code does. `Write` and
`WriteFails` are `WriteJSON`: on a connection lost at the far end the kernel may
still take the bytes, so both are enabled. `ContextDone` and `Receive` are the
two cases of the `select`, and either may be taken when both are ready.
`ReadResponse`, `ReadGarbled` and `ReadFails` are the read loop with `Deliver`
and `failPending`; delivery to a channel is part of the step that takes the entry
out of `pending`, which `RegisteredIsWaiting` justifies (the channel is empty,
open and nobody else's). `Close` sets `closed`, `CloseConn` follows outside the
lock. The target and the network are external: requests are applied in the order
written, answered in any order, possibly after the link is lost; strays and
undecodable frames arrive. A body records whose request it answers, which the
code cannot see: that is what `OwnAnswer` is about.

**StreamContract** (abstract). A subscription for its consumer: a bounded buffer
filled in order while open, one end with its reason, `Interrupt` for all streams of
a connection. `AppLogs` is built on it, `Subscriptions` is shown to implement it.

**Subscriptions** extends `RpcClient`: one connection, whose calls are the
`core.subscribe` of each member of `Subs` and the `core.unsubscribe` that ends
it. `SubscribeRefused`, `SubscribeAwaits` and `SubscribeRegisters` are the exits
of the loop under `mu`; `SubscribeWakes` its `select`; `SubscribeReturns` what is
done with the outcome; `WatchContext` the goroutine left behind; `CleanupReturns`
and `CleanupClears` the goroutine of `unsubscribeAsync`, which closes the
connection if the unsubscribe failed; `failSubscriptions` what `failPending` does
for subscriptions, in the same step. An event carries the subscription whose
stream produced it (the notification carries only the source). The variable
`doneCloses` counts `close(cleanup.done)`, where a second one would panic.

**SessionProvider**. `handlerFor` finds or creates the provider; `OnceRuns` and
`OnceDone` are `once.Do`; `SessionReused` and `SessionReplaced` the section under
the provider's mutex, which stays held while the replacement is opened; `Dial`,
`Login`, `CheckVersion` and `OpenFails` are `SessionManager.Open`, one step per
call; `FirstOpened`, `Replace` and `Validated` what its three callers do with the
result; `CloseAll` may come at any moment, because `Shutdown` gives up on a
handler after ten seconds. `Release` has no caller in the program. `credentialID`
is a hash cut to eight bytes: the constant `Hash` from credentials to `IDs`, which
need not be injective, and everything that is cached is cached by its value.

**OAuthServer**. A sealed value is a record with its purpose, key and payload;
holding it is being in `issued`, and any member of `issued` is presented at any
endpoint. `CheckCode` and `RedeemCode` are the two halves of the exchange: it
reads the clock once and checks, `Claim` reads it again, and other exchanges run
in between. Expiries are cut to whole seconds while the replay cache is exact, so
a second is `TicksPerSecond` ticks. `Restart` forgets `seen`, and the key as well
unless it is configured. A code is presented as a text, and base64 as `open` reads
it gives one value for several texts: the constant `Forms` is the set of them, a
code decodes alike in each, and `CodeReplayID`, under which `Claim` remembers it, is
the code with its form. A refusal that changes nothing is not a step. Cryptography
is ideal: a value opens under the key and purpose it was sealed with, nonces do
not repeat, S256 is injective, and so is the hash of a replay identifier, which is
kept whole.

**JobTasks**. `WriteTool`, `resolveTarget`, `CallJob`/`CallSynchronous` and
`JobAnswered` are the write tool; between them the app may be removed, and the
answer may be lost when the job already runs. `add` and `CreateTaskResult` are
the two visits of the middleware to the registry; `lookupTask`, `HostReplies`,
`TaskGet`, `TaskCancel`, `TaskFails` the task methods: the look-up, the reply of the
host (external) and what is made of it are three steps, and the job may change
between any two. Every visit prunes, as the code does. The jobs are the target's
(external) and may end, and be pruned, at any time. `Restart` empties the registries
and ends every request; the jobs run on. `told` is the last thing a client was told
of its own task, with whether the job had ended when it asked. Job ids are taken
never to be reused, random task ids never to repeat.

**AppLogs** extends `StreamContract`: `ForwarderReads`/`ForwarderEnds` are the
goroutine between the subscription and the collector, `CollectEntry` and
`CollectStops` one pass through the `select` (any ready case), `Return` the look
at `subscription.Err` and the deferred cancel, `WatchContext` the subscription's
own goroutine. Time is the order in which the timers fire.

**Inventory** extends `CallContract`: each section is one call; `Assemble` is what
follows `wg.Wait`. The shares key joins two sections (SMB, NFS), and the datasets
are cut at a limit.

**ToolGate**. `CheckDenied` and `CheckDiscoverable` over tables that are constants.
Parameters are the set of arguments that are true in them, each with where it
stands: `call_method` looks at the top of every object among its parameters, a
configuration write one level further, into `options`, and `Params` keeps the two
apart.

**Dispatch**, **Concerns**. `Resolve`, `middlewareParams` and `shape` as operators:
arguments are names, an item of a list is the set of its fields. `Concerns` is
the table of operations as the arguments they take; operations that agree in that
are one. `shape` includes what `registerConcern` clears afterwards for an
operation that sent its limit along.

**Tools** is one tool call. `Invoke` is the handler up to the session, `session` the
provider (it may fail), `methodMetadata` and `metadataFails` the call of
`core.get_methods` with what each tool makes of it (`searchMethods`, `judged`,
`isJobMethod`), `Call` the request as the target runs it, `Answered` and
`CallFails` what the caller is told. `link` is the connection of the session the
handler holds: the code asks for the session once per call, so when it dies
(`TargetRestarts`, external) the rest of this call fails. `ran` records under
which release the target ran what, which the code cannot see.

**Download**. `StartDownload`, `ReadBody`, `awaitDownloadJob` are the three phases of
`Client.Download`; the job is the target's (`DownloadJobEnds`, external), and
the wait for it may run out before its end is seen. A file is its length, the
place of its first NUL, whether it is UTF-8 as a whole, and how many bytes have to
go from the end of what fits the limit for the rest to be UTF-8: part of a
character, or bytes that belong to none, between which `isText` makes no difference
(`read_file.go:58`). `Possible` excludes only what no file can be.

**Config**, **Lifecycle**. An environment is a record of settings that are unset,
usable or not; a switch may also be neither true nor false, and `boolVar` makes of
it what the code does. `Load` says whether it is accepted. `main`'s early exits,
`run` and `runStdio` are actions; the goroutine that listens is `Listen`, `Serve`,
`ServeReturns`, `AcceptFails`, with `net/http`'s own order of things (`Shutdown`
before a listener exists makes it return `ErrServerClosed`). `ListenerFailed`
and `Shutdown` are the two cases of the `select`. `Drained` and
`DeadlineExceeded` are how `srv.Shutdown` returns. Over stdio the SDK's `Run` closes
the session when the context ends (`StdioCanceled`) or the client leaves, and
returns when the request in flight has been answered (`StdioClosed`): it does not
cancel it, and waits without a deadline. Setting the health flag and the
server's own shutdown flag are one step.

**Server** composes `Lifecycle`, `Tools`, `Download` and `Inventory`: tool calls begin
while the listener accepts, keep `Shutdown` waiting, and stop with the process.

## What the runs check

| Run | Module, cfg | Distinct states, time | Checks |
|---|---|---|---|
| `rpc` | `MCRpcClient`, `RpcClient.cfg` | 27 000, 6 s | `TypeOK`, `RegisteredIsWaiting` (the loop cannot block or panic), `OwnAnswer`, `NoLostWakeup`, the refinement `ImplementsContract`, and `RegisteredReleased`: a call registered while the loop runs returns when the connection is gone |
| `subs_safety` | `MCSubscriptions`, `Subscriptions_safety.cfg` | 4 600 000, 2 to 3 min | `RegisteredIsOpen`, `OneStreamPerSource`, `OwnEvents`, `NoStrandedStream`, `DoneClosedOnce`, `AwaitedCleanupRuns` for two subscriptions to one source |
| `subs_stream` | `MCSubscriptions`, `Subscriptions_stream.cfg` | 45 000, 15 s | the refinement `ImplementsStream`; `CancelledStreamEnds`, `ConsumerReleased` |
| `applogs` | `MCAppLogs`, `AppLogs.cfg` | 146 000, 20 s | `NoHoles`, `QuietIsSilence`; `CollectionEnds`, `NothingLeftBehind` |
| `server` | `MCServer`, `Server.cfg` | 1 800 000, 3 to 4 min | `SummaryTellsAll` (inventory), `OnlyPermittedRuns`, `JobsCanBeFollowed` (gate and configuration writes), `NoArgumentDropped`, `AnswerSaysWhatIsMissing` (dispatch, search), `FileAsItIs`, `NeverServesDegraded`, `CleanExitIsClean`; `SignalEnds` |
| `session` | `MCSessionProvider`, `SessionProvider.cfg` | 1 400 000, 40 s | `OwnCredential`, `NoLeakedConnection`, `OneLiveSession`, `HeldByOpen` |
| `oauth` | `MCOAuthServer`, `OAuthServer.cfg` | 4 100 000, 2 min | `RedeemedOnce`, `ConsentBoundsAccess`, `AccessFollowsConsent`, `OnlyGrantsBurn` |
| `tasks` | `MCJobTasks`, `JobTasks.cfg` | 1 460 000, 1 min | `TaskIsOwnJob`, `OwnTasksOnly`, `KnownUntilTTL`, `ToldTruth` |
| `rpc_hang` | `MCRpcClient`, `RpcClient_hang.cfg` | violation | `EveryCallerReleased` |
| `session_sticky` | `MCSessionProvider`, `SessionProvider_sticky.cfg` | violation | `LaterCallsReopen` |
| `gate_nested` | `MCServer`, `Server_nested.cfg` | violation | `NoRouteAround` |
| `oauth_forms` | `MCOAuthServer`, `OAuthServer_forms.cfg` | violation | `CodeRedeemedOnce`: a code in whatever form |

What is composed with what: `AppLogs` checks the collection against every
behaviour of `StreamContract`; `subs_stream` checks that a subscription is one of
them; `Inventory` stands to `CallContract`, `rpc` and the theorem
`CallKeepsContract` in the same way, and the theorem `SubscribeKeepsContract`
says of any number of subscriptions what `subs_stream` checks of one. Nothing in the upper modules depends on
identifiers, frames or cleanups.

The modules other than `RpcClient` also state the types of their variables
(`TypeOK`, `SubsTypeOK`), as a description of the state; the runs spend their time
on properties that say more.

What some of them say, and do not say:

- `OnlyPermittedRuns` is stated against the release that *runs* the call, not the
  one that was asked, so it depends on both requests going over one connection: with
  a session asked for a second time (the mutant `CallAgain`) it fails. Of arguments
  it says that those a tool looks at are in order. That no denied argument gets
  through at all is `NoRouteAround`, which does not hold.
- `JobsCanBeFollowed` is about methods of which the target had said whether they are
  jobs. When the look-up fails, a job that was started is answered with its bare id,
  as if that were the result: see the end of this document.
- `FileAsItIs` leaves out the download whose job was not seen to end in time, which
  the code gives "the benefit of the doubt". Of a file told as text and cut it says
  that what is told is text but for less than a character at its end; a file that is
  binary only in those last bytes, or only beyond the limit, is told as text, and
  the property does not deny it.
- `AnswerSaysWhatIsMissing` takes the target to honour a limit that is sent along. It
  is about concern tools and `search_methods`; `jobs(op=list)` asks for twenty jobs
  if it is not told how many and does not say that there may be more
  (`jobs_tool.go:44`).
- `SignalEnds` holds over HTTP although nothing is assumed of the tool call in flight:
  the deadline of `Shutdown` ends the process. Over stdio there is no deadline, and
  the property excepts the tool call that never returns.
- `QuietIsSilence` is about silence as the quiet timer sees it: when an entry is
  ready at the very moment the timer fires, the `select` may take either.
- `NoLeakedConnection` counts a connection as found when it is tracked. One that a
  straggler tracks after `CloseAll` has run is closed by the end of the process, and
  nothing is released when an MCP session ends, although
  `openspec/specs/mcp-transport/spec.md:135` asks for it (`Release` has no caller).
- `OneLiveSession` is one connection per credential, as `mcp.go` and `session.go` have
  it. `openspec/specs/truenas-connection/spec.md:80` says a connection "SHALL NOT be
  shared across sessions": two MCP sessions of one credential do share theirs.
- `OwnCredential` says that two credentials share a connection only if they have one
  identifier, and in the run two have: TLC goes through what becomes of them. It does
  not say that credentials never share one, which would be false there.
- `NeverServesDegraded` takes a switch for on only if it says so. A misspelt one is
  off, and the server starts: nothing is opened that way, but nobody is told.
- `RedeemedOnce` speaks of one form of a code, with a configured key of one process,
  and of claims made within the code's validity, which is what the comment in `replay.go` promises: an exchange can stall
  between `DecodeCode` and `Claim` for longer than the code lives, and then claim a
  second time what a first exchange claimed long ago. With any form, it is
  `CodeRedeemedOnce`, which does not hold.
- `KnownUntilTTL` counts from the creation of a task, which is what the client is told
  (`createdAt`, `ttlMs`), and excepts tasks from before a restart, as `tasks.go:43-45`
  does. It does not say that a *finished* task stays known for that long, which is how
  `tasks.go:55` puts it: a job may run for longer than its task is kept.
- `ToldTruth` is about the time between question and answer: what is told was so at
  some moment in it, an end is final, and a client that asks after the end is not
  told "working". A client that asked before may be told so after.

`CHECK_DEADLOCK FALSE` appears in every cfg: in each model all calls return, all
requests are served and the bounded environment has nothing left to do, which is
no error. Being stuck while someone waits is what `NoLostWakeup`,
`AwaitedCleanupRuns`, `HeldByOpen` and the liveness properties exclude.

## Bounds

The safety invariants are proved for all values of the constants ([below](#what-is-proved));
the bounds matter for the liveness properties, for the runs that end in a violation,
and so that each invariant is also seen at work, with its mutant, on an instance where
the interesting cases happen.

- `rpc`: two calls. A cross-talk, a double close or a lost wake-up needs one
  caller that does something and one that suffers from it; both are
  interchangeable in the code, and the proofs cover any number. At most one stray
  frame is under way.
- `subs_*`: two subscriptions to one source, a buffer of one, two events: enough
  for one event buffered and one that overflows, for a late event of the old
  stream to meet a replacement, for two cleanups of one source.
  `subs_stream` takes one subscription, as its properties speak of one.
- `applogs`: a buffer of one, four events of size 0..2, at most two entries and
  three bytes: each bound can be met exactly, crossed, or missed.
- `server`: one tool call in flight at a time, any number of them one after the other
  (calls that run together meet in the client, the provider and the registry, which
  have their own runs); an inventory ends the sequence, as the identities of its
  calls are used up. Its sections are datasets (limited to one, up to two rows) and
  the two share protocols under one key, one row each. Eleven methods, one for each
  way through the gate, in two releases between which one becomes a job, one ceases
  to be a read and one disappears; lists of up to three items around limits of one
  and two; at most two of the seven arguments at a time; files of up to three bytes
  around a limit of two, with characters of two, any NUL and any invalid bytes;
  twenty environments, three that serve, one of them with a switch that cannot be
  read, one that probes, and sixteen that break one rule each.
- `session`: three tool calls, each of its own credential, and a probe; two of the
  credentials have one identifier. So two callers of one provider race while a third
  must not be mixed up with them; each opens at most one first and one replacement
  connection. For the provider it makes no difference whether two callers have one
  credential or two with one identifier.
- `oauth`: one API key, a safe and an unsafe redirect URI, two verifiers, two
  forms, two exchanges, five sealed values (a client, a code, and the tokens of an exchange
  and more), TTLs of one or two seconds of two ticks each, one restart. The
  clock runs to tick 7, past the end of the tokens of a code redeemed late. The key
  is generated; the proofs cover a configured one as well.
- `tasks`: two calls that make tasks and one synchronous call, a poller of the same
  credential and one of another, a TTL of one tick, two ticks, one restart.

## Fairness

Stated in `RpcClient!Fairness`, `SubsFairSpec`, `AppLogsFairSpec`, `FairServerSpec` and
`SessionProvider!FairSpec`, always weak, and only for what the Go runtime and the
operating system schedule: a goroutine that can run does; a read on a dead
connection fails in the end (TCP keep-alive is on by default in Go's dialer); a
write returns; a timer that runs fires (the cleanup's five seconds, the deadline
and the quiet interval of a collection, the ten seconds of `Shutdown`). In `Server`
the main goroutine and the listening one are fair, the handlers are not. Nothing is assumed of the target, of the
network or of a caller's context: the target may stay silent for ever. In
`SessionProvider`, used by the run `session_sticky` only, `Open` is also taken to
end, after the step `Settle` from which on the target fails nobody.

## What is proved

Every safety invariant that a passing run checks and both refinements are theorems:
they hold for every value of the constants that the named assumptions of the modules
allow, so for any number of calls, subscriptions, credentials, clients and files and
any limits, and not only on the instances of the runs. Each proof module extends the
module it is about, and states one inductive invariant (four in `Server_proofs`)
that TLC also confirmed on the instance of the run. It then has one lemma per action,
with a step for each part of the invariant that the action can disturb.

| Module | Theorem | Property | Run |
|---|---|---|---|
| `RpcClient_proofs` | `TypeCorrect` | `TypeOK` | `rpc` |
| | `AnswersNeverCross` | `OwnAnswer` | |
| | `ReadLoopNeverBlocks` | `RegisteredIsWaiting` | |
| | `NoCallerForgotten` | `NoLostWakeup` | |
| | `CallKeepsContract` | `ImplementsContract` (a refinement) | |
| `Subscriptions_proofs` | `NeverSendsOnClosed` | `RegisteredIsOpen` | `subs_safety` |
| | `NeverClosedTwice` | `DoneClosedOnce` | |
| | `WaitsForTheLiving` | `AwaitedCleanupRuns` | |
| | `NeverTwoStreams` | `OneStreamPerSource` | |
| | `NothingStranded` | `NoStrandedStream` | |
| | `DeliversItsOwn` | `OwnEvents` | |
| | `SubscribeKeepsContract` | `ImplementsStream` (a refinement) | `subs_stream` |
| `SessionProvider_proofs` | `TypeCorrect` | `TypeOK` | (in no run) |
| | `NeverShared` | `OwnCredential` | `session` |
| | `NothingLeaks` | `NoLeakedConnection` | |
| | `OneAtATime` | `OneLiveSession` | |
| | `LetGo` | `HeldByOpen` | |
| `OAuthServer_proofs` | `ExchangedOnce` | `RedeemedOnce` | `oauth` |
| | `NoAccessWithoutConsent` | `AccessFollowsConsent` | |
| | `NoLongerThanConsent` | `ConsentBoundsAccess` | |
| | `NothingElseBurns` | `OnlyGrantsBurn` | |
| `JobTasks_proofs` | `IdOfOneJob` | `TaskIsOwnJob` | `tasks` |
| | `WithinTheCredential` | `OwnTasksOnly` | |
| | `AsLongAsPromised` | `KnownUntilTTL` | |
| | `TellsTheTruth` | `ToldTruth` | |
| `AppLogs_proofs` | `LogIsWhole` | `NoHoles` | `applogs` |
| | `SilenceIsReal` | `QuietIsSilence` | |
| `Server_proofs` | `ServesAsConfigured` | `NeverServesDegraded` | `server` |
| | `SuccessIsClean` | `CleanExitIsClean` | |
| | `FilesToldAsTheyAre` | `FileAsItIs` | |
| | `RunsWhatWasJudged` | `OnlyPermittedRuns` | |
| | `StartedJobsAreTold` | `JobsCanBeFollowed` | |
| | `EveryArgumentCounts` | `NoArgumentDropped` | |
| | `CompleteOrSaid` | `AnswerSaysWhatIsMissing` | |
| | `SummaryIsHonest` | `SummaryTellsAll` | |

**RpcClient**, from `NoCallAssumption` alone (a placeholder is not a call). That an
answer is one's own depends on what is in the channel, which depends on the frame
read, which depends on the request the target answered, whose identifier must be
that of no other call. `Inv` is this chain: `UniqueIds` (identifiers are allotted
once), `RequestsOnce` (a request under way is its call's only one, not yet applied),
`RepliesOwn` (what the target has yet to answer or has answered bears the identifier
of the call it is about, and its verdict), `RegisteredIsWaiting`, `ChannelsOwn` (a
channel holds its own call's verdict), then `OwnAnswer` and `NoLostWakeup`.
`StepContract` maps each action to a step of `CallContract` or a stutter:
`TargetApply` to `Apply` (that it is the first time is `RequestsOnce`), `Receive` of
a verdict to `Answer` (by `ChannelsOwn`), and so on. `TypeOK` admits frames that
answer no request (`Unasked`), notifications among them, so that `Inv` also holds of
a client with subscriptions.

**Subscriptions**, from `SubsAssumption` (each subscription has a source and a call of
its own that ends it; the buffer holds at least one event) and `NoCallAssumption`.
The invariant has three layers. `Inv` of the client comes first, as its calls are the
client's. `Books` is what the client's own maps say: a registered subscription is
open, has no cleanup, and its source is in nobody's cleanup; a source that is being
unsubscribed has a cleanup whose `done` is still open. This layer alone gives
`RegisteredIsOpen`, `DoneClosedOnce`, `AwaitedCleanupRuns` and, mapped by `StateOf`,
the refinement of `StreamContract`. `Wire` is about what the client cannot see.
While the link is up, the subscribe of a stream is ahead of its unsubscribe in the
outbox (`Queued`), what may still open or feed a stream belongs to a subscription that
is registered or being cleaned up (`Asked`, `Watched`), so there is at most one per
source (`OnePerSource`). The answer to an unsubscribe comes after the last event of the
stream (`LastWord`): when the cleanup clears the source nothing of the old stream is
left in the inbox, which is why a new registration finds only its own events ahead of
it (`OwnAhead`) and in its buffer (`OwnBuffered`). The case that makes the layer
delicate is the connection that dies in between: most of it is conditional on the
link, and `failSubscriptions` empties what would be left.

**SessionProvider**, from `CallersAssumption`. `Stage` says what a caller inside
`Open` has by then, `Holding`, `Alone` and `Held` that it is the only holder of the
`Once` or the mutex of its provider and that nobody else is, `Session` that the cached
session is a finished connection of that credential and the only one tracked,
`Replacing` that it is replaced only when it is gone, and `Owned` that an open
connection is being opened or is found by `CloseAll`. `OneLiveSession` needs the last
four together. All of it is in terms of identifiers and holds for any `Hash`, however
many credentials it maps to one. `LoggedIn` says that a connection was opened with a
credential of the identifier of its caller, which is what `NeverShared` comes down to.

**OAuthServer**, from `OAuthAssumption`. `Value` says what its process put into a
sealed value, `Checked` that a code between its checks and its claim was fresh when
the clock was read, `Grant` what an exchange was given and until when it is good,
`Access` that a request let through bears a token of a grant. `Burnt` is why a code is
redeemed once in the form it was presented in: the replay cache remembers the claim
until the code itself has expired, whichever clock reading came first.
A restart forgets the claims; then
the key is another one, or the process is, and `Burnt` says nothing of codes under
another key nor, with a configured key, of those another process redeemed. The
theorem is stated accordingly: with a configured key it is about each process by
itself, and it does not cover a code in two forms, which `oauth_forms` redeems twice.

**JobTasks**, from `TasksAssumption`. `Registered` ties an entry to the call and the
credential it was made for, `Kept` says that an id no longer registered is older than
its client was told or from before a restart, `Pending` that what a poller waits for was
found under its own credential. `Replied` is why the round trip to the host does no
harm: a reply was the state of the job at some moment since the question, a job that
has ended keeps its end or is forgotten, and so what is passed on later (`Truth`) is
still so, or was when the client asked.

**AppLogs**, from `AppLogsAssumption`, so for every stream that `StreamContract`
permits. `Stretch` says that the buffer is the stretch of what was sent that follows
what the goroutine has read (less the event an overflow lost), `Offered` that the
goroutine holds the last one read, `Whole` that whatever precedes an entry and decodes
is an entry, `Ordered` that they are in order. `NoHoles` is stated index by index and
not over filtered sequences, as the provers cannot do induction over a sequence.

**Server**, from `EnvironmentsAssumption`, `DownloadAssumption`, `InventoryAssumption`,
`GateAssumption`, `DispatchAssumption`, `ConcernsAssumption` and `ToolsAssumption`
(catalogues are finite, lists are sequences of items). The composition has four
invariants, one for each part, and a lemma that a step of one leaves the others alone.
`LifeInv`: `ListenAndServe` reports nil only after `Shutdown` was called, and the
process waits for that report only when no request is left. `FileInv`: what a download
job wrote is a prefix of the file and all of it once it has succeeded. `ToolInv`: what
the target said of a method stands for as long as the connection that carried it is
up, and the call goes over that connection or not at all (`Judged`, `Stages`).
`SummaryInv`: the sections a summary was put together from do not change afterwards.
`NoArgumentDropped` and `AnswerSaysWhatIsMissing` rest on lemmas about `Resolve`,
`middlewareParams` and `shape` in the same module.

Only model-checked:

- Liveness: `RegisteredReleased`, `CancelledStreamEnds`, `ConsumerReleased`,
  `CollectionEnds`, `NothingLeftBehind`, `SignalEnds`. It needs weak fairness, so
  `ENABLED`, which the proof system does not handle.
- The four runs that end in a violation; a counterexample is its own proof.
- The types of the other modules' variables, where an invariant does not need them in
  full.

## Where the code and its words differ

1. `rpc_hang`. `Call` tests `closed` and not `readErr` before it registers. A call
   that arrives after `failPending` has run, on a connection whose write the
   kernel still takes, waits for its own context. The comment on `failPending`
   (`client.go:177`) and the connection specification say a dead connection
   releases every waiting caller. `RegisteredReleased` is the part that holds.
   `Subscribe` does test both.
2. `session_sticky`. The `Once` keeps the error of the first `Open` for the life of
   the process; `session.go:173` says every later call takes the
   "lazy-open-then-reconnect path".
3. `gate_nested`. `call_method` applies `CheckDenied` to the top of each object among
   its parameters (`discovery_tool.go:251`), a configuration write also to the
   options in it (`config_write_tool.go:58`). An argument that is denied to a method
   thus runs by the one path and not by the other, where `safety.go:87` says that
   "there is no route around it".
4. `oauth_forms`. `CodeReplayID` hashes the text of a code (`code.go:63`) and `open`
   decodes it leniently (`seal.go:49`), so that a code in another form is a new one
   to the replay cache; the comment on `CodeReplayID` says that a code redeems exactly
   once "regardless of what it decodes to".

Observed, without a run of their own:

- With a configured key a code outlives a restart and the record of its redemption
  does not, so it can be redeemed by each process. `replay.go:27-31` argues that this
  is harmless because the code would have expired, which within its sixty seconds it
  has not. `RedeemedOnce` excepts exactly this. (With `ConfiguredKey` set to `TRUE` and
  the conjunct on `process` taken out, the run `oauth` ends in this counterexample.)
- Everything about a credential is cached under the first eight bytes of its hash
  (`mcp.go:284`), so two credentials that agree there share a connection, which
  `openspec/specs/truenas-connection/spec.md:80` rules out ("reused for a different
  credential"). It takes a coincidence of 64 bits between two keys of one target.
  `OwnCredential` says that nothing less will do.
- When `core.get_methods` fails, `isJobMethod` says no (`config_write_tool.go:111`), and
  a configuration write that is a job is answered with its bare id as the result;
  `jobs_tool.go:34` says that mutating tools return a `job_id`. `JobsCanBeFollowed`
  excepts exactly this.
- `boolVar` (`config.go:384`) reads what is neither true nor false as false, and the
  server starts; `main.go:3` and the repository's README say that invalid
  configuration refuses to start.
- `prune` counts `taskTTL` from the creation of a task (`tasks.go:123`), the comment at
  `tasks.go:55` from its end: a job longer than an hour is forgotten before it ends.
- `ProbeURL` (`probe.go:13-22`) says `http://` whatever the listener speaks, so with a
  certificate configured the health check gets status 400 from a server that is well.
  `probe_test.go:18` says that a probe against a healthy server should succeed, and
  `deploy/truenas-custom-app.yaml:45` suggests a certificate in the file that has
  `-healthcheck` as its health check. In `Lifecycle` a probe may find either.
- `inventory.go:45` says a failed section is absent, yet `shares` can be listed under
  errors and still show the protocol that was read (`FailuresNamed` states that).
- When the caller of a log collection has cancelled, the answer nobody waits for may
  say `quiet`.
- A tool call that outlives the ten seconds of `Shutdown`, and a signal while stdio
  mode connects, make a signalled process exit with status 1, which the comment at
  `main.go:140-142` calls "not a failure worth a non-zero exit"; `CleanExitIsClean`
  states the other direction.
- `methodMetadata` tells a caller that the target has no such method, while
  `CheckDiscoverable` takes care not to.

## What is not modelled

- Names, texts, JSON layout, logging, the redaction and classification of errors:
  data on which none of the properties depends.
- The fields of jobs, datasets, apps: a job is its state, a row its rank, an event
  its size and whether it decodes.
- Discovery documents, the consent page's layout, the pages of MCP apps, the static
  resources: nothing in them changes.
- The schema summaries of `describe_method`, its examples and the caveats: wording.
- The tables of write operations and of denied methods, as tables: the models take
  one member of each kind.
- A write to a socket that never returns (`client.go:387`): it depends on the
  receive window of the peer, of which the code knows nothing.
- The MCP SDK, gorilla/websocket, `net/http`: seen only through how the code uses
  them.
- Wall-clock durations, except where two expiries are compared (`OAuthServer`,
  `JobTasks`).

## Plan

Order: what everything rests on first, what is most exposed to interleavings next,
tables and pure functions last.

1. `CallContract`, `RpcClient` *Done.*
2. `Subscriptions` on `RpcClient`, `StreamContract` above it. *Done.*
3. `SessionProvider`, `OAuthServer`, `JobTasks`. *Modelled and checked.*
4. `AppLogs` on `StreamContract`, `Inventory` on `CallContract`. *Modelled and
   checked.*
5. `ToolGate`, `Dispatch`, `Concerns`, `Tools`: the paths from a tool call to a
   middleware method. *Modelled and checked.*
6. `Download`, `Config`, `Lifecycle`, and `Server` composing them. *Modelled and
   checked.*
7. Proofs. *Done*: all safety invariants of the runs, and the refinements of
   `CallContract` and `StreamContract`. *Left*: the full type invariants of
   `Subscriptions`, `OAuthServer`, `AppLogs` and the parts of `Server`; action
   properties that say what a step may never do (an outcome, a redeemed code, a
   told summary is not changed again); that `AppLogs` over a real subscription
   inherits `LogIsWhole` through `SubscribeKeepsContract`. Liveness stays with TLC.
