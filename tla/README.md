# TLA+ specification of veidemann-browser-controller

The browser controller fetches pages for a web archive. It asks the *frontier* for a page,
drives a remote Chrome through the DevTools protocol, and lets all traffic go through a
*recorder proxy*, one per browser session, which asks the controller's gRPC API about every
request and tells it what it has recorded. This directory models the parts of that in which
goroutines, channels, contexts and messages meet, checks them with TLC, and proves the main
safety properties with TLAPS.

Line numbers refer to the files under `src/` as they are in this repository.

## 1. Inventory

| component | state it keeps | operations | talks to | hard because |
|---|---|---|---|---|
| browser controller `controller/browsercontroller.go` | `done`, `backoff`, `ctx` | `Run`, `Shutdown` | registry, frontier, API server, `main` | one goroutine per page, stop messages, order of deferred calls |
| session registry `session/registry.go` | `sessions`, `pool`, `wg` | `GetNextAvailable`, `Get`, `Release`, `CloseWait`, `NewDirectSession` | controller, API server | a channel send under a mutex, a wait with a time limit |
| session `session/session.go` | `ctx`, `loadCancel`, `frameWg`, `Requests`, timers | `Fetch`, `Notify`, `AbortFetch` | browser, registry of requests, log writer, cache | fields that API streams read while `Fetch` sets them, three nested contexts |
| event listeners `session/eventlisteners.go` | – | one callback per browser event | browser, request registry, wait group | a goroutine per intercepted request, new targets at run time |
| request registry `requests/` | `requests`, `rootRequest`, the fields of each request | `AddRequest`, `GetBy…`, `MatchCrawlLogs`, `Walk`, `FinalizeResponses` | listeners, API streams, `Fetch` | some reads take the mutex and some do not; crawl logs arrive while paths are derived from them |
| frame wait group `syncx/waitgroup.go` | `counter`, `state`, two channels | `Add`, `Done`, `Wait`, `Cancel` | listeners, `Fetch`, API streams | lock-free |
| completion timer `syncx/completiontimer.go` | `done`, `started`, timers, `doneChan` | `Notify`, `WaitForCompletion`, `Cancel`, `Reset` | API streams, listeners, `Fetch` | plain fields written from several goroutines, timers that fire late |
| API server `server/` | per stream: `sess`, `req`, `ctx` | `Start`, `Close`, `Do` with `New`, `Notify`, `Completed` | proxies, registry, sessions | stale variables over several messages, panics |
| scripts `session/script.go`, `script/script.go` | the scripts of a page | `loadScripts`, `GetReplacementScript`, `executeScripts`, `script.Run` | browser, cache | chains of scripts that pass data |
| frontier client `frontier/frontier.go` | – | `GetNextPage`, `PageCompleted` | frontier | a stream that may break at every message |
| configuration cache `database/cache.go`, `dbadapter.go` | `entries` | `GetConfigObject`, `GetScripts`, `purge` | database | read, query and store are not atomic |
| database connection `database/database.go` | `session` | `Connect`, `execRead`, `wait` | RethinkDB | every goroutine reconnects on its own and overwrites `session` |
| screenshot writer `screenshotwriter/screenshotwriter.go` | – | `Write` | content writer | a stream of four messages that may break |
| clients for robots evaluator, logs, connections; metrics, logger, tracing, errors, URL, main | – | calls | other services | – |

What makes the modelled components correct:

* *controller and registry*: a session is used by one page at a time; nothing blocks while a
  mutex is held; the wait group counts what `CloseWait` has to wait for; a page that was taken
  is reported; after a stop at most one more page is taken; `Run` returns the right error, and
  returns at all.
* *wait group and timer*: no lost wakeup, no channel closed twice, a wait ends neither too
  early nor too late, success means what it says of the requests known when the wait began.
* *session and API streams*: a request of the browser is known when the proxy asks about it;
  the first request is the navigation; a crawl log whose message was answered is written; an
  abort has one outcome; `Fetch` ends whatever the proxies do and unless the browser leaves a
  command unanswered that has no deadline, and streams end with it.
* *end of Fetch*: crawl logs, resources, screenshot, page log and report tell the same story, and
  discovery paths lead back to the seed, whatever arrives meanwhile.
* *cache and connection*: what is used is not too old, entries leave, a query ends, fails only for
  a reason and is answered by the attempt that read the answer, and connections do not pile up.

The hazards behind these are listed, each with its line, in `PROJECT.json`.

## 2. Modules

| module | models | state and actions |
|---|---|---|
| `SessionPool` | what controller and registry promise together (abstract) | sessions free, reserved or lent to a page; a page waiting, running, reported, finished |
| `Controller` | `browsercontroller.go`, `registry.go`, `Start`/`Close` of the API server, the callers of `Shutdown` in `main.go` | one variable per field or channel; `loop`, `task`, `api`, `stopper` are the positions of the goroutines; one action per channel operation, mutex section or call |
| `WaitGroup` | `syncx/waitgroup.go` with its users | one action per atomic instruction or channel operation |
| `CompletionTimer` | `syncx/completiontimer.go` with its users, `MatchCrawlLogs` | a check is one action for the list it ranges over, one per crawl log it reads, one that stores `lastCheckResult` and one that loads it; one action per access to `started`, `done`, `doneChan`; arming the timers is one; `stage`, `upTo`, `found` are the position of each goroutine in its check; time in ticks |
| `Session` | `Fetch`, contexts, interception, request registry | `fetch` is the position in `Fetch`; one action per step another goroutine can come between; `closeErr` says that `chromedp.Cancel` has failed |
| `ApiServer` | `server.Do`, composed with `Session` (EXTENDS) | per stream its position, `sess`, `req`, its context, and the message being handled |
| `ScriptRun` | `session/script.go`, `script/script.go` and the phases of `Fetch` | `phase` and `pc` are the positions in `Fetch` and `Run`, `todo` the places in the list of scripts that are still to come; `runnable`, `next`, `data`, `args` are the variables of the code; one action per branch of `executeScripts` and `Run` |
| `Query` | what a database query promises its caller (abstract) | `stage`: asked, read, lost again, answered or failed |
| `Database` | `Connect` and `execWithRetry` of `database.go`, used by several clients | `session` and `open` are the connections; `query`, `attempts` and `link` the position, the variable and the session of each client; one action per call and per branch of the `switch`; the database goes and comes |
| `ConfigCache` | `cache.go`, `dbadapter.go`, over the queries of `Query` (EXTENDS) | `age` and `expires` are the entries; `pc`, `next`, `copy` the position and result of each lookup; one action per step between which others run; `Change` in the database, `Purge`, `Tick` |
| `Harvest` | `FinalizeResponses`, `saveScreenshot`, `Walk`, logs and result of `Fetch`, `screenshotwriter.Write`, `PageCompleted`, while messages still arrive | `path`, `parent`, `root` are what `FinalizeResponses` sets; `pc`, `at` the positions; `crawlLogs`, `resources`, `pageLog`, `result`, `told` what is written and sent; one action per read or write that others come between |
| `MCApiServer`, `MCScriptRun`, `MCConfigCache`, `MCHarvest` | the instances for TLC: a crawl log for every message that can deliver one, and symmetry; a list of scripts with their types; what a `Fetch` looks up; three pages | the other modules are instantiated by their `.cfg` alone |
| `ControllerProofs`, `WaitGroupProofs`, `CompletionTimerProofs`, `ApiServerProofs`, `ScriptRunProofs`, `DatabaseProofs`, `ConfigCacheProofs`, `HarvestProofs` | theorems | |

How they fit: `Controller` hands a page to `Session`, which `ApiServer` composes with the streams; it
takes waiting from `WaitGroup` and `CompletionTimer`, scripts from `ScriptRun` and configuration from
`ConfigCache` as steps with every outcome those allow. `Harvest` is the end of `Session` with the
contents of its records. `ConfigCache` is built on `Query`, which `Database` implements.

Definitions carry the names of the code where they can. A definition that stands directly
before another with a similar name and a flaw (`SpawnKeepsHeld` before `Spawn`) is a variant
of it as a plausible slip would have left it; `PROJECT.json` pairs each with the property it
breaks. They are used by no specification.

### Abstractions

* Pages, requests and callers are model values. A crawl log is named by the message that
  delivers it; of its content only "has a WARC id" is kept.
* `Controller` takes `Fetch`, `GetNextPage` and `PageCompleted` as calls with an outcome.
  `late` and `timedOut` are history variables.
* `Session` covers one page in one slot. `FramesStop` may happen at any time: when exactly
  `Wait` returns nil is the subject of `WaitGroup`; likewise `TimerWait` and `CompletionTimer`.
  URL, id and network id of a request are one value, except that a preflight is looked up by
  URL and redirects share the network id of the navigation.
* A panic is an outcome of its own: `result = "panic"` (recovered by `Fetch`), `pc = "panicked"`
  (recovered by `Do`), `adder = "panic"` (recovered by nobody).
* Assumed of the browser: it asks for the page first, follows a redirect or loads resources
  when the page has been answered, asks again only for new requests. Assumed of a proxy: one
  `New` by id for a request it was sent, one `Completed` for a `New`, `Cached` only for a
  request it was allowed to make.
* `Harvest` has each page as a given sequence of requests, the registry's order: network id, URL,
  referrer, and whether its crawl log has a WARC id. A request gets at most one `Completed`; that
  several streams may complete one is the subject of `ApiServer`.
* `ConfigCache` keeps of a copy of an object for how long the database has had a newer one (`Current`
  when it has none), and of points in time how many ticks are left. `MaxAge` bounds ages; it is above
  everything that `StalenessBounded` allows. Time passes only while all clients are idle or wait
  for a query: code between two statements takes no time.
* `Database` has a session connected or not; which server, how many sockets, and what was asked for
  is left out. An unconnected session is what `r.Connect` returns with its error.
* Data races on plain fields (`CrawlLog`, `FromCache`, `idleTimeout`, `started`, `lastCheckResult`,
  and the list that `MatchCrawlLogs` ranges over) are modelled as atomic accesses that interleave
  in every order, not as torn values.
* Of a failing check `CompletionTimer` keeps the first request without a crawl log: what is read after
  it changes only a count that is logged.

## 3. Runs

`timer` takes about a minute and a half on two cores, `controller` and `scripts` one, `api`,
`api_one_stream`, `cache` and `harvest` about half of one, the others some seconds.

| run | instance | shows |
|---|---|---|
| `controller` | 2 pages, 2 sessions (`MaxSessions = 3`), 2 callers of `Shutdown` | exclusive sessions; slots, wait group and gauge agree (`AccountsAgree`); no send blocks (`SendsHaveRoom`); one late page; clean close; `Run` stops for a reason; `Shutdown` ends `Run`; a page is reported; `Controller` implements `SessionPool` |
| `waitgroup` | 2 targets with 2 loads each, 2 cancellers | no lost wakeup, one close, `Wait` ends when the frames have stopped |
| `timer` | up to 2 requests with a stream each, 1 canceller, idle 2, total 4 ticks; `timer` (with a check, 1 wait) and `netActivityTimer` (without, `QuietWaits = 2` with a `Reset`) | success is real for every request known when the wait began (`SuccessIsReal`), one close, idle timeouts neither early nor late, the wait ends |
| `api` | 2 streams with 1 exchange each; page and resource | an answered crawl log is written (`AckedLogsHarvested`), requests are known and the navigation first (`RequestsInOrder`), a fetch aborted for a cached page is not timed out (`AbortNotTimeout`), while handlers interleave with each other and with `Fetch` |
| `api_one_stream` | 1 stream with 2 exchanges; page and redirect | no channel is closed twice although `sess` and `req` may be stale; `Fetch` ends unless the browser leaves a command without deadline unanswered for ever (`FetchEnds`), bound streams end |
| `scripts` | 5 scripts of 4 types, 2 keys, 2 values | a chain stays in its phase and world (`OwnPlace`) and its arguments in the chain (`ArgumentsFromChain`), scripts of these two phases that do not end are left |
| `database` | 2 clients, 2 retries | enough retries fail only when the database was in trouble, connections left behind are bounded, queries end, `Database` implements `Query` |
| `cache` | 2 clients, an object and a selector, times to live 0 and 2 ticks, purge after 1 more, queries of 1 tick | what is used was replaced no longer ago than its time to live and one query; no entry outlives the second purge |
| `harvest` | 3 pages of 4 requests: two redirects and a resource; a redirect and a chain of referrers; a page that asks for itself, is redirected and loads a resource. 0 or 2 outlinks | discovery paths lead to the seed (`PathsFromSeed`), records agree (`RecordsAgree`), the report is right (`ReportIsRight`) |

Why the bounds are enough. Two sessions let one be busy while the other is released and used
again; two pages are taken at once or one after the other, and the loop waits while both sessions
are used (the proofs cover every number); two callers of `Shutdown` fill `done` and make one wait
for room, as a caller and the API goroutine do. In `WaitGroup` two targets are needed for every
known race, and a third does not change what can be between a decrement and its swap. In
`CompletionTimer` the streams of two requests race for the swap and overwrite each other's
`lastCheckResult`, a check can miss the first request, or have read it, when the second is added or
gets its log, and with `MaxTotal = 2 * MaxIdle` the idle timer is set anew to what is left until
`idleTimeout`, also more than once, and fires again before the total time is over.
In `ApiServer` two streams make all pairs of handlers interleave; a second `New` on one stream is what makes its variables stale, and the
redirect gives it a second request with the network id of the first. In `ScriptRun` two scripts of
a type and one without let a chain name scripts ahead, behind and of another kind, two keys let a
value survive next to a new one; chains themselves are not bounded. In `Database` one client's
reconnect meets the other's at every step, and an outage may begin and end anywhere; outages are
not bounded. In `ConfigCache` a slow query of one client overtakes the store of the other, an entry
expires before and after a purge, and the time to live of 0 turns the cache off. In `Harvest` every
subset of the first crawl logs is there at the start, and the others come, with the remaining
requests, between any two steps. Bounds in guards: `MaxNews` (messages `New` of a stream), `MaxLoads`
(loads of a target), `QuietWaits` (waits of `netActivityTimer`), `MaxAge` (ages count no further);
frontier pages are finite, API failure is one-way.

### Disagreements the runs show

Three runs are expected to be violated; each checks one thing that the code says of itself.

1. `waitgroup_spurious` – `session.go:335` "Wait for frames to finish loading": `Add` tests for
   zero and then swaps the state; a zero from before `Wait` ends it while frames load.
2. `scripts_data` – `script.go:37-39`: arguments are annotations and the data of the previous
   script. `json.Unmarshal` merges into the map of the one before (`script.go:92`), so a key may come
   from an older script of the chain.
3. `scripts_precedence` – `script.go:36-39` compiles arguments "from current script annotations, seed
   annotations and ..."; `script_test.go:152` has the order "ReturnValue.Data > seed annotations > script
   annotations". `script.go:57-63` uses a script's annotations only to select keys of the seed's: their
   values are never arguments. `ArgumentsFromChain` states what does hold.

### Limits of the code met on the way

Each follows from the code as modelled; no run is spent on it.

* A new target runs before its page events are listened to (`eventlisteners.go:104-121`); a missed
  start makes the count negative, and `Wait` ends only at the page load timeout (`WaitGroup` with
  `LateTargets` not empty, `WaitEnds`).
* `AbortFetch` stops the frames before it cancels the wait, and `FromCache` is set after it
  (`server.go:325-327`); `Fetch` may render and report a page that is "Already seen".
* `timer` may end with success although a request has no crawl log: one that was registered after a
  check had taken the list (`requests.go:113-132` reads it, and each crawl log, without the mutex).
  `SuccessIsReal` is therefore about the requests known when the wait began, and there need be no
  moment at which every request known then is complete.
* `lastCheckResult` is one field for all goroutines: a stream that stores FALSE between Fetch's own
  check and its `if` turns a wait that was complete into a timeout (`completiontimer.go:93-94, 100-101`).
* The screenshot (`session.go:561`), the scripts that extract outlinks and whose promise is awaited
  (599-606) and the cookies (504) are commands under the session's context, which has no deadline
  (`browsercontroller.go:54, 119`): a page that blocks its main thread, or a promise that never
  settles, keeps `Fetch` and its session for as long as it likes; `CloseWait` gives up on it, but once no
  session is left `Run` waits in `GetNextAvailable`. `FetchEnds` names the case.
* An error of `chromedp.Cancel` is only logged (`session.go:366-368`). The context then stays alive until
  the deferred cancels, and a message may be accepted too late for its crawl log to be written
  (`closeErr` in `AckedLogsHarvested`).
* A `Completed` for which there is no session is logged as such, and then `sess.Id` of nil is read
  (`server.go:300-304`): the model has the panic (`CompletedWithoutRequest`), which `Do` recovers.
* `session.go:343, 409` test for a missing initial request; `requests.go:49` panics instead of
  returning nil, which `Fetch` recovers as a runtime error.
* A query needs a retry for each client to be sure to survive an outage (`FailsOnlyInTrouble`): with
  the default of 5 retries and more sessions than that, a query may fail although the database is
  back. Clients that reconnect together leave connected sessions open that nothing closes
  (`ConnectionsBounded` says how many).
* A crawl log that arrives after `FinalizeResponses` has passed it is written without a discovery
  path, and what follows from it then starts its path anew: `PathsFromSeed` is about logs in time.
* A request that names itself as referrer takes an empty path for its prefix, for its URL is
  entered before its referrer is looked up (`requests.go:147, 158`).
* A resource may name a crawl log that arrived between the two reads of `Walk` and is not written
  (`session.go:376, 384`): `RecordsAgree` says that only such a log can be missing.
* A page log may be written for a page that is reported as failed (`session.go:440`, when there are
  outlinks and no crawl log of the root request), and `RenderResult.Error` of a page that was
  rendered is not sent to the frontier (`frontier.go:116-160`).

## 4. Fairness

`Controller`: every goroutine that can run does (weak fairness of the loop, of each page
goroutine, of a `Shutdown` that is sending, of the API goroutine's own steps). Nothing forces a
call of `Shutdown`, an API failure, or pages to be there. That `Fetch`, `GetNextPage` and
`PageCompleted` return is an assumption: when `Fetch` does is the subject of `api_one_stream`, and that
the browser may keep it for ever one of the limits above; the two gRPC calls have no deadline in
the code. `MaxSessions` is at least 2 in the runs: with 1 the pool is
empty, `Run` blocks in `GetNextAvailable` (line 86) and never looks at `done`.

`WaitGroup`: callbacks and `Wait` run, frames that load stop. The deadline is not assumed.

`CompletionTimer`: only `netActivityTimer`, which has no check, is reset by the code, and it is never
closed by a success. The waiter runs and time passes; `Tick` waits for a waiter that has something
to do, so that its reaction time counts as zero. (Only while the idle timer is due and `idleTimeout` is this
very moment does the loop spin, until the clock goes on.) The streams owe nothing: they may stop in
`Notify`, and notifications may go on for ever.

`Database`: goroutines run, an attempt ends with its context's timeout, `wait` and `Connect` have time
limits of their own (`database.go:64, 67`), so every step of a query is weakly fair. The database
need never come back, and may go and come for ever. `ConfigCache` and `Harvest` are checked for safety
alone: their steps are queries, which `Database` ends, and calls of other services, which the
code does not bound.

`ScriptRun`: `Fetch` goes on and `loadCtx` ends; what is begun with `loadCtx` fails once it is over.
A script need not return. `WaitForCompletion` returns, which `CompletionTimer` shows. The two phases of
the model are those that run with `loadCtx`; the scripts that extract outlinks (`session.go:599`) run
without a deadline, and `ScriptsEnd` says nothing of them.

`ApiServer`: `Fetch` and handlers run, the clocks of `loadCtx` and of an unbound stream run, and the
other services (log and content writer, cache) answer. A command to the browser under the session's
context (`OpenTab`, `InitTasks`, `Extract`, `CloseBrowser`, and `Stop` in `AbortFetch`) may never return; it
does, with or without success, once that context is over. Not assumed: that the page is answered or
its frames stop, that the browser asks for anything, that a proxy says anything. The steps of
`Fetch` that depend on those (`NavigateGivesUp`, `FramesStop`) are not in the fairness condition.

## 5. Proofs

`ControllerProofs`, for every `MaxSessions >= 1`, every set of pages and of callers:

1. `Places` – the pool has no duplicates, `Run` holds an id exactly in `register` and `getPage`, a
   goroutine has one exactly while it is busy, and these three are disjoint. With `TypeOK` it is
   inductive (`NextPlaces`: a step per action that moves an id; the rest by `NothingMoves`).
   `SessionExclusive` alone is not: that an id which is released is in use at that moment
   (`HeldInUse`, `SessInUse`) has to be known. It gives `SessionsExclusive`, and with a pigeonhole
   over `Ids` `ReleaseHasRoom`, one half of `SendsNeverBlock`.
2. `Signals` – `backoff` is empty beyond the select, `late` is 0 until a message is in `done` and
   the loop beyond its select, an error is in `done` before `ctx` is cancelled, a nil message stems
   from a caller. It gives `OneLatePage`, `BackoffHasRoom` (the other half of
   `SendsNeverBlock`), and `CancelledLoopEnds` and `NilMeansShutdown`, together `StopsWhenTold`.
3. `Slots` – occupied slots are the ids in use, finitely many, and counted by `wg`: `SlotsAreInUse`,
   `WaitGroupCountsSlots`.
4. `Closing` – a goroutine past its report has an outcome, and nobody is left when the wait group
   was seen at zero: `ClosesClean`.
5. The refinement – the mapping of section 2 takes `Acquire` to `Reserve`, `GetPage` to `Lend`,
   `GetPageNotFound` and `GetPageFails` to `Return`, `NewSessionFails` to `Lose`, `ReportPage` to
   `Report`, `ReleaseTask` to `Finish`, and every other step to a stutter. It needs `Places` (an id in
   the pool is there once, an id held is one) and from `Closing` that a page is reported before its
   session is released: `ControllerImplementsPool`. `GaugeIsRight` adds a count to the finite set of
   active pages; with `SlotsAreInUse` and `WaitGroupCountsSlots` it is `AccountsAlwaysAgree`.

Assumptions: `MaxSessions \in Nat \ {0}` and `NoSession \notin Ids`.

`WaitGroupProofs`, for any targets, late targets, cancellers: `IInv` – a waiter has marked the
state, there is at most one closer and only between the swap to 2 and the close, and with the
state still at 1 and the count at zero somebody stands before the swap. It gives `NeverLosesWakeup`
and `ClosesDoneOnce`. The unproved neighbour, `WaitsForFrames`, is false for two targets.

`CompletionTimerProofs`, for any streams, cancellers and times: `Closing` – the one who swaps `done` away
from 0 is the one closer, and a timer without a check is never swapped to success, so that `Reset`
finds nothing to undo (this is where that assumption of the code shows); `Unchecked`, `Unasked` – there is
no success without a check and no check before the first wait; `Reading` – a check in progress ranges
over at least the requests the wait is about, and those it has read have their crawl log; `Seen` –
`lastCheckResult`, and whoever goes on because of it, means that all of them have, whichever goroutine
stored it: crawl logs are never taken back, so a stale TRUE is still true; `Idling` – the time since the last `Notify` and what is
left until `idleTimeout` are together `MaxIdle`, and the timer never stands beyond it. They give
`ClosesDoneChanOnce`, `SuccessAlwaysReal`, `IdleAlwaysOnTime` and `IdleNeverEarly`.

`ApiServerProofs`, for any requests, streams and number of messages: `Order` – the browser is ahead of a
request only when it is registered, and of another than the navigation only when that has been
answered; `Delivery` – crawl logs belong to registered requests, and a message is acknowledged
once; `Harvest` – when logs are collected the browser context is over and nothing is
acknowledged any more, or closing the browser has failed and what is acknowledged is in `lateAcks`; `Abort` – a fetch is aborted when its page has a crawl log; `Cancelling` – the
stream that is about to cancel `frameWg` is the only one about the page, and is not asked again. They give
`RequestsAlwaysInOrder`, `AckedAreHarvested`, `AbortsAreNoTimeouts`, `CancelsOnce`. `AckedLogsHarvested` alone is not
inductive: that a stream cannot acknowledge behind `CloseBrowser` has to be known. Of the types
(`TypeCorrect`) two are results of their own: `Len(registry) = Cardinality(Registered)`, no request is
registered twice, needs that a registered request is never paused again (`Once`); and that the
request at the end of the redirects exists needs the last of a set of positions (`LastOf`).

`ScriptRunProofs`, for any scripts, types, chains, keys and values: `Placed` – the scripts in the map match
the page and are of the phase or of no type, those still to come are of the phase, and what is called is in
the map; `Worlds` – on the loaded page the world is that of all scripts called, in a new document that of
the script alone; `Chained` – `data` is among what the chain has returned, with the last object on top, and
arguments are built from it. `TypeOK` is not inductive alone: that the script a chain goes on with is one
there is takes `Placed`. They give `TypeCorrect`, `AlwaysOwnPlace` and `AlwaysFromChain`.

`DatabaseProofs`, for any clients and retries: `Counted` – `Begin` and `Retry` leave room for one more
attempt – makes the types inductive; `ClientRefines` maps every step to one of `Query` or a stutter:
`DatabaseImplementsQuery`. An attempt that times out after the database has read is `Lose`, the last
one `Fail`. `RetriesLeft` – for a query that has seen no trouble, the attempts made, the clients that hold
a session dialled in vain and, before an attempt, a session that is not connected are together no
more than the clients – gives `RetriesAreEnough`: every lost attempt uses up one of those sessions,
and none is made while the database is there. `DialsLeft` is about connections nobody
closes. An outage closes all there is. Once the database is back, the connections that are open, the
clients that will connect because they have met a closed session (`Dials`), those that will meet the
unconnected one in the field (`Still`), and what the unconnected sessions that are still to be assigned can
cause (`ToCome`: each makes all but the holders of the others connect once more) are together at most
1 + 2 + … + `N`. No step raises that sum, and it gives `ConnectionsAlwaysBounded`;
`ConnectionsBounded` alone says nothing of what is
to come.

`ConfigCacheProofs`, for any clients, lookups and times: `EntriesBounded` – the age of an entry and what
is left of it are together at most `ttl + QueryTimeout`, since `Tick` adds to the one what it takes
from the other, and purge is never further away than it may be; `CopiesBounded` – the same for what a
query has read and what is left of its attempt. They give `NeverTooStale` and `EntriesAlwaysLeave`. The
theorem uses of `Query` only its actions; that the connection keeps to them is the theorem above.

`HarvestProofs`, for any pages and outlinks: `Walked` – up to where the walk has come, the logs that
were there when it began are collected, and what is collected is a resource; `WalkInv` – what
holds at the other positions, with the record a screenshot belongs to; `Telling` – what the frontier
has been told is a beginning of the report. They give `RecordsAlwaysAgree` and `ReportsAreRight`.
`Paths` – every request `FinalizeResponses` has come by has a path that follows the way to it, and the
others none yet – and `Roots` – the root request is the last one so far with the network id of the first –
give `PathsAlwaysFromSeed`; with `Shape`, the bounds of the loops, all types (`TypeCorrect`). The reference
`Way` is a recursive function over the page. That it has a value at each request (`WaysStep`) and ends there (`WaysLead`)
is an induction over data: in place of an induction theorem, which takes an operator, the proofs take the
first request for which the claim fails (`Least`, from `WFMin` and `NatLessThanWellFounded`) and refute it. It
rests on a request never coming from a later one, which `Latest` ensures: both maps of
`FinalizeResponses` hold only requests up to the current one.

Assumptions of these: the sets and bounds of each module's `ASSUME`, which TLC evaluates on the
instances: clients are finitely many and at least one (`DatabaseAssumption`), times are numbers (`TimesAssumption`,
`CacheAssumption`), `MaxAge` is above what is allowed, pages are sequences that are not empty (`HarvestAssumption`), values that stand for nothing are not
requests or logs (`RequestsAssumption`, `StreamsAssumption`).

Only model-checked: everything about liveness, which is beyond the proof system: `ShutdownTerminates`,
`EveryPageReported`, `WaitEnds` of both `syncx` modules, `FetchEnds`, `BoundStreamsEnd`, `ScriptsEnd`, `QueriesEnd`. Every
invariant and every action property that a passing run checks is also a theorem.

## 6. Plan

In order of importance; the first ten are done.

1. `Controller` + `SessionPool`: runs, refinement, proofs.
2. `WaitGroup`: runs, proofs.
3. `Session` + `ApiServer`: runs, proofs.
4. `CompletionTimer`: runs, proofs.
5. `ScriptRun`: runs, proofs.
6. `Query` + `Database`: runs, refinement proved.
7. `ConfigCache` over `Query`: runs, proofs.
8. `Harvest`: discovery paths, records, screenshot and report: runs, proofs.
9. Proofs of the controller's invariants and of the refinement.
10. Proofs of `NoDoubleCancel`, `FailsOnlyInTrouble`, `ConnectionsBounded`, the invariants of `ScriptRun`,
    `PathsFromSeed`, and the types of `ApiServer` and `Harvest`.
11. A slot that serves a second page (late messages of the previous page), the time limit of `Send`.

## 7. Not modelled

* A registry slot used for a second page, so that a late message meets the next page's requests:
  request ids are unique per browser only, and `ApiServer` has one page.
* `Send`'s time limit and the statistics handler of the API server.
* `execWrite` (no caller), `Close` and the codec of the database connection; what queries ask.
* Cookies, workspace cleaning, dialogs, the content of outlinks and of screenshots, robots policies
  (a table), the choice of the replacement script with the longest match: data without control.
* Logging, tracing, metrics other than one gauge, errors and URL normalisation, dialling and flags
  at start-up, Kubernetes files, test doubles.
