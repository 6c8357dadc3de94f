# A TLA+ model of bproxy

bproxy sits in front of an execution client: it proxies `authrpc` (the engine
API), `rpc` and `flashblocks` (a websocket stream), and mirrors some of the
calls to peers.  This directory models its own logic, checks it with TLC on
small instances, and proves the main safety properties with TLAPS.

Paths are relative to the repository; `PROJECT.json` maps every definition to
the lines it models.

## 1. Inventory

### Parts and how they interact

| Part | Code | State | Operations |
|---|---|---|---|
| HTTP proxy, job pipeline | `proxy/http.go`, `proxy/jobs.go` | two proxy channels, two mirror channels per peer, the jobs and their WaitGroups | `receive`, the proxy job loop, one mirror job loop per peer, `execProxyJob`, `execMirrorJob` |
| HTTP proxy, connections | `proxy/http.go` | `connections`, `drainingConnections` (under `mxConnections`) | `upstreamConnectionChanged`, the draining check of `receive`, `ResetConnections`, `Stop`, `backendUnhealthy` |
| Healthcheck | `proxy/healthcheck.go` | ring buffer `statuses`, `isHealthy` (under `mx`) | `check` on every tick, `stop` |
| Ring buffer | `data/ring_buffer.go` | `data`, `head`, `tail` | `Push`, `Pop`, `Pick`, `Forget`, `At`, `Length` |
| Authrpc proxy | `proxy/authrpc.go` | `seenHeads` (under `mxSeenHeads`), a ticker | `triage`, `alreadySeen`, the sweep in `run` |
| Rpc proxy | `proxy/rpc.go`, `jrpc/jrpc_call.go` | none | `triage`, `triageSingle`, `triageBatch` |
| Websocket proxy | `proxy/websocket.go` | `connections`, `pumps` (under `mxConnections`) | `receive`, `websocket` (the session's handler), `upstreamConnectionChanged`, `ResetConnections`, `Stop` |
| Websocket pump | `proxy/websocket_pump.go` | per direction the channel `messages` and three goroutines; `failure`, `done`, `active` | reading, writing, terminating, the handlers for pings, pongs and close frames, `run`, `stop` |
| Server | `server/server.go` | the signal channels, `failure`, the proxies | the loop over SIGHUP, termination and failures, the stops in order |
| Metrics | `metrics/` | instruments, candlestick accumulators | `add`, `observe` |
| Configuration | `config/` | none after start | validation, removal of the backend from the peers |

Interactions: the authrpc and rpc proxies *are* HTTP proxies whose `triage`
callback decides whether a request is proxied, prioritised and mirrored.  The
flashblocks proxy is a websocket proxy.  Each proxy has a healthcheck whose
callback `backendUnhealthy` calls `ResetConnections`; SIGHUP makes the server
call `ResetConnections` on all of them, termination calls `Stop`, which ends in
the same reset.  Handlers, job loops, tickers, hooks of fasthttp and signals
all run concurrently.

### What is hard, and what makes each part correct

* **Job pipeline.** Handler, job loop and mirror loops share a job; channels
  fill; the backend fails; peers hang; `select` is random.  Correct if a job is
  executed once and not after its objects were released, answers are complete,
  a hanging peer never delays a client, priority means what it says, and
  requests get answered.
* **Connections.** Resets race with hooks, handlers and the shutdown, and both
  maps are keyed by an address that is used again, perhaps before the last hook
  of its old connection has run.  Correct if the maps hold no dead connection and
  lose an open one only to another of its address, a reset lets through at most
  one more response and then closes, and `Stop` leaves nothing that is served
  forever.
* **Healthcheck.** Two thresholds over one window.  Correct if exactly the
  streaks decide and the verdict follows the backend both ways.
* **Ring buffer.** Growth of a wrapped buffer.  Correct if it is a deque.
* **Authrpc.** Deduplication answers in the backend's stead, even if the call it
  relies on failed.  Correct if duplicates are suppressed, staleness is bounded
  and the backend gets to the client's head in the end.
* **Rpc.** Correct if transactions are recognised in whatever form they come.
* **Websocket.** A reset waits for pumps with the lock held; pumps fail
  meanwhile, and addresses are used again.  Correct if resets return and leave
  nothing open that they found active.
* **Websocket pump.** Six goroutines, bounded channels, writes that fail, a stop
  at any time.  Correct if each direction is a stream without gaps, neither side
  stays open behind the other, and nothing runs on that should not.
* **Mirroring.** Updates to a peer are deduplicated, dropped, lost and overtaken.
  Correct if the peer gets to the client's head and stays there.
* **Server.** Signals are merged and come during resets that take minutes.
  Correct if none is lost and a termination completes.

`PROJECT.json` lists the single hazards with the line where each bites.

## 2. Modules

| Module | Models | Extends / instantiates |
|---|---|---|
| `HttpJobs` | the job pipeline | |
| `Mirroring` | deduplication and the mirror channels, as one peer meets them | composes what `Authrpc` and `HttpJobs` have in detail |
| `HttpConnections` (`MCHttpConnections`) | connections, draining, stop | |
| `Server` (`MCServer`) | the server's loop around the rpc proxy | `HttpConnections` |
| `RingBufferOps` | the functions of `data/ring_buffer.go` | |
| `Deque` | abstract specification: what a ring buffer promises | |
| `RingBuffer` | a ring buffer in use, and the refinement `IsDeque` | `RingBufferOps`, `INSTANCE Deque` |
| `Healthcheck` | the healthcheck on top of the ring buffer | `RingBufferOps` |
| `Authrpc` | triage and deduplication of the engine API | |
| `Rpc` | parsing and triage of rpc requests | |
| `Websocket` (`MCWebsocket`) | sessions, pumps, resets | |
| `Stream` | abstract specification: what a pump promises of each direction | |
| `WebsocketPump` (`MCWebsocketPump`) | the goroutines inside a pump, and the refinement `IsStream` | `INSTANCE Stream` |
| `HttpJobsProofs`, `MirroringProofs`, `RingBufferProofs`, `AuthrpcProofs`, `WebsocketProofs`, `WebsocketPumpProofs` | theorems | the module they are named for |
| `HealthcheckProofs` | theorems, with the lemmas about the ring buffer | `Healthcheck`, `RingBufferProofs` |
| `ServerProofs` | theorems about `HttpConnections`, by itself and inside the server | `Server` |

Definitions whose comment starts with "Seeded fault" are not part of any
specification: each is a plausible bug, kept to show that the property it is
listed with in `PROJECT.json` notices it.

### HttpJobs

A job is identified with the connection that issued it.  `Receive` is `receive`
up to `wg.Add(1)`: any verdict triage can return, the operator's extra mirrored
methods, and chaos.  `Enqueue` is the blocking send, `MirrorTo` one iteration of
the mirroring loop (a send that drops), `Respond` the return of `wg.Wait`.
`FallThrough`, `TakeHi` and `TakeLo` are the branches of the nested `select`,
the same for the proxy loop and every mirror loop; `ExecProxyJob` and `Done`
split `execProxyJob` at its deferred `wg.Done()`.  `inversions` is a history
variable.  Bodies, headers and logs are left out: a response is known by who
wrote it.  `usePriorityQueue` is a variable that keeps its initial value, so one
run covers both kinds of loop.

### Mirroring

One peer, seen through `seenHeads`, its two mirror channels and its job loop.
`Announce` is a forkchoice update without attributes that is not a repetition
(a repetition is swallowed and changes nothing here), `PrioritisedCall` one with attributes or a
new payload, `OtherCall` any other mirrored call; each ends in `Offer`, the send
that drops.  `Forget` is the sweep, whose timing `Authrpc` has in detail; here
an entry goes at any time, but goes.  The environment moves the client's head
(`Reorg`, also back to an old one) and the peer (`PeerChanges`).  The handlers
are reduced to the order in which the client's calls reach the channels.

### HttpConnections

`connections` and `draining` are functions from keys to connections, where keys
are both `ip:port` and `ip` strings, because the code uses both.  The worker of
a connection (fasthttp, external) moves through `state`; the hooks happen in
`Accept`, `Request`, `WriteAndIdle` and `Closed`.  `Reset` is SIGHUP or an
unhealthy backend, at any time.  `Stop` is `BeginStop`, `CloseIdleConn` and
`FinishStop`.  The runs of `Server` check its properties.

A worker closes its socket when it leaves its loop (`GiveUp`, `WriteAndClose`) and
calls the hook `StateClosed` after that (`Closed`); a client may also have gone
before its worker notices.  So `Accept` lets an address be used again as soon as
no socket has it, and the hooks of the old connection, which go by address, then
act on the entries of the new one.  `displaced` is the history of the connections
that lost an entry this way; what the proxy promises of a connection, it promises
of those that are not displaced.  `Accept` is the TCP accept and the hook
`StateNew` together: the moment between the two, inside fasthttp, is left out.

### Server

`main` is where `Server.Run` is.  `hup` and `term` are the two channels of
capacity one: a signal that finds its channel full changes nothing, which is how
SIGHUPs merge.  `failures` counts the errors in `failure`.  `HangupReceived`
stands for the receipt and the resets of the authrpc and the flashblocks proxy;
the second may take a minute for each pump, and all that time, until `ResetRpc`,
connections come and go, signals arrive and the healthcheck resets (`Beside`).
`BeginStopRpc` and `FinishStopRpc` are `s.rpc.Stop`, and `StopOthersAndExit` the
stops after it and the end of the process.

### RingBufferOps, RingBuffer, Deque

Each function of the Go type is an operator on a record `[data, head, tail]`;
`data` is a function from `0 .. cap - 1`.  `RingBuffer` calls them in any order
and `IsDeque` maps `Contents` to the deque.

### Healthcheck

`Check` is one tick; its lock makes it atomic.  `Record`, `Streak` and
`Evaluate` are its three parts.  `history`, the last outcomes in a plain
sequence, is what the ring buffer is compared with.

### Authrpc

Time is counted in ticks; an entry of `seenHeads` holds its age.  `Receive` is
`triage` with `alreadySeen`; what follows is `Complete`: a proxied call reaches
the backend in any order and fails when it is down.  Calls are reduced to the
kinds that triage tells apart, and to the head that a forkchoice update sets.
A sweep that is due runs before the next tick (a tick is 15 s in the run).

### Rpc

One operator per function; JSON is reduced to single/batch/garbage, the type of
each id, and the prefix of each method.

### Websocket

`pc` follows a session from `StateNew` through the upgrade, the dial, the
registration of its pump, `run`, and the closing.  `ResetBegin` to `ResetEnd`
are one `ResetConnections`: `lock` stands for `mxConnections`, which it holds
throughout; all other critical sections are single steps.  `StopReset` is the
reset of `Stop`, from which on nothing is accepted (the wait of the shutdown
before it is one in which nobody connects).  `Fail` is
`notifyOnFailure` of any of the pump's goroutines.  A session that is not upgraded
ends with `HangUp` (its socket is closed) and `CloseHttp` (the hook).  As in
`HttpConnections` an address may be used again as soon as its socket is closed,
before the old session's handler or hook deletes the entries of the address, and
`displaced` is the history of the open sessions that lost an entry that way.

### WebsocketPump, Stream

A direction is named by the side it reads from, and a frame by its place in the
`script` of that side, so that gaps and repetitions show.  `reader`, `writer` and
`terminator` are the three goroutines of a direction; `ReadData`/`Push`,
`Pull`/`Write` and `Terminate` are their steps, `ReadPing` and `ReadClose` the
handlers the library calls inside `ReadMessage`.  A read may fail at any time
(its deadline), a write too; after a failed write the library fails all writes
to that socket (`writeErr`), which is external and which `IsStream` rests on.
Each direction has a timeout or not (`timed`): a write that has none may block for
as long as its remote does not read.  By default only the direction from the
backend has one (`flashblocks-backward-timeout` is `0s`), so most of the
configurations in the run have it so.
`Stream` has two counters per direction, for data and for control frames, and
two actions that advance them without skipping, unless chaos drops messages.

## 3. Runs

All passing runs check a type invariant or share a module with one that does.

| Run | Instance | Shows |
|---|---|---|
| `jobs` | 2 handlers, 1 peer that may hang, capacity 1, chaos, with and without the priority queue | `JobConservation`: a job is in one place while its handler waits, and nowhere when the handler releases it. `AnswersAreComplete`: no handler returns a response nobody filled in. `PriorityInversionBounded`: at most one Lo job in a row is taken past a waiting Hi job. `RequestsAnswered`: prioritised requests are answered, and without the priority queue all are |
| `mirroring` | 2 heads, channels of capacity 2, with and without the priority queue | `RegressionsBounded`: the peer leaves the client's head no more often than older updates can be under way. `PeerFollowsClient`: a peer that answers ends on the head the client stays on, also when an update is lost and its repetitions are swallowed until the sweep |
| `server` | 2 connections that use one address, any number of SIGHUPs and healthcheck resets, failures, termination | `EstablishedAreTracked`, `MapsAreExact`, `OneResponseAfterReset`, `StopLeavesOnlyDraining`, `DrainingCloses` of `HttpConnections` inside the server; `HangupHonoured`: a connection that is established while a SIGHUP waits is drained or ends; `TerminationCompletes`: a signal to terminate or a failure ends the process |
| `connections_close_mark` | 3 connections on 2 addresses, without the server | violation, see Findings |
| `ring_buffer` | from capacity 1 to 8, up to 5 elements of 2 values | `IsDeque` |
| `healthcheck` | thresholds 3 and 2 | `HoldsLatestOutcomes`, `StreaksDecide`, `OnlyStreaksDecide`, `VerdictFollowsBackend` |
| `healthcheck_warmup` | the default thresholds 2 and 2 | violation, see Findings |
| `authrpc` | 2 handlers, 2 heads, 30 s = 2 ticks | `NoRepetitions`, `AnswersNotStale`, `BackendFollowsClient` |
| `rpc_batches` | batches of up to 2 calls | violation, see Findings |
| `websocket` | 2 sessions that use one address, any number of resets, stop, countdown 1 | `PumpsAreLive`: an entry of the map is of a session under way. `NeverDoubleClosed`: no pump is told to stop twice. `StopLeavesOnlyUnready`: what Stop leaves open was not active yet when a reset came by, or displaced. `ResetIsThorough`: a reset closes the active pumps and plain connections it found. `ResetReturns`, `ClosedSessionsEnd` |
| `websocket_pump` | both directions, capacity 1, three data frames from either side or data, ping, pong and close frames, with and without chaos, the direction from the frontend with and without a timeout | `IsStream`: no gap, no repetition, in order. `EverythingPassed`: what is read in a direction with a timeout is passed on while the pump runs. `BothSidesClose`: when the proxy closes one side it closes both, and also when a side is gone whose direction has a timeout. `GoroutinesEnd`: what a stopped and what a failed pump leave behind |
| `websocket_stop` | 2 sessions of different addresses | violation, see Findings |

**Bounds.** Capacity 1 makes a channel full as soon as one job waits, and a loop
may have another in its hands; a client that sends its next request at once
fills the mirror channels, whose jobs outlive their requests.  One peer
is enough since peers share nothing.  Channels of capacity 2 in `mirroring` let
up to five updates be under way, for two heads that alternate.  In the pump three
data frames fill the writer's hands, the channel and the reader's hands.  Two
failures at a time are enough for the server, which takes all there are
(`MaxFailures`).  Two connections on one address let each hook of the old
one come before or after anything its successor does; connections of different
addresses share nothing but the reset and the stop, and the theorems have any number
of them.  Two sessions on one address do the same for the websocket proxy, where a
session may wait for the lock while a reset waits for the pump of its successor; a
reset that finds two pumps is left to the theorems (`ResetThorough`).  The ring buffer
starts at capacity 1 so that it grows three times, wrapped and not.  Thresholds
3 and 2 make the window deeper than one of the streaks.  Two heads allow A, B, A;
two handlers allow two concurrent announcements.  A websocket countdown of 1
reaches both the stop in time and the timeout.  All histories are saturated
(`inversions`, `late`, `copies`, `lastOut`, `regressions`), so they do not bound behaviours.
No run uses symmetry.  The runs of the websocket proxy, the pump and the server do
not check deadlock: sessions are finitely many and may all have ended, a pump ends, and the
process does.

**Fairness.**

* `HttpJobs!FairSpec`: goroutines that can run do (`WF` on the backend loop; a
  backend call ends because it has a timeout).  A handler is `SF` for its blocked
  send: the Go runtime queues blocked senders first in, first out.  Both cases of
  the backend loop's `select` are `SF`, for Go's pseudo-random choice.  Nothing is
  assumed of clients and peers.
* `Mirroring!FairSpec`: the loop runs, calls to a peer end by their timeout,
  `select` does not pass over `lo` forever, entries are swept.  What is assumed of
  the client and of the load is in the premises of `PeerFollowsClient`: the client
  does not cease to announce its head (an announcement that is not swallowed
  happens if it stays possible), of those that pass the deduplication not all meet
  a full channel, and the loop gets to its select.  That announcements pass again
  after one was lost is not assumed; it follows from the sweep.
* `Server!ServerFairSpec`: the main goroutine runs, and its `select` does not pass
  over a termination or a failure forever (`SF`); workers run (handlers end
  because backend calls time out, reads because of `ReadTimeout` and
  `IdleTimeout`), and the shutdown closes idle connections.  With the priority
  queue a Lo request may wait for as long as Hi requests keep coming
  (`HttpJobs` says so); `DrainingCloses` assumes that this ends.
* `WebsocketPump!FairSpec`: goroutines that can run do; a write ends for certain
  if its direction has a timeout, or its socket is dead; a read only when its
  socket is dead.  By default the forward timeout is 5 s and the backward timeout
  `0s`, which means none.  What is then not promised: that frames from the frontend
  are passed on to a backend that does not read, and that a frontend which leaves
  is noticed while the reader is blocked behind such a write.  What still is: the
  other direction, and that a stop or a failure closes both sides.
* `Healthcheck!FairSpec`: the ticker ticks.
* `Authrpc!FairSpec`: time passes, the sweep runs, calls end, and the client keeps
  announcing its head.  The last is `SF` because the number of handlers is a
  bound of the model, not of the proxy.  That calls end assumes, with the priority
  queue, that prioritised ones leave the loop time for others.
* `Websocket!FairSpec`: a reset goes on (`WF`), handlers and workers get
  `mxConnections` in the end (`SF`; Go's mutex prevents starvation), and a pump
  whose sockets are closed fails.

## 4. Findings

* **Draining connections are not marked** (`connections_close_mark`).  `receive`
  looks up `drainingConnections` by IP (`proxy/http.go:546`), the keys are
  `ip:port` (`proxy/http.go:816`): `Connection: close` is never set.  The
  connection is still closed after the response, by the `StateIdle` hook.
* **One failure is enough at the start** (`healthcheck_warmup`).  Until the window
  is filled, missing outcomes are skipped (`proxy/healthcheck.go:127-138`), so
  the first failed check makes the backend unhealthy whatever the threshold.
* **Batches with string ids are not recognised** (`rpc_batches`).  The second
  half of `UnmarshalBatch` builds the batch and then returns the error of the
  first half (`jrpc/jrpc_call.go:54`).
* **A pump that is not active yet is taken for stopped** (`websocket_stop`).
  Between registration and `active.Store(true)` a reset drops it from the map
  and leaves it running (`proxy/websocket_pump.go:100`).

## 5. Proofs

Every theorem holds for all values of the constants that satisfy the named
assumptions of the module (a positive capacity, model values distinct from the
sets they are added to, and the like).

* **`HttpJobsProofs`**: `TypeCorrect`, `Conservation`, `InversionBound`,
  `CompleteAnswers`.  `JobConservation` is inductive only together with where the
  loop is (`HandInv`: it holds a job whenever it executes or reports one) and the
  types.  `PriorityInversionBounded` needs `PriorityInv`: after an inversion the
  Hi channel stays non-empty until it is taken from, so the poll cannot fall
  through to the select.  `AnswersAreComplete` needs `AnswerInv`: a job's
  response is filled in before the loop reports, hence before its WaitGroup is
  down.
* **`ServerProofs`**, first part: of `HttpConnections`, `TypeCorrect`, `Tracked`,
  `Exact`, `DrainBound`, `StopComplete`, for any connections and addresses, however
  soon an address is used again.  The strengthening says of a connection that is
  not displaced: once drained it is in `draining` until its socket is shut, and if
  it has answered since, its socket is shut (`DrainInv`); and that `connections` is
  empty after `Stop` (`StopInv`).  Second part: this invariant holds inside the server
  (`ServerInvariance`), because a step of the server is a step of the proxy,
  leaves it alone (`StepOfProxy`) or ends the process (`ExitStep`); from it
  `ServerTypeCorrect`, `ServerTracked`, `ServerExact`, `ServerDrainBound`,
  `ServerStopComplete`.
* **`RingBufferProofs`**: what each operation does to `Contents`, and from that
  `RingTypeCorrect` and `RingRefinement`: the ring buffer implements the deque,
  for any capacity, values and length.
* **`HealthcheckProofs`**: `TypeCorrect`, `LatestOutcomes`, `StreaksAreDecisive`,
  `NothingElseDecides`, from the ring buffer lemmas, for all thresholds.
* **`AuthrpcProofs`**: `TypeCorrect`, `Deduplication`, `BoundedStaleness`.  The
  invariant adds that a sweep is never late (`SweepIsPunctual`), that the age of
  an entry is the time since its update left (`EntriesAccountForOutput`) and that
  an update which left recently has an entry (`RecentHaveEntries`).
* **`MirroringProofs`**: `TypeCorrect` and `RegressionsAreBounded`, for any heads
  and any positive capacity.  The bound is not inductive by itself; `StaleInv`
  counts what could still use it up.  There are m and n such that behind the
  first m calls of the Hi channel and the first n of the Lo channel everything is
  for the client's head, and the regressions so far, m, n and the call in
  execution together stay within the bound.
* **`WebsocketProofs`**: `TypeCorrectness`, `PumpsLive`, `NoDoubleClose`,
  `StopIsAlmostComplete` and the action property `ResetThorough`, for any sessions
  and addresses, shared ones included.  The invariant connects the maps with the
  sessions in both directions: an entry is of a session that will take it out
  (`ConnectionsInv`, `PumpsAreLive`), and an open session has its entry unless a
  reset passed over it or it was displaced (`PumpsComplete`); two open sessions
  never share an address (`AddressesUnique`).  `NeverDoubleClosed` needs `DoneInv`: a pump that is
  still in the map and told to stop is the one `stop` is waiting for.
  `ResetThorough` needs `ResetInv` (the pumps in the map are those the loop has
  still to visit) and `TargetsInv` (a session to be closed is closed, or still in a
  map, its pump active until `stop` comes to it); `StopInv` says the same of all
  sessions during the reset of `Stop`.
* **`WebsocketPumpProofs`**: `TypeCorrectness` and `Refinement`: each direction of
  a pump implements `Stream`, for any scripts, timeouts and capacity.  Per direction, the
  frame being written comes after the last one written (`WritingInv`), those in the
  channel after that and in the order of the script (`MessagesInv`), and the one
  the reader holds after those (`HeldInv`); without chaos and failed writes a data
  frame that was read and not passed on is in one of these places (`NoneLost`), and
  no ping or pong is under way while the reader goes on (`ControlInv`).  A failed
  write makes all later ones fail, so the writer that goes on after it makes no
  gap.

Every invariant, action property and refinement of a passing run is proved.  Only
model-checked are the liveness properties, because fairness and `ENABLED` are out
of the prover's reach (`RequestsAnswered`, `DrainingCloses`, `HangupHonoured`,
`TerminationCompletes`, `VerdictFollowsBackend`, `BackendFollowsClient`,
`ResetReturns`, `ClosedSessionsEnd`, `EverythingPassed`, `BothSidesClose`,
`GoroutinesEnd`, `PeerFollowsClient`), and the four disagreements of section 4,
which are counterexamples.  `Rpc` has no passing run and no theorem.

## 6. Not modelled, and limits

* A websocket session is in neither map between `StateHijacked` and the
  registration of its pump, and not active yet for a moment after it.
  `ResetIsThorough` is about what the maps hold, and `StopLeavesOnlyUnready` says
  that nothing else escapes `Stop`.
* Both proxies delete map entries by address.  A connection or a session whose
  client came back from the same port before the last hook or handler of the old
  one had run may so lose its entry: no reset reaches it, and `Stop` leaves it to
  the end of the process.  The properties say that no other connection is lost;
  they say nothing else of one that is displaced.
* The moment between the accept of a connection and its hook `StateNew` (inside
  fasthttp).
* A stopped pump may leave a reader behind that blocks on a full channel, and a
  failed one its writers and terminators, for as long as the process runs; the
  pump with its sockets and messages stays with them.  `GoroutinesEnd` says that
  this is all.
* Close frames do not get through: `pumpCloseMessages` passes the close code for
  the type of the frame (`proxy/websocket_pump.go:391`), which the library refuses.
  `ReadClose` models it so; the other side gets the close frame that
  `closeWebsocket` sends.
* What chaos does to the bytes of a websocket message, and its latency.
* `Stop` together with jobs still in the pipeline (it releases the peers' URIs).
* The deadline of forkchoice updates with payload attributes, JWT latency,
  decoding of transactions and mangling of messages: they are only logged or
  measured.
* The metrics, the configuration, the command line; the server's order of
  construction, and a proxy that is not enabled (its methods do nothing).
* fasthttp and the websocket library are external, modelled as far as the
  proxy's hooks and handlers see them.

## 7. Plan

Done so far, in this order: job pipeline, connections, ring buffer, healthcheck,
authrpc, rpc, websocket sessions, mirroring, the inside of a pump, the server;
then the proofs of all their safety properties.  Next:

1. Facts about the actions that liveness rests on and that are safety: a reset of
   the websocket proxy makes progress on every step (the pumps to visit and the
   countdown decrease), a pump whose failure was reported stays reported.
2. `Stop` with jobs in the pipeline, and the release of URIs.
3. The candlestick accumulator, and the filter that removes the backend from the
   peers, as pure operators against reference definitions.
