# Verification of the verified-proxy module

TLA+ modules of the runtime that drives `libverifproxy` (`src/proxy_runtime.*`,
`src/resource_budget.*`), of the HTTP server in front of it
(`src/rpc_http_server.*`), and of the module around both with its configuration
(`src/verified_proxy_impl.*`, `src/proxy_config.*`), the TLC configurations that
check them and the TLAPS proofs about them. Paths below are relative to the
repository; `PROJECT.json` lists every run, mutant, mapped line, finding, hazard
and theorem.

## 1. Inventory of the system

| Component | State it keeps | Operations | Hard behaviour |
|---|---|---|---|
| **Descriptor budget** `resource_budget.cpp`, used in `proxy_runtime.cpp` 217-243, 680-711 | none of its own; limit and open count of the process | `descriptorReserve`, `descriptorOperationCapacity`, the check before each reservation | calls open sockets long after admission; the host opens and closes descriptors meanwhile |
| **Admission gate** `proxy_runtime.cpp` 713-823 | `m_admitted`, the ticket queue, `m_queuedNow`, the epoch, the ceiling | `waitForAdmission`, `tryAdmit`, `releaseAdmission`, resets by `start()` and `teardown()` | wake-up races, FIFO order, timeouts in the middle of the line, resets under waiting callers |
| **Sync cycle, heartbeat, health** 829-1011 | `m_state`, sync phase and outcome, two failure streaks, `m_startReleased`, beat in flight, two timers | `advanceSync`, `issueSync`, `noteSync`, `finishSyncCycle`, `releaseStart`, `issueKeepAlive`, `noteHeartbeat` | two signals write one state; late completions against shutdown; L1 before OP |
| **Lifecycle** 125-157, 199-349 | `m_runRequested`, `m_runFinished`, `m_runActive`, `m_startDone/Ok`, `m_stopRequested`, `m_shutdown`, the thread | `start()`, `stop()`, destructor, `threadMain()` | commands posted to a thread that outlives runs; every wait has a deadline after which the caller leaves and the work does not |
| **Calls** 506-609 | command queue, pending list, one slot per call | `call()`, `drainCommands()`, `failAllPending()`, `prunePendingLocked()` | enqueue against stop, timeouts against late answers, a list that only shrinks when swept |
| **Run and completions** 351-504, 611-678 | the library context, `m_inFlight` | `runOnce()`, `teardown()`, `callbackTrampoline()` | bounded drain, unanswered requests die with the context |
| **Snapshots, statistics** 158-177, 646-673, 1015-1115 | counters | `statusSnapshot()`, `recordPump()`, `blockedReport()` | read only |
| **Module interface** `verified_proxy_impl.*` | `m_cfg`, `m_beaconUrls`, `m_http`, `config.json` | `onContextReady`, `configure`, `defaultConfig`, `start`, `stop`, `status`, `fetchFinalizedRoot` | the file is rewritten at every load; crashes between truncating and writing it; upgrades with another network table; half-started modules; no lock |
| **HTTP server** `rpc_http_server.*` | the MHD daemon, one request context per connection | `start`, `stop`, `onRequest`, `handleBody`, `handleOne` | batches, notifications, shutdown under running handlers |
| **Configuration** `proxy_config.*` | none | `fromJson`, `raw`, `toUpstreamJson`, `migrateRetiredDefaults`, `beaconUrlsFromModule`, masking of URLs | absent against null against empty; defaults frozen by writing them back; lists cut up at commas twice |
| **Beacon bridge and client** `beacon_*` | none | provider list, one HTTP GET, parsing | external calls |
| **Typed wrappers** `verified_proxy_rpc.cpp` | none | about sixty wrappers over `call()` | none |

How they interact. Worker threads (four of them) are inside `call()`, `start()`
or `stop()`; one *proxy thread* owns the library context and is the only one to
enter the library. Callers pass the gate (mutex `m_admissionMu`), put a command
on the queue (`m_mu`) and wait on their slot. `start()` and `stop()` post a
command to the proxy thread (`m_startMu`) and wait with a deadline. The library
answers from inside `proxyCall` or `processVerifProxyTasks`, hence on the proxy
thread; the completion fills the slot, lowers the counts, and may write the
health state. The HTTP server and the typed wrappers come in through `call()`.

What makes each part correct:

* *Budget*: admitting never eats the host's reserve, and a run that starts can
  admit.
* *Gate*: counts exactly, never exceeds the ceiling, serves in order, forgets
  nobody, starves nobody.
* *Health*: the state tells the truth about both streaks while calls are served,
  serves only when it may, recovers, reports outages, never undoes a shutdown.
* *Runtime*: nobody waits for an answer nobody owes; what the library owes is
  counted; stop leaves nothing running; the destructor leaves nothing at all.
* *HTTP server*: one dispatch and one answer per request; stop leaves nothing
  running and comes back.
* *Module interface*: the module comes back with what the user configured, its
  endpoint lives exactly as long as a run that wants it.
* *Configuration*: whatever it was made from, the library can start with it.

## 2. Modules

```
ResourceBudget ---- DescriptorGate ---- DescriptorGateProofs
      |    |              `-- MCDescriptorGate
      |    |
      | Admission ---- AdmissionProofs      FifoGate     refined by Admission
      |    |   `------ MCAdmission
      |    |
      |    |  SyncHealth ---- SyncHealthProofs
      |    |      |
     ProxyRuntime ---- MCRuntime            CallService  refined by ProxyRuntime
           |                                RunLife      refined by ProxyRuntime,
         ProxyRuntimeProofs                              used by VerifiedProxy
           | (with SyncHealthProofs)
           `-- RuntimeCallsProofs
                 `-- RuntimeGateProofs  (with AdmissionProofs)

ProxyConfig ---- VerifiedProxy ---- VerifiedProxyProofs
  RunLife ---------'  `-- MCVerifiedProxy

JsonRpc ---- RpcHttpServer ---- HttpServerProofs
                  `-- MCHttpServer
```

**ResourceBudget** is the arithmetic alone; integers stay in the range of
`int64_t` for every limit an operating system reports, and the one expression
that could leave it saturates as in the code.

**DescriptorGate** puts that arithmetic into a process: the host's descriptors,
the sockets of admitted calls (opened one at a time, whenever the library likes,
at most `m_descriptorsPerCall` each), admission, `start()` and `teardown()`.

**FifoGate** is the abstract promise of the gate: a room, a limit, one line.

**Admission** has one action per critical section of `m_admissionMu`.
`EnterRefused/Admitted/Queued` are `waitForAdmission()` before its loop,
`WakeRefused/Admitted/TimedOut` the turns of the loop that end it (in the code's
order: stop and epoch first, then admission, then the deadline). The wait is
bounded by 50 ms, so wake-ups need no variable: a waiting caller may always take
a turn. A ticket is the caller that drew it. The last part closes the code by
the *contract* its users keep: `run` and `beating` say when it may be entered.

**SyncHealth** has one action per stretch of the proxy thread between two points
another thread could interfere at. Time is two flags (`syncDue`, `beatDue`).
Again code first, then the run that closes it. `weather` and `synced` are history
variables, written by the closing part only.

**ProxyRuntime** composes all of it: `INSTANCE Admission` and `INSTANCE
SyncHealth` supply the code actions (`Gate!EnterAdmitted`, `Health!FinishGood`,
...), and this module adds the threads: `ctl[t]` is where a client is inside
`start()`, `stop()` or the destructor, `call[c]` where a caller is inside
`call()`, `proxy` where the proxy thread is, `lib` what the library still owes.
Every lock region, and every access to an atomic another thread may observe, is
an action of its own, so a client can be overtaken between any two of the five
steps of `start()`. A timed wait may end at any moment.

The pending list is the code's: `Expired` is a slot nobody holds any more,
`Pruned` takes expired entries off the front and sweeps the rest from
`PendingSweepAt` entries on (256 in the code), on every append.

The closing contracts of Admission and SyncHealth are not assumed of the runtime
but checked and proved: `KeepsAdmissionContract` and `KeepsHealthContract` are
refinements `ProxyRuntime => Admission!Spec` and `ProxyRuntime => SyncHealth!Spec`
(the mappings `GateRun`, `BeatReserved`, `PumpPhase`, `SyncedSoFar`). What is
proved of the two components is thereby carried over to the runtime.

**CallService** is what `call()` promises, without gate, threads or timers: a
call is refused, or queued and handed to the library once; work that leaves the
service leaves a verdict that never changes, from the library or from the end of
the run; its caller is told that verdict unless it gave up before there was one.
`ImplementsCallService` is the refinement, with the slot as the verdict.

**RunLife** is what a client of `start()`, `stop()`, `live()` and `running()` can
tell of the runtime: one run after another, from the posted command through
prologue, first sync, service and drain to the end of its bookkeeping, and
whether it has been told to end. `KeepsRunLife` is the refinement
`ProxyRuntime => RunLife!Spec` for clients that keep `"runs"`; `RunNow` reads the
stage off the health state, `m_runActive` and the place of the proxy thread.
VerifiedProxy takes its runtime from RunLife, so what is shown of the module
rests on what is shown of the runtime.

`Contract` says what clients of `start()` keep: `"runs"`, they call it only when
nobody else is inside `start()`/`stop()` and no run is in progress or asked for,
or one that `m_runActive` shows, for which `start()` refuses; `"calls"`, no call of the run before is still between its checks and its answer.
The code enforces neither, and the runs below say what holds with and without.

**JsonRpc** holds the rules for one request (`handleOne()`): what it is refused
for, which parameters are passed on, which code the client sees. Its requests
are records of what the code looks at. **RpcHttpServer** is the server around
them. `conn[c]` is where a connection is, `context[c]` its `*con_cls`; a body
arrives in pieces and is only what `json::parse` gets if the accumulator holds
exactly this request's pieces. `handleBody()` is a step per batch element,
because each dispatch blocks in `ProxyRuntime::call()`, whose outcome is any of
a value, "unknown method", another error, or an exception. `api[w]` is where a
worker is inside `start()`, `stop()` or `running()`/`endpoint()`; the mutex is
held across a wait by `stop()` alone. `asked` is the history of dispatches.
libmicrohttpd is external: it may close a connection whenever no callback runs,
and `MHD_stop_daemon` returns when every connection thread has ended, as the
comment at `rpc_http_server.cpp` 272 says.

**ProxyConfig** is `fromJson()` and what is made of its result, as functions. A
JSON value is a record of its type and value; a text is the sequence of its
pieces between commas, because cutting at commas is the one thing ever done to
it (once for a list given as text, once more by the library). `f ++ g` puts two
records together, the first one first. `Resolved` and
`Accepts` treat every key of `fromJson()`, `Raw` is what `config.json` gets,
`Upstream` what the library gets, `Migrated` the rewriting of retired defaults,
`ModuleUrls` what `start()` takes from the beacon module's provider list.

**VerifiedProxy** is the module object: one step per effect that a crash could
separate from the next. Writing `config.json` is `SaveTruncates` (the stream is
opened) and `SaveWrites` (which may fail, silently); `Reload` ends the process at
any step and loads this or a later release, of which only the file is left. The
runtime is RunLife (`run`, `stopping`) with the configuration the run was given;
a `start()` or `stop()` may time out and leave it going. The module's part of the
contract is ProxyRuntime's `"runs"`: one lifecycle operation at a time, and no
`start()` while a run that was given up on is still in its prologue (`ghost_run`
shows what happens otherwise) or has left its context and not yet ended. `chosen`
and `gaveUp` are history: what the user last configured (moved on, `MovedOn`, at
every load that rewrites the file and whose release retires its default; nothing
once it could not be written), and whether `start()` timed out on the current
run. `m_beaconUrls` is left out, since `status()` alone reads it. `Remembered` is what the module has to come back with. The assumption on the
constants, `VerifiedProxyAssumption`, says what the code's own tables and its
JSON library give: what was parsed of a list is a sequence, every release knows
mainnet (the network of a configuration that names none), a default endpoint is
a URL or empty, and no retired default is the empty text.

An operator introduced by "Mutant of" is a plausible bug in the definition that
follows it; no specification uses it. Substituted for that definition it must
make the named property fail, which shows that the property depends on the code.

## 3. Runs

| Run | Question | Instance | Result |
|---|---|---|---|
| `descriptor_gate` | does admission keep the reserve when sockets come late? | limit 32 (reserve 16), 4 per call, ceiling 3, host up to 20 | holds |
| `admission` | is the gate exact, orderly, and fair? | 3 callers, ceiling 2, three runs, budget answers unknown / 0 / 3 / 8 open | holds |
| `sync_health` | is the reported state true, does it recover and report? | L1 and OP, heartbeat, threshold 3 as in the code, any number of runs | holds |
| `runtime` | one run under racing calls, sync, stop: does it implement CallService, is anyone forgotten? | 2 calls, L1 and OP, ceiling 1, 1 client, contract kept | holds |
| `runtime_restart` | is anything of one run left in the next, are the components' contracts kept, and is it the runtime VerifiedProxy takes it for? | 1 call, the heartbeat, L1, 2 runs, budget with room for two or no call, sweep at 2 | holds |
| `runtime_end` | do stop and destruction end everything, without timeouts? | 1 call, 2 runs, 1 client that also destroys, a library that need not answer | holds |
| `runtime_any_clients` | what holds without any contract? | 1 call, 2 clients, 2 runs | serving implies a context, a waiting `start()` is owed an answer, a destroyed object is at rest |
| `ghost_run` | `stop()` documented as leaving nothing running | 1 sequential client, no contract | **violated** |
| `stale_caller` | the epoch documented as keeping old callers out | 2 calls, contract on runs only | **violated** |
| `http_server` | is every request dispatched and answered once, and does stop end it all? | 2 connections, 2 workers, 5 bodies, up to 2 pieces | holds |
| `verified_proxy` | does the module keep what it was given, and go together with its endpoint? | 3 releases, 8 inputs and 2 default ones, 2 old files, 4 answers of the beacon module, with and without a deploy-time configuration | holds |
| `env_wins` | the saved configuration documented as winning | as above, a deploy-time configuration set | **violated** |

Bounds, and why they are enough. Three callers are the fewest for which a line
has a middle. A ceiling of 1 in the runtime makes two calls (`runtime`), or one
call and a beat (`runtime_restart`), compete; higher ceilings are the gate's
business and there it is 2. In `runtime_end` nobody competes: its callers are in
the queue or in the library, and that one in line is let go without a timeout is
`NoStarvation` of the gate. Two
runs show everything one run can leave to the next, three let a ticket be two
epochs old. `MaxEpoch` is the only counter bound; streaks stop at the threshold
because nothing reads beyond it. In the runtime the threshold is 1 (every
failure degrades), in `sync_health` it is the code's 3. A host of 20 next to a
reserve of 16 lets the host outgrow it. `runtime_restart`, `runtime_any_clients`
and `runtime_end` switch the deadlock check off: a client with no starts left,
or a destroyed object, has nothing more to do.

The bodies of `http_server` are one of each sort the code distinguishes, with
notifications and refused requests before and after answered ones;
connections share nothing but the daemon, so two suffice for one to be joined
while the other is still called or open. A kept-alive connection serves any
number of requests.

The inputs of `verified_proxy` take each turn of `fromJson()` by which a
configuration can be lost or bent: nothing but a network, a list given as text
with an empty piece, an explicit null, an explicitly empty list, an unknown
network or log level, a comma inside an entry, a port out of range, a knob below
its minimum. The second release has another default for one network and retires
the first one's; the third retires both, so that a configuration can be two
defaults behind, and a file that was moved on once is met by the next table.
`PendingSweepAt` is 1 or 2, below what a run can append, where the code's 256
would never be reached; the theorem about it is for every value.

Symmetry is used in `runtime` and `runtime_any_clients`, where every property is
a safety property.

### Fairness

* `Admission!FairSpec`: a waiter's loop turns at least every 50 ms (weak fairness
  of being admitted or sent away), reserved calls and beats are answered, a run
  told to stop is torn down. No fairness of any timeout. That the admitting turn
  is fair also says the host does not exhaust the descriptors for good.
* `SyncHealth!FairSpec`: the pump turns, timers run, the library answers. Strong
  fairness of a beat being sent is an assumption on the *load*: `Recovers` fails
  without it, because a gate that is full whenever a beat is due keeps a Degraded
  state latched (see the observations below).
* `ProxyRuntime!FairSpec`: the proxy thread, which never waits without a bound
  inside a run, takes its next step, `startVerifProxy` returning in the end
  included; callers and clients take theirs. Nothing is asked of the library's
  answers, of any timeout, or of a client's decision to call something.
* `RpcHttpServer!FairSpec`: handlers go on and their calls come back (their waits
  are bounded), libmicrohttpd ends what is between callbacks once it is told to
  stop, and a joined `stop()` returns. Nothing is asked of clients, and nothing
  about which handler goes first: while `stop()` waits none of them gets more work.

### Findings

1. `ghost_run` (`proxy_runtime.cpp` 290). `start()` gives up after its timeout and
   leaves the run going; nothing refuses a second `start()`, since `m_runActive`
   and `live()` are still false. When the first `startVerifProxy` then returns
   NULL it sets the one `m_runFinished` both runs share, and `stop()` answers
   "proxy is not running" while the second run is about to begin. A single
   sequential client is enough.
2. `stale_caller` (575). The epoch protects waiting callers; one that has been
   admitted and not yet enqueued crosses into the next run, where its reservation
   no longer counts, so the library gets more than the ceiling.
3. `env_wins` (`verified_proxy_impl.cpp` 86). The deploy-time configuration goes
   through `configure()`, which writes `config.json`, before `config.json` is
   read: what wins over it is itself, and the user's configuration is gone, in
   this and every later load.

Met while modelling, without a run of their own:

* A due beat is dropped, for a whole interval, when the gate is full or anyone
  waits (`proxy_runtime.cpp` 833). `README.md` 208-209 says it yields to queued
  user calls; `README.md` 257-258 and `proxy_runtime.h` 193-194 say a slow call
  does not postpone it.
* `RpcHttpServer::stop()` joins the connection threads while it holds the mutex
  of `running()` and `endpoint()` (`rpc_http_server.cpp` 270), so `status()` on
  another worker waits for the slowest verified call, while
  `verified_proxy_impl.h` 131 says it never blocks on the proxy thread. `status()`
  also reads `m_http` without a lock while `stop()` resets it.
* A run that comes up after its `start()` timed out never gets the endpoint its
  configuration asks for, and `start()` is then refused as already started
  (`verified_proxy_impl.cpp` 197 against the comment at 213-215). `StartIsWhole`
  excuses exactly these runs (`gaveUp`).
* `configure()` is refused while Running but not while Degraded, Starting or
  Draining (109, `running()`), although `proxy_runtime.h` 75-77 asks lifecycle
  decisions to use `live()`. `m_cfg`, which `status()` and the endpoint read, may
  then differ from what runs.
* `configure()` succeeds when `config.json` cannot be written, and truncates the
  old one first. `RemembersConfig` excuses exactly these two (`chosen` is then
  nothing).
* `beaconSource: null` is not the same as no `beaconSource`: the first leaves
  the default in place, the second looks at the URLs (`proxy_config.cpp` 306).
* The redacted view is called "round-trippable" (`proxy_config.h` 158), but
  `configure()` takes its masked URLs back as URLs.
* A request that is no JSON object has no id, counts as a notification, and so
  the refusal written for it (`rpc_http_server.cpp` 88) is never sent.
* A bare-number result is passed on as it is (117), while `README.md` 132 still
  says it is rendered as a hex quantity.

Without the contract `InFlightCounted` and `StartedIsServing` fail too, by the
same second `start()`: it zeroes the in-flight count of a live run, so that its
drain is skipped, and it can write Starting over Running, which no later good
cycle leaves. They are consequences of finding 1 and have no run of their own.

## 4. What is proved

All proofs are by inductive invariant, for every value of the constants; TLC
checked each invariant before it was proved. The only assumptions are the named
`ASSUME`s on the constants, and, where a theorem says so, what part of `Contract`
the clients keep.

* **DescriptorGateProofs**: `TypeCorrect`, `ReserveIsUntouched`, `NeverExhausted`,
  `StartAdmits`. The reserve is inductive over `base`, the host's descriptors at
  the latest admission: admission counts every reservation again on top of what
  is open, so a call that has opened nothing yet has its sockets set aside.
* **AdmissionProofs**: `TypeCorrect`, `AccountingHolds`, `CeilingHolds`,
  `LineHolds`, `GateImplementsFifo`. Counting needs that holders exist only while
  a run is on, which is what makes the resets of `start()` and `teardown()` sound;
  the line needs that tickets are never from a future epoch and the queue never
  holds a caller twice. The refinement maps each code action to one step of
  FifoGate or a stutter.
* **SyncHealthProofs**: `TypeCorrect`, `HealthIsReported`, `ServedWhenUp`,
  `GoodCyclesAreComplete`, `ShutdownIsTheEnd`. `HealthReported` is not inductive
  alone: it needs that a serving state implies a pumped run whose start was
  released, and that before the release the state is Starting.
* **ProxyRuntimeProofs**, the lifecycle. Under any contract: `ServingIsBacked`
  from `RunShape` (context, library and state follow the place of the proxy
  thread), `DestructionIsFinal` from `RunShape` and `OwnerAlone` (the destructor
  finds and lets nobody in), `WaitingStartIsOwed` from `Owed` (between its release
  and the next posted run nobody waits unanswered). Under `"runs"`:
  `StopIsComplete` and `SuccessMeansServing` from `RunsInTurn`, by which `start()`
  has the runtime for itself until it has posted its command, and the two latches
  `m_runRequested` and `m_runFinished` say where the run is. `ghost_run` is how
  that invariant fails without the contract. Also under `"runs"`:
  `HealthContractKept`, the refinement of SyncHealth, step by step;
  `DegradedIsReported`, which carries `HealthReported` over to the runtime by
  instantiating SyncHealthProofs' invariant in it; and `RunLifeKept`, the
  refinement of RunLife. That one needs SyncHealth's invariant, which ties the
  state to the place of the proxy thread (`RunFollows`), and `Cleared`: while
  `start()` is under way nobody is about to tell a run to stop, once it has reset
  the gate nobody has, and a run leaves its loop only when it was told to.
* **RuntimeCallsProofs**. Under any contract: `RuntimeKeepsPromise`, the
  refinement of CallService, and `PendingStaysBounded`, both from `Ledger` (a
  request is in the queue or the library but not in both and not twice, and it is
  on the pending list while somebody waits for it; lemmas about the sweep show
  that it keeps every such entry, in order). Under `"runs"`: `CountIsExact`. Under
  both parts: `NobodyIsOrphaned`, from `Sheltered`: between its checks and its
  enqueue a caller is covered by a pump that still runs, or by the flag it is
  about to read.
* **RuntimeGateProofs**, under both parts: `GateContractKept`, the refinement of
  Admission, where every completion must find the reservation it gives back;
  `LoadStaysBounded`, from Admission's counting and from each queued or
  dispatched request holding a place of its own; `ReservationsDoNotLeak`, its
  converse: while a run works, `m_admitted` is exactly the calls between the gate
  and the queue, in the queue and in the library, and the beat that is out, so a
  call that failed, timed out or was answered late has given its place back. It
  follows from the same counting and from `Used`, by which every reservation in
  force is held by such a call; TLC checked `Used` and the statement on the
  constants of `runtime` and `restart` before they were proved. `TypesAreKept`.
  `stale_caller` is how the first two fail without `"calls"`.
* **HttpServerProofs**: `NothingIsLeft`, `BodiesAreNotMixed`,
  `BatchIsDispatchedOnce`, `BatchIsAnsweredInPlace`, all from `ServerInv`: while
  the n-th element is being handled, dispatches and answers are exactly those owed
  to the elements before it, and the accumulator holds pieces of this request
  only. The last two are `OneCallPerRequest` and `OneAnswerPerRequest`: the k-th
  answer is that of the k-th request that has an id.
* **VerifiedProxyProofs**, for every table of networks, any number of releases,
  every input and every answer of the beacon module. About the configuration
  alone: `AcceptedIsWellMade`, what `fromJson()` returns is complete, in range and
  usable; `RoundTrip`, what `raw()` writes of such a configuration is accepted by
  every release that knows its network, and is the same configuration when read;
  `MigratedRaw` and `MovedOnStays`, migrating the written form is writing the
  configuration moved on, and a release that has moved a configuration on does
  not move it again.
  On these rest three invariants, each inductive with the ones before it.
  `ConfigInv` (what is configured and what runs is well made, for a network of
  the installed release, and there is a configuration wherever one is being
  saved or started) gives `LibraryIsNeverGivenUnknown`. `LifeInv` (inside
  `start()` there is no endpoint yet, nobody has told the run to stop, and it
  agrees with `m_cfg` on whether it wants one; inside `stop()` there is none any
  more) gives `EndpointNeverOutlivesRun` and `StartLeavesWhole`. `KeptInv` (while
  nothing was lost, the file holds what `raw()` wrote of `chosen` whenever it is
  not being rewritten, and `m_cfg` is what is to be remembered from the moment the
  file was read, its rewriting included) gives `ConfigIsRemembered`. The
  properties alone are not inductive: they speak of the points at which no
  operation is under way, and say nothing of the steps in between, at which a
  crash or the runtime comes in.

Two kinds of induction are needed there that the installed provers cannot do by
the library's schemes. `Counting`, induction over the naturals for a set, is
derived from the well-foundedness of the finite subsets (`Smallest`); and `Flat`
applies it to the function that `FlattenSeq` chooses, which shows that cutting a
list of one-piece texts up at commas gives back its entries.

Only model-checked: liveness, since TLAPS does not reach fairness and ENABLED
(`NoStarvation`, `Recovers`, `OutageReported`, `StopReleasesCallers`, both
`StopEnds`, `JoinEnds`). Every invariant and every safety action property of a
passing run is stated by a theorem. `TypeOK` of DescriptorGate is proved and has
no run of its own. No module with a theorem declares a recursive operator.

## 5. What is not modelled, and why

* The values calls carry, error texts, JSON encoding.
* Unsynchronised memory: `m_cfg` and `m_upstreamJson` of the runtime
  (`proxy_runtime.cpp` 212), `m_http` and `m_cfg` of the module. A data race on a
  `unique_ptr` has no outcome to choose from; VerifiedProxy takes the lifecycle
  operations one at a time, as a host must.
* Masking of URLs for display, `getConfig()`, `status()`, `ok()` and the version
  queries: they only report.
* The inter-module calls behind the beacon bridge and the HTTP client of
  `fetchFinalizedRoot`: external I/O without state. What `start()` makes of the
  provider list is in ProxyConfig.
* The typed wrappers: about sixty of one shape over `call()`.
* Statistics, snapshots, events and diagnostics: nothing reads them back.
* `RET_CANCELLED`: the library returns it only for a stopped context, which is
  never pumped.
* What libmicrohttpd does by itself, its connection limit included.

## 6. Running

`tlc -config <cfg> <module>` with the pairs of `PROJECT.json`, and `tlapm
<module>Proofs.tla`. The longest run takes about 40 seconds with two workers;
of the proofs, ProxyRuntimeProofs takes about four minutes and the others less.
