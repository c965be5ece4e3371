# nodevitals in TLA+

Models, model-checking runs and machine-checked proofs of nodevitals, the Go agent
that polls hardware state on a node, raises threshold and XID events, delivers them
to webhooks, and serves the samples over HTTP and from a local history file. Paths
below are those of the repository; `PROJECT.json` maps every definition to its lines.

## 1. Inventory

| Part | State | Operations | Hard behaviour |
|---|---|---|---|
| event engine (`internal/event`, `internal/model`) | per rule and device: active, breachRun, clearRun, seq, startedAt | `NewEngine`, `Evaluate` | long sequences of breaches and clears; state shared by labelled series; ids after a restart |
| history store (`internal/history`) | accumulators, next boundary, bbolt file | `Open`, `Ingest` (flush, prune), `Query`, `Close` | gaps, failed transactions, crashes, clock steps, wrapping timestamps |
| HTTP API (`internal/httpapi`) | requests in progress | `/v1/state`, `/v1/history`, `/metrics`, `/healthz` | range check against stored keys; requests that outlive the store |
| XID stream (`collector/gpu_nvml.go`, `gpu.go`) | two channels, done/stopped, sync.Once | `watchXid`, forwarder, `Close` | three goroutines and a shutdown |
| retry queue and webhook sink (`internal/queue`, `internal/sink/webhook.go`) | a call's frame | `DeliverWithRetry`, `EmitEvents` | lost posts, lost answers, repeats, cancellation |
| agent (`internal/agent`) | snapshot, webhooks, context | `Tick`, `Run`, `drainEventSource` | goroutines sharing sinks and counters, select between ticker and signal |
| metrics sink (`internal/sink/metrics.go`) | snapshot, drop and event counters | `Register`, `Update`, `RecordEvents`, `RecordDropped`, scrape | drop counter must cover every loss |
| registry and core collectors (`internal/collector`) | CPU baseline; others none | `CollectAll`, `Collect` | any read may fail; counter resets; processors that come and go |
| SMART collector (`collector/smart*.go`) | none | discovery, probe, `Collect` | bridges that answer half of the commands; evidence for a verdict |
| GPU polling (`collector/gpu*.go`, `throttle.go`) | handles, NVML | `NewNVMLReader`, `Read`, `Collect` | zero values for failed calls, fallbacks, monotonic counters |
| compat exporters (`dcgmcompat`, `smartctlcompat`) | last device snapshot | `Update`, scrape | must show what the native surface shows, in other units and names |
| ksm compat (`ksmcompat`) | cached snapshot, lastFetch | `New`, `load`, scrape, `parseQuantity` | two fallible requests under one mutex, time to live, quantities |
| node_exporter embedding (`nodeexporter`, `nodecompat`) | none | flags, validation, registration | one family with two owners |
| configuration and start-up (`internal/config`, `cmd/nodevitals`) | what has been built so far | `Load`, `ResolvedTiers`, `main` | defaults, a failing tier, deferred calls, a signal at any point |
| Helm chart, release tooling | | | not program logic |

How they interact. `main` loads the configuration, builds the registry tier by tier,
registers the compat, node and ksm surfaces with the metrics sink, opens the store,
starts the HTTP server and calls `Agent.Run`. The run loop calls `Tick`: `CollectAll`
(the gpu and smart collectors update their compat exporters on the way), then the
snapshot, the metrics sink and the store one after the other, then `Evaluate`, then one
`DeliverWithRetry` per webhook. Each event source has a drain goroutine which does the
last part for one event at a time. The goroutines share the receivers, the counters
and the context. A scrape reads the metrics sink and the exporters at any time and is
the only thing that makes the ksm exporter ask the API server.

What makes each part correct:

* engine: an alert is active exactly when the definition over the history of
  observations says so; ENTER and EXIT pair up; ids identify transitions of one
  process, but for rules that share a condition;
* store: every accepted sample is in memory, in exactly one stored average, aged out
  or lost in a crash; stored points do not change; pruning removes what aged out and
  nothing else; an answer is complete or refused (it is not, section 3);
* XID stream: NVML is not used after it is freed; `Close` returns; order is kept;
* delivery: a nil error is a receipt; repeats are bounded; losses are counted;
* agent: a signal ends it, a dead receiver does not stop polling or other sinks;
* polling: a failed read costs the samples whose file it is and no others, nothing is
  made up, and native and compat surfaces tell the same story;
* ksm: an answer comes from one recent pass and never goes back; scrapes are answered;
* start-up: what runs is what the file asks for, or nothing runs; a signal ends it.

## 2. Modules

| Module | Models | Checked by |
|---|---|---|
| `EventEngine` | `Evaluate`, one (sample, rule) pair per step | `MCEventEngine`, 3 runs; `EventEngine_proofs` |
| `HistoryStore` | `Ingest`/`flushLocked`/`Query`, crash, wall clock, the history endpoint's checks | `MCHistoryStore`, 2 runs; `HistoryStore_proofs` |
| `XidStream` | `watchXid`, the forwarder, the drain's receive, `Close` | `MCXidStream`, 1 run; `XidStream_proofs` |
| `Delivery` | `DeliverWithRetry` over `EmitEvents`, several goroutines | through `Agent`; `Delivery_proofs` |
| `Agent` | extends `Delivery` with `Tick`, `Run`, the drain goroutines, counters, exit | `MCAgent`, 2 runs; `Agent_proofs` |
| `AlertChannel` | abstract: what the agent promises of its events | refined by `Agent`, run and proof |
| `CoreCollectors` | the ten core collectors, read by read | through `Polling`, runs and proofs |
| `SmartSurface` | discovery, probe, health, samples, smartctlcompat | through `Polling`, runs and proofs |
| `GpuSurface` | `Read`, `Collect`, throttle decoding, dcgmcompat | through `Polling`, runs and proofs |
| `Polling` | `CollectAll` and publication over changing hardware | `MCPolling`, 2 runs; `Polling_proofs` |
| `KsmCache` | the scrape cache, its mutex and requests, the rendering | `MCKsmCache`, 1 run; `KsmCache_proofs` |
| `FreshAnswers` | abstract: what a scraper is promised | refined by `KsmCache`, run and proof |
| `Startup` | `config.Load`, `main`, flags, shutdown | `MCStartup`, 1 run; `Startup_proofs` |

Definitions whose names end in `Bug` are wrong variants of the definition that follows
them. `PROJECT.json` lists, for every property of every passing run, one such variant
that TLC shows to violate it. Nothing else uses them.

### EventEngine
`devices[r][d]` is `ruleState.devices` (an absent entry is `zeroState`); `samples`,
`si`, `ri` are the two nested loops, `emitted` collects the events of every call,
`run` counts process starts. `obs` is a history variable: what each rule and device
was shown. Values are small integers, a sample's timestamp is any of `Times`, and an
id is the tuple the format string is built from (the hash is taken to be injective).

### HistoryStore
`acc`, `next` are the fields of `Store`; `db[s]` is the bucket of series `s`. An
average is the set of the calls whose samples it stands for, so that "lost" and
"counted twice" can be said. `Duration` and `uint64` keys keep a width
(`DurationSpan`, `KeySpan`), so both wrap as in Go. The loop over closed boundaries is
the predicate `lastClosed`. bbolt is external: a transaction commits or does not, and
deleting while iterating a cursor deletes exactly the keys visited. `Truncate` is
relative to time 0 of the model. `taken`, `fed`, `expired`, `lost` are history
variables, and so is `rewound`: a process started with the clock behind the points it
found. Then its first boundary may be a stored key and its first flush may overwrite a
point; several properties are stated up to that one case, which no document excludes.
A clean stop and a kill are the same step, since `Close` does not flush.

### XidStream
A send and its receive on an unbuffered channel are one joint step. `wpc`, `fpc`,
`dpc`, `cpc` are the places of the watcher, the forwarder, the drain goroutine and the
callers of `Close`; `once` is the `sync.Once`. A `Wait` that times out and one that
fails are the same step. Today `main` never calls `Close`; the model allows any number
of calls, as the interface does.

### Delivery, Agent and AlertChannel
`call[p]` is goroutine `p`'s frame of `DeliverWithRetry`: the attempt, the index of
`EmitEvents`' loop and the result. A post is atomic with three outcomes (accepted;
received but not answered 2xx in time; not received). A cancellation while a post is in
flight is the second or third outcome followed by `Cancel`; after `Cancel` a post can
only fail, because the request carries the context. Delays are abstract. The check of
the context (`queue.go:48`), the computation of the delay and the sleep (`:52`) are
places of their own (`delay` is between them), so a cancellation can fall in the gap,
and the sleep does not look at the context, as in the code. `late` is a history
variable: the sleeps a goroutine began and the posts it ended after the cancellation.
`Agent` gives each goroutine a place, the batch it delivers and the index of the sink.
`views` is the poll shown by each surface, counted modulo `Gens` so the loop need not be
bounded; "history" is the poll last handed to `Ingest`, which folds the samples even
when it returns an error. Metrics are always configured (`main` always passes them) and
history is enabled. `Exit` may come while drain goroutines deliver: `Run` does not wait
for them.

`AlertChannel` knows no goroutines, attempts or sleeps: events are raised once, a sink
receives an event only between its raising and the moment the agent is done with it
there, and the agent is done with a batch by the sink having all of it or by counting
all of it as dropped. The mapping of `Agent`: raised is what
`nodevitals_events_total` counts, a sink has got what its receiver got at least once.

### Polling with CoreCollectors, SmartSurface and GpuSurface
A process polls one tier (the DaemonSets of the chart run one each; several tiers in one
process only make `CollectAll` longer). The three surface modules have no variables: a
collector is a function of the set `ok` of the reads that succeeded and of the hardware,
and returns samples and an error like `Collect`. A read is one file, ioctl or NVML call,
so "the name of a power zone cannot be read" and "GetTotalEccErrors failed" are choices
of their own. `Polling` lets any reads fail, runs the collectors one after the other,
drops the samples of one that returned an error, replaces the compat exporters'
snapshots inside `Collect`, and publishes. Between polls processor time passes, iowait
goes back (the kernel allows it), a processor goes offline and comes back from zero, ECC
errors are counted and a driver reload clears the volatile ones. Sample values are the
integers the code would publish, conversions included (milli-units, seconds from hours,
MiB); `since` is a history variable that accumulates what the processors did since the
baseline was read. What a failed read may cost is stated apart from the collectors:
`contents` lists, for each of the ten, the samples its files hold and the files each
sample needs, and says nothing of what the code does with a read that failed. Two of the
NVMe devices are namespaces of one controller. Names, models and serial numbers are
opaque; a device name is a sequence where the code takes it apart.

### KsmCache and FreshAnswers
`pc[s]`, `lock`, `cached` and `lastFetch` are the scrape's place, the mutex and the
fields of `Exporter`; the fetch of the node and that of the pods are separate steps with
the mutex held, each may take up to `RequestTimeout` and fail. The cluster changes at
every tick: revision t is what a read at time t returns. A reply carries any revision
from the one at which its request was sent to the one at which it arrives, while
`lastFetch` is the time after the reply. `FreshAnswers` promises a scraper an error or
one pair of reads: the node's first, the pods' at most two request timeouts later, and
the pods' at most one request timeout and the time to live ago; two different answers
were read a time to live apart. A quantity is a sequence of characters, because
`parseQuantity` takes it apart; `denotes` is the reference it is compared with, the
Kubernetes grammar of a signed decimal with an exponent or a unit, from nano to exa,
stated apart from the code's tables. The code refuses n and u. What
`strconv.ParseFloat` takes beyond that grammar (inf, nan, hexadecimal) needs characters
that no quantity has; `QuantityAssumption` excludes it, together with texts that have
an exponent and a unit at once. Values are not bounded: the API server is taken to
write numbers that a float64 holds.

### Startup
Init picks a configuration file and an environment; every step of `main` that
can succeed or fail is a step with both outcomes: the NVML calls, the flag parser, the
service-account files, the database, the listener, requests and signals. `cfg` is what
`Load` made of the file (`${NAME}` secrets are sequences of characters, since the code
matches them). A `Duration` has `DurationSpan` values and a second is `Second` of them, so
the products of `Interval`, of the flush interval and of the retention wrap as in Go; on a
period that is not positive `NewTicker` panics, `main`'s deferred calls run and the
process ends (`TickerPanics`, `Crash`). `NodeExporterRefused` stands for all of the ways
in which the surface stops `main`: flags, parser, `NewNodeCollector`, an empty set of
collectors and the registration; `Register` may refuse a tier's or ksm's collectors as
well. `upstream` is the set of node_exporter collectors that are on after the generated
and the operator's flags. kingpin is external: it refuses an unknown flag, may refuse a
repeated one, and otherwise the last one counts. `Agent.Run` is one step here: it returns
after a signal, which `Agent` shows (`SignalEndsRun`).

## 3. Runs

Passing runs:

| Run | Instance | Shows |
|---|---|---|
| `event_engine` | 2 devices, wildcard rule 2/2 and exact rule clamped to 1 of the same condition, 5 evaluated samples, 2 process starts | `HysteresisMatchesHistory`, `EventsPairUp`, `IdsIdentifyTransitions` |
| `history_store` | 2 series (one allowed), windows of 2, retention of 4, clock 1..9, 4 ingests, 1 crash, 1 step back of the clock | `EverySampleAccountedFor`, `PointsStand` (immutable, in order, stamped right), `RetentionIsExact` |
| `xid_stream` | 4 XIDs, 2 callers of `Close`, cancellation | `ShutdownIsSafe`, `DeliveredInOrder`, `CloseReturns`, `ChainEnds` |
| `agent` | run loop with 2 events, a source with 1, 1 webhook, 3 attempts, 1 lost answer, polls counted modulo 3 (3.8 million states) | `OkMeansReceived`, `ReceiptsBounded`, `FirstReceiptsInOrder`, `ViewsAgree`, `LateWorkBounded`, `ImplementsChannel` |
| `agent_live` | 1 event each, 2 webhooks with one label, 2 attempts | `NoSilentLoss`, `ExitCutsOnlyDrains`, `SignalEndsRun`, `EverySinkIsTried` |
| `polling` | one small node per tier: 6 devices of 3 kinds, two of them namespaces of one controller, 2 GPUs, a processor and the total; up to 3 failed reads and 4 upsets per behaviour, any number of polls (376,043 states) | `FaultsHideOnlyTheirOwn`, `UtilIsOfInterval`, `HealthIsEvidenced`, `SmartSurfacesAgree`, `GpuSurfacesAgree`, `ThrottleActiveIffLimited`, `EccDropsOnlyUnanswered` |
| `ksm_cache` | 2 scrapers, time to live 3, request timeout 2, time 0..7, 24 quantities (19,148 states) | `AnswersAreFresh`, `NoRequestWhileFresh`, `EveryScrapeIsAnswered`, `RenderedAsReported` |
| `startup` | some seventy files, 2 environments, 2 requests, a `Duration` of 2^30 values | `PeriodsAreMeant`, `AsConfigured`, `OneOwnerPerFamily`, `SignedOrRefused`, `StoreReleased`, `SignalEndsProcess` |

`TypeOK` of the store and of the XID stream and `ATypeOK` of the agent are checked along.
Four properties name what they leave out. `IdsIdentifyTransitions` lets two rules that
share a condition repeat an id, and speaks of one process; `FaultsHideOnlyTheirOwn`
excepts `psi`, which loses all of its classes with one file; `SmartSurfacesAgree` names
the smartctl series without a native metric (`onlyInSmartctl`) and compares series as
sets, so that namespaces of one controller may collide; `PeriodsAreMeant` speaks of
periods that a `Duration` can hold. The lists below show each of these limits reached.

`ImplementsChannel` and `AnswersAreFresh` are refinements: the abstract specification
under `INSTANCE ... WITH`, as a property of the detailed one. Some properties are
conjunctions of named parts (`PointsStand`, `RetentionIsExact`, `ShutdownIsSafe`,
`ChainEnds`, `EventsPairUp`, `SmartSurfacesAgree`); each part has its own comment.

Why the bounds are enough. Two samples in a row decide both edges of a rule with 2/2,
and five allow ENTER, EXIT, ENTER with noise between or a second device. The history
instance has room for four windows, a gap of several windows, a flush that fails and is
retried, a cutoff before the epoch, a point that ages out and one on the edge of
retention. Three attempts are a first try, a retry that fails and a last one; the code's
five add no new place in the loop. One lost answer and a second event that fails let a
receiver get the first one three times. Three polls tell "one poll behind" from any
other distance. Two events make a batch that can fail in the middle, two sinks a failing
one with another behind it. In `Polling` at most two reads of one collector fail in one
poll, which is enough for a fallback that fails as well and for two files of one
collector; three over a behaviour spread them over polls, so a baseline or a snapshot
that survives a failed poll is seen. The polls themselves are not bounded. Seven ticks
and a time to live of 3 let a snapshot be fetched, served, expire and be fetched again,
with a failure in between. Each file of `MCStartup` differs from a base file in one
respect, next to files with everything turned on, and some have a period just above or
just below what a `Duration` of 2^30 values with a second of 2 can hold; the code's span
is 2^64 and its second 10^9.

`CHECK_DEADLOCK FALSE` is in the configurations of systems that may stop: bounded
samples, XIDs, events and time run out, the agent and the process end after a signal.
A node polls for ever, so the polling runs check deadlock.

Runs that show a disagreement between the code and what a document or comment says
(quoted in `PROJECT.json`, `findings`):

| Run | Property violated | In short |
|---|---|---|
| `event_ids_restart` | `UniqueIdsAcrossRestarts` | sequence numbers restart with the process |
| `event_series` | `SeriesBreachRaisesAlert` | labelled series of one device reset each other's runs |
| `history_range` | `AnswersAreComplete` | a range that starts before the epoch, which the range check admits, is answered 200 with no points |
| `gpu_counters` | `EccIsMonotonic` | a failed NVML call publishes an ECC total of zero |

Others, each stated in its module with the words of the code it contradicts, can be
reproduced by making them the property of a configuration:

* `UniqueIds` in `EventEngine.cfg` (`design.md:123`, section 6: ids are unique per
  transition): two rules that share a condition give their transitions the same ids;
  also with `Rules <- MCEscalation` and `Values = {1, 2, 3}`, a warning and a critical
  threshold;
* `NothingOutlivesRetention` in `HistoryStore.cfg` with `Allowed = {"cpu", "gpu"}`: the
  points of a series without new samples are never pruned;
* `FlushedPointSurvives` there with `DurationSpan = 12` and `RetentionDays = 2`: a
  retention that wraps makes a flush delete the point it wrote (in the code a
  `retentionDays` above 106751);
* `ForwarderEnds` in `XidStream.cfg` (`gpu.go:74-75`): after a cancellation a forwarder
  that is blocked in its send never ends;
* `DroppedWereLost` in `Agent.cfg`: a batch delivered in part is counted in full;
* `PsiClassesSurvive` in `Polling.cfg` (`psi.go:48-50`, "one missing class can't hide
  the others"): one unreadable pressure file costs the other two, because `CollectAll`
  drops what a collector returns with an error;
* `EveryFieldIsNative` in `Polling.cfg` (`smartctlcompat.go:36-39`): the attribute
  table, the physical block size, the maximum interface speed and the NVMe capacity are
  on the compat surface only;
* `SeriesTellDisksApart` in `Polling.cfg`: namespaces of one controller get the same
  smartctl labels, and the scrape serves one of them;
* `IntervalIsConfigured` in `Startup.cfg` (`config.go:159`): an interval of more than
  9223372036 seconds wraps, and `NewTicker` panics or polls at another one.

Fairness. `XidStream`, `Delivery` and `Agent`: weak fairness of a goroutine's own
steps, because the Go scheduler is preemptive, a sleep ends, `Wait` has a timeout of
one second and the HTTP client one of ten; strong fairness only of the cases of a
`select`, because Go picks at random among the ready ones. `KsmCache`: weak fairness
of a request's end (it has a timeout), strong fairness of taking the mutex, which
`sync.Mutex` hands to a waiter that was passed over for a millisecond. `Startup`: weak
fairness of `main`'s own steps; `Shutdown` has a timeout and bbolt waits at most five
seconds for the file. Nothing is assumed of NVML, of receivers, sources, callers of
`Close`, clients, handlers, scrapers or signals.

## 4. Proofs

TLAPS checks the theorems below for every value of the constants that meets the
assumptions named after the table. Every safety property of the passing runs, both
refinements included, has one; what is left to TLC is at the end of this section.

| Module | Inductive invariant | Theorems that state a property of a run |
|---|---|---|
| `EventEngine_proofs` | `CountersMatchHistory`, `LogInv` | `Hysteresis`, `PairUp`, `IdsIdentify` |
| `HistoryStore_proofs` | `HistoryInv` | `TypeCorrect`, `StoredPointsStand`, `SamplesAreAccountedFor`, `RetentionIsAlwaysExact` |
| `XidStream_proofs` | `XidInv` | `TypeCorrect`, `ShutdownIsAlwaysSafe`, `AlwaysDeliveredInOrder` |
| `Delivery_proofs` | `DeliveryInv`, `LateInv`, `ReceiptInv` | `NilMeansReceived`, `CancelBoundsWork`, `ReceiptsAreBounded` |
| `Agent_proofs` | `AgentInv`, then `ViewsInv`, `LossInv`, `OrderInv`, `LeftInv` | `AgentTypeCorrect`, `AgentNilMeansReceived`, `AgentReceiptsBounded`, `AgentCancelBoundsWork`, `ViewsAlwaysAgree`, `NoLossIsSilent`, `FirstReceiptsAlwaysInOrder`, `ExitOnlyCutsDrains`, `AgentImplementsChannel` |
| `Polling_proofs` | `PollInv` | `FaultsAreContained`, `UtilisationIsOfInterval`, `VerdictsAreEvidenced`, `SmartInLockstep`, `GpuInLockstep`, `ThrottleIsLimiting`, `EccDropsAreUnanswered` |
| `KsmCache_proofs` | `KsmInv` | `NeverRequestsWhileFresh`, `ImplementsFreshAnswers`, `AlwaysRenderedAsReported` |
| `Startup_proofs` | `StartInv`, then `TiersInv`, `SurfacesInv` | `PeriodsAreAlwaysMeant`, `AlwaysOneOwner`, `StoreAlwaysReleased`, `AlwaysSignedOrRefused`, `AlwaysAsConfigured` |

Assumptions. They are named in the modules that declare the constants, and TLC evaluates
them on every run: `RulesAssumption`, `DeliveryAssumption`, `XidAssumption`,
`StoreAssumption` and `StartupAssumption` give the constants their types;
`AgentAssumption` also says that a batch can hold an event and that the events are those
the goroutines may raise; `KsmAssumption` and `QuantityAssumption` that the API server has
an answer at every time and that quantities are strings over the characters of the
Kubernetes grammar without an exponent and a unit at once; `TelemetryAssumption` that a
GPU answers natural numbers and whole joules (the code divides floating-point numbers);
`TiersAssumption` that the tiers and the kinds of processor time are those of the code;
`DisksAssumption` that a disk of one transport has a name of that transport
(`isWholeDevice` tells them apart by it) and that normalised attribute values are bytes;
`AerAssumption` that AER files are the three the collector opens. Three theorems carry a
hypothesis of their own:

* `SamplesAreAccountedFor` and `RetentionIsAlwaysExact`: `RetentionFits` and
  `ClockFits`, the retention fits a `time.Duration` and the clock a key. Section 3 shows
  how they fail outside of that range. `StoredPointsStand` needs no such hypothesis;
* `AlwaysAsConfigured`: `DistinctIsExact`, the loop of `ResolvedTiers` keeps every
  name once. That is induction over a fold, which is out of the prover's reach; TLC
  evaluates it for every file of `MCStartup`.

What makes the invariants inductive:

* `EventEngine_proofs`: `HysteresisMatchesHistory` speaks of windows of the history and
  does not say how long the current run is. `CountersMatchHistory` says that
  breachRun and clearRun are the lengths of the runs that end the history; one more
  observation extends or cuts the window. `LogInv` ties the state of each rule and
  device (active, seq, startedAt) to the last event of that pair in the log.
* `HistoryStore_proofs`: `HistoryInv` adds to the types that accumulators hold only
  samples newer than any stored one of their series (`AccIsNewer`), that a bucket has
  one value per key, that the next boundary is behind every stored key unless the clock
  was rewound (`KeysBehindNext`), and that points are in order and stamped right. So
  a flush appends, and never overwrites but in the rewound case.
* `XidStream_proofs`: `OneRunner` says which part of `Close` has been run from where its
  one runner is; `ClosedByOwner` ties each closed channel to the place of the goroutine
  that closes it; `InFlightInOrder` lists the XIDs between NVML and delivery, each held in
  one place. `ShutdownIsSafe` needs the first two, the order the third.
* `Delivery_proofs`: `OkMeansReceived` speaks of the end of a call only. `DeliveryInv`
  adds that while posting, every event before the current index has been received, and
  that a sleeping call starts from the first event. `LateInv` says in
  which places a goroutine can be once it has begun a sleep or ended a post after the
  cancellation: none from which it begins another. `ReceiptInv` counts the receipts of
  an event by the attempts the call has begun.
* `Agent_proofs` builds on `Delivery_proofs`: `AgentInv` says that a goroutine carries
  the events it raised last (`CarriesLatest`), that they are counted before they are
  posted (`CountedFirst`), and that an event is on its way to a sink in the frame of one
  call only (`OnItsWay`, `InOwnCall`). With it every step of the agent is one of
  `DeliverWithRetry`'s or leaves its frames alone, so what holds of `Delivery` holds in
  the agent, and every step is one of `AlertChannel`'s or a stutter. `LossInv` compares
  the drop counter with the cardinality of the losses of the sinks that share the label,
  sink by sink. `LeftInv` says which events a sink is not done with yet: those in the
  frame or the batch of a goroutine, so none of the run loop's once it has returned.
* `Polling_proofs`: the properties speak of what is published, so `GpuInv`, `SmartInv`
  and `CoreInv` say of which reads and which hardware the gathered and the published
  samples are: those of one pass over the reads that did not fail, the published ones
  over counters that were not ahead of today's (`notAhead`; hence an ECC total can only
  drop to the zero of a failed call). `CoreInv` says it collector by collector
  (`covers`), which is inductive because no two collectors share a read
  (`ReadsDisjoint`). `CpuInv` relates `cpuCollector.prev` to the time that has passed
  since, as long as no counter went back. The rest of the module is about the
  collectors as functions: that each returns what the files it could read hold
  (`ReadIsReturned`) and nothing else (`ReturnedWasRead`), where what a file holds is
  the reference `contents`; what the verdict over a page of attributes rests on
  (`VerdictHasEvidence`); that each compared compat family has the native readings
  behind it (`ReadingsAgree`) and every other series is a named one
  (`SeriesAreCompared`).
* `KsmCache_proofs`: `CacheIsOnePass` and `RequestIsYoung` bound the age of what is
  cached and requested, `NoneIsAhead` says that nobody was shown anything newer than the
  cache; `AnswerIsWhole` that an answer is an error or one snapshot. The refinement maps
  the scrape that takes the mutex and finds or fetches a snapshot to the one answering
  step of `FreshAnswers`. `ParseQuantityIsExact` is about the function alone: for every
  string that `QuantityAssumption` admits it returns what that string denotes, or refuses
  it.
* `Startup_proofs`: `StartInv` says what `main` has done by the time it is somewhere:
  which configuration it works with (`CfgIsLoaded`), who may have registered a surface
  (`OwnersByStep`), how far the store and the server are (`StoreByStep`), and that `Run`
  panics only for an interval that is not positive (`Panicked`); `FitsIsExact` says that a
  product that fits a `Duration` is not changed by the wrap. `TiersInv` and `SurfacesInv`
  add that the tiers registered and those still to do make up what the file asks for.

Only model-checked: liveness (`CloseReturns`, `ChainEnds`, `SignalEndsRun`,
`EverySinkIsTried`, `EveryScrapeIsAnswered`, `SignalEndsProcess`), which needs fairness
and is out of the prover's reach; that `distinct` keeps every name once; and the four
runs that show a disagreement, which are counterexamples.

## 5. Not modelled

* Formatting and encoding: CloudEvents envelopes and signatures, Prometheus text and
  help, attribute flags, resource units, XID class names, padded ATA strings, 128-bit
  NVMe counters, PCI bus ids, the width conversions of NVML field values.
* Libraries and services: bbolt, NVML, procfs parsing, kingpin, the Kubernetes API,
  YAML decoding. They appear as choices at the calls into them.
* What the six `nodecompat` collectors read out of their files, each of which renders
  one file without keeping state, and the path defaults of `config.Load` and the
  textfile directory's flag.
* Wall-clock amounts: back-off delays, the HTTP server's timeouts. The shift
  `Base << attempt` (`queue.go:29`) saturates: with the default of 500 ms = 2^8 * 5^9 ns
  a wrapped positive product is a multiple of 2^43 and above the maximum, and the agent
  makes five attempts.
* A `Wait` that fails at once (`gpu_nvml.go:121`) makes the watcher loop without a
  pause: processor use is not a state of the model; it still observes `done`.
* The chart and the release tooling.

Seen on the way, without a property: `Labels` of the configuration (`config.go:59`) is
read by nothing; the ksm time to live does not bound the requests while they fail; a
probe sets a temperature of 0 when none is reported; a power zone whose name cannot be
read, and a GPU whose name cannot, appear as series of another identity for that poll; a
listener that fails is logged and the agent runs on without HTTP; the server's write
timeout of 10 s equals that of two ksm requests; `--collector.filesystem` among the
extra flags undoes the guard for a missing root file system if the parser accepts it.

## 6. Plan

The system's parts are modelled and every safety property that a run checks is proved.
What is left:

1. The parts of `AlertChannel` and `FreshAnswers` that are consequences of the abstract
   specification alone (a sink receives only what was raised; a scraper never goes back
   in time), stated and proved there, so that the refinements carry them down.
2. Structural lemmas for the six liveness properties: the enabled steps and the
   measures that decrease, without the fairness argument itself.
3. The width conversions of `fieldvalue.go`, if a property of theirs turns up that the
   collectors' tests would not reach.
