# A TLA+ model of the OpenFaaS gateway

The gateway (`src/gateway`) accepts HTTP requests for functions and forwards them to a
provider (faas-netes, faasd) that runs them. Around the forwarding it does a few things that
keep state and act concurrently: it scales a function up from zero before the first request
is forwarded, it scales functions when Alertmanager says so, it queues asynchronous
invocations in NATS Streaming, and it exports metrics. Those things are modelled here, the
ones on which several actors work at once first.

## 1. Inventory

### Components

| component | code | state | operations |
|---|---|---|---|
| Scale from zero | `scaling/function_scaler.go`, `handlers/scaling.go`, `types/retry.go` | per request: place in `Scale`, loop variable, result | `MakeScalingHandler`, `Scale`, `Retry` |
| Replica cache | `scaling/function_cache.go`, `function_meta.go` | function -> response, time of refresh | `Set`, `Get`, `Expired` |
| Shared provider calls | vendored `x/sync/singleflight` | map key -> call, call = outcome + wait group | `Do`, `doCall` |
| Provider client | `plugin/external.go` | none (the provider's counts) | `GetReplicas`, `SetReplicas` |
| Alert handler | `handlers/alerthandler.go` | per request: batch, loop position | `MakeAlertHandler`, `handleAlerts`, `scaleService`, `CalculateReplicas` |
| Operator scaling | `scaling/ranges.go` | none | `MakeHorizontalScalingHandler` |
| Cached annotation query | `scaling/function_query.go` | a second `FunctionCache` | `Get` |
| Own single flight | `scaling/single.go` | map, mutex | `Do` (never used) |
| Forwarding proxy, notifiers | `handlers/forwarding_proxy.go`, `notifiers.go`, `notifier_handler.go`, `callid_middleware.go` | per request: time-outs, status, interceptor | `forwardRequest`, `handleEventStream`, `Notify` |
| Log proxy | `handlers/logs.go` | per request: copying goroutine, its channel, context, upstream response | `NewLogHandlerFunc`, `copyNotify` |
| Asynchronous queue | `handlers/queue_proxy.go`, vendored `nats-queue-worker/handler` and `stan.go` | connection behind a mutex, attempts; per connection: map of pending acknowledgements, channel of slots, timers | `MakeQueuedProxy`, `Queue`, `connect`, `reconnect` |
| Metrics exporter | `metrics/exporter.go`, `metrics.go` | `services` slice, gauges | `Collect`, `StartServiceWatcher` |
| Function list | `metrics/add_metrics.go`, `prometheus_query.go` | none (Prometheus's last scrape) | `AddMetricsHandler`, `mixIn` |
| Name and URL resolution | `pkg/middleware/resolver.go`, `service_name.go` | none | `Resolve`, `GetNamespace` |
| Credentials, headers | `pkg/middleware/*auth*`, `handlers/cors.go`, `requests` | none | decoration |
| Configuration, wiring | `types/readconfig.go`, `main.go` | the configuration, while `main` starts | `Read`, `main` |
| Information endpoints, UI, API description | `handlers/infohandler.go`, `assets`, `api-docs` | none | constant answers |

### Interaction

* Every function request passes `MakeScalingHandler` (if `scale_from_zero` is set), which
  calls `FunctionScaler.Scale` and then, by its result, answers or forwards.
* `Scale` looks in the cache, then asks the provider through the singleflight group under
  the key `GetReplicas-<fn>.<ns>`, from three places (first query, head of a retry, holding
  pattern), and updates through `SetReplicas-<fn>.<ns>`. All requests of the process share
  the group and the cache.
* The alert handler calls `GetReplicas` and `SetReplicas` directly, with no group, no cache
  and no lock. Operators' requests reach the provider's `/system/scale-function` after
  `MakeHorizontalScalingHandler` has brought the count into range. So three paths write
  one count, and something outside the gateway (an idler) may scale to zero.
* Notifiers observe the forwarding, the exporter reads what they count and what its watcher
  has fetched; `NATSQueue` is shared by the queueing requests and its own reconnection.

### What is hard, and what makes each component correct

* *Singleflight*: waiters and leaders meet in a map entry, a wait group and two unlocked
  fields. Correct: nobody sleeps on a flight without a leader, everybody gets the outcome of
  the flight that was joined, every `Do` returns.
* *Scale from zero*: a request decides on what another request's call saw. Correct: whoever
  is forwarded finds a replica, or has polled its polls away; a request is never lost,
  whatever fails; no count is lowered by a stale check; a function that is asked for starts;
  the retries are all made.
* *Alerts*: read, compute, write with nothing in between, on unsigned numbers from
  free-form labels. Correct: counts stay within the function's range, firing never lowers,
  the last word of a batch counts, every batch is answered.
* *Everybody together*: the three paths respect each other's assumptions, and the gateway
  scales a function to zero only by an alert that the function's labels ask it of.
* *Forwarding, logs*: time-outs, panics and clients that go away; the status that is
  reported is the status that was sent; nothing is written to a response that is over.
* *Queue*: lost connections and acknowledgements, four goroutines that may end one wait.
  Correct: what is answered 202 is in the queue; every wait is ended, by exactly one of them;
  slots come back; a connection that is lost is replaced while there are attempts left.
* *Function list*: five places derive a function's name, each in its own way. Correct: they
  agree, so that what was counted is what is listed.
* *Start-up*: pointers that the configuration may leave nil. Correct: it serves or says why not.
* *Exporter*: a reader and a writer that are not synchronised, and counters read one after the
  other. Correct: what a scrape reads is consistent, and what it exports is what it took (which a
  torn read may make other than any list that was fetched, see section 2).

The hazards, each at its line, are in `PROJECT.json`, with the properties that would show them;
where the code and the docs promise nothing there is a note instead.

## 2. Modules

    Replicas            arithmetic on replica counts and labels
      ReplicasProofs    its bounds
    Flight              abstract: what a singleflight group promises
    SingleFlightGroup   x/sync's Do and doCall; implements Flight
      SingleFlightGroupProofs
    FunctionScaler      scaling from zero, over Flight
      FunctionScalerProofs
    AlertHandler        alerts, over Replicas
      AlertHistory      AlertHandler with a history variable
      AlertHandlerProofs
    Autoscaling         FunctionScaler + AlertHandler + operators + idler, one provider
      AutoscalingProofs
    ForwardingProxy     forwarding a request, and the invocation counters
    Exporter            scrapes and the service watcher, over ForwardingProxy
      ExporterProofs
    Invocations         abstract: what asynchronous invocation promises
    AsyncQueue          MakeQueuedProxy, NATSQueue and stan.go; implements Invocations
      AsyncQueueProofs
    Names               the derivations of a function's name, as operators
    FunctionList        the function list and what it counts, over Names
    LogProxy            requests for logs
    Configuration       reading the configuration, as operators
    Gateway             start-up, over Configuration; then FunctionList and LogProxy
      GatewayProofs
    MC*                 small instances for TLC

### Flight and SingleFlightGroup

`Flight` has, per key, the callers of the flight under way (`members`) and its outcome
(`reply`), and per caller what it was handed (`got`). Its steps: join or start a flight,
the function returns, the flight lands (everybody in it is handed the outcome), a caller
takes what it was handed.

`SingleFlightGroup` is the code: the map `g.m`, call objects with `val` (`c.val`, `c.err`)
and `done` (the wait group). `DoJoin`/`DoLead` are the critical section at the head of `Do`,
`RunFn` is the inner function of `doCall` with no lock held, `Finish` its deferred critical
section, `WakeUp` the return of `wg.Wait`. Call objects come from a pool and are reused as
soon as nothing refers to them, as after garbage collection, so a stale pointer would show.
Panics are outcomes like others: `doCall` stores them and re-raises them in every caller.
The refinement: a caller is a member while its call's wait group is unreleased; one that is
released has been handed the outcome even if it is still asleep.

### FunctionScaler

A request gives up the processor only at calls of the group (and at sleeps next to them), so
`Scale` is cut there. `pc` says where in the cycle call - wait - continue a request is,
`stage` which of the four call sites it is at, `round` is the loop variable of `Retry` or of
the holding pattern.

| action | code |
|---|---|
| `Arrive`, `Respond`, `Leave` | `MakeScalingHandler`, around `Scale` |
| `LookUp` | `Scale` up to the cache hit |
| `Call`, `Land` | `SingleFlight.Do`, by `Flight` |
| `AfterFirst`, `AfterRetryGet`, `AfterSet`, `AfterPoll` | what follows each of the four calls, up to the next |
| `Unwind` | a panic of the flight, re-raised in each of its callers |
| `AnswerGet`, `AnswerSet` | the provider call of a flight: success, error, or (`SetReplicas` only) the panic that a connection error leads to, with the update applied or not |
| `StartReplica`, `StopReplica`, `OutsideWrite` | external: the orchestrator and other clients of the provider |
| `Tick` | time, as far as cache entries expire |

Time is abstract: an entry is a hit for `CacheExpiry` ticks and ticks happen at any moment,
so every relation of the 250 ms expiry to the 100 ms poll interval is covered. Of a cached
response only `AvailableReplicas` is kept, the only field `Scale` reads back.

### AlertHandler and Replicas

One handler works through one batch: `Receive`, then per alert `Skip` (no name), `Query`
(`GetReplicas`, whose error is dropped), `Keep` (the count is right), or `Update`
(`SetReplicas`: accepted, refused, or cut off, which panics), then `Respond`. Between
`Query` and `Update` anything may happen to the count. Counts are unsigned and wrap at
`UintMod`; a negative label becomes a huge count (`ExtractLabelValue`), as Go's conversion
does. `Step` is exact: the float expression of the code and the integer one agree on all
caps 0..5 and factors 1..100.

### Autoscaling

Instantiates both modules over one `desired`. The minimum labels the scaler uses are those
the alert handler reads. A step is a step of the scaler's module, of the alerts' module, an
operator's request (`ScaleFunction`, clamped), or the idler's. In each module the others
appear as `OutsideWrite`s of one to five replicas, of a minimum label, or of the idler's zero
(`Others`); that this is right is what `ScalerImplemented` and `AlertsImplemented` say. Of labels
it is assumed only that `GetReplicas` does not fail on them (`LabelsRead`: the factor is in
range), since of other functions neither the scaler nor an alert ever learns a count.

`extractLabelValue` checks nothing else, so labels may say what they like, and alerts may scale a
function to zero. `IdlesOnlyByLabel` says when: a resolved alert, if the minimum label is zero
(`function_scaler.go:96` and `TestParameterEdge` know of such functions); a firing one, if the
maximum is zero as well, as its step is zero then and it sets the minimum; or a firing one that
adds its step to a minimum label from -5 to -1, which was set as a huge count and wraps (`Wraps`).
Nothing else in the gateway takes a function from some replicas to none.

### ForwardingProxy and Exporter

A request takes one of two ways through `forwardRequest`. The plain one: `Answer` or `Fail`
(`proxyClient.Do`), then `CopyEnds`. The other, for event streams: a `ReverseProxy` in a
goroutine of its own, which writes through the interceptor (`PassInterim`, `StreamAnswer`,
`StreamEnds`), or fails and writes nothing (`StreamFails`, with the empty `ErrorHandler`), and
`Return`, which reads the status after `wg.Wait`. `Build` may abort: a path that is no URL once
decoded makes `http.NewRequest` fail, its error is dropped, and the handler panics on the nil
request. `NotifyStarted`, `Observe` and `Count` are the three counters of
`PrometheusFunctionNotifier`, in the order of the code. `End` is the return of the handler,
whereupon the server sends 200 if nobody wrote a status.

`Exporter` composes the proxy with the watcher (`GetNamespaces`, `GetDefaultFunctions`,
`GetFunctions`; `e.services = services` as `StoreArray` and `StoreLength` in either order, as it
is not synchronised with its readers) and with calls of `Collect`, one action per metric and one
per entry of the slice (`Begin` to `CollectGauge`). Metrics reach the registry through a
channel, so their values are read in the order in which they were sent. What a torn read of
the slice finds past the end of the array is `Stray`; that such a read may crash the process
is left out. A counter is one number per function, summed over status codes.

`LoneScrapeExact` is about scrapes that no other one overlaps: the gauge is one object, and a
scrape that starts while another is filling it resets it for both. Nor does it say that what a
scrape took is a list that was fetched, which the torn read contradicts. Neither the code nor
the docs claim more.

### Invocations and AsyncQueue

`Invocations` has, per request, the answer, and the set of requests that reached the queue. A
202 is given only to what is there, a 400 only to what is not and never will be; a 500 says
nothing, since an acknowledgement may be lost.

`AsyncQueue` cuts `MakeQueuedProxy` -> `NATSQueue.Queue` -> stan.go's `Publish` at the points where
a lock is free. In a connection, `acks` is `pubAckMap`, `slots` the fill of `pubAckChan`, `timer`
the `AfterFunc` of an acknowledgement (whose function runs some time after it *fired*, when
`Stop` no longer helps), `outcomes` the request's channel `ch`.

| action | code |
|---|---|
| `ReadRequest` | `MakeQueuedProxy` up to `Queue`, and the size check of `Queue` |
| `TakeConnection` | the copy of `q.nc` under the read lock |
| `Register`, `Acquire`, `Block`, `GiveUp`, `Send`, `Arm` | `publishAsync`: map entry; slot; waiting for one; woken by `pubAckCloseChan`; `PublishRequest`; timer or error |
| `Receive` | `Publish` receives, and the response |
| `ProcessAck`, `Fire` + `TimeOut` | `processAck`; the timer's function |
| `Lose` | `closeDueToPing` and `cleanupOnClose`: those whose timer can be stopped are answered |
| `Reconnect`, `Store` | an attempt of `reconnect`; the store of `q.nc` in `connect` |
| `Serve` | external: the server takes a message or not, answers or not |

`Remove`, `ProcessAck` and `TimeOut` take a publication out of `pubAckMap` and free its slot in one
step. The code receives from `pubAckChan` just after it has unlocked (`stan.go:888-905`): in between
the slot of an entry that is gone is still taken, which only makes a publisher wait that little
longer, so `SlotsExact` is exact up to that window. Connection objects are reused when nothing
refers to them, as after garbage collection. `PromptStores` says that `connect` stores a new connection before it can be declared lost: the
client declares a loss after 88 unanswered pings at 5 s, the store is a few instructions away.
Without it a connection that was lost before it was stored would overwrite its replacement.

### Names and FunctionList

A name is the sequence of its parts between dots. Five places derive one: the scaling handler
(`Scaled`), the Prometheus notifier (`Counted`), `mixIn` (`MixedIn`), the exporter (`GaugeLabel`)
and the provider, from the forwarded path (`Found`). The first two read `r.URL.String()`, the
last gets `r.URL.Path`; the form of the request line (`plain`, `escaped`, `absolute`) is what makes
these differ. In `FunctionList` invocations are counted (`Invoke`), Prometheus scrapes (`Scrape`),
and the list is answered in two steps, as invocations and scrapes go on between the provider's
answer and Prometheus's. `runs` counts, per function, the invocations whose name the gateway
could read (`Readable`): it is what the counts ought to be. A count is one number per label.

### LogProxy

Two goroutines per request. The handler connects (`Refuse`, `Relay`), waits for the copy or the
client (`Select`), and returns through its deferred calls (`Return`). The copier is `io.Copy`, a
read and a write at a time (`Read`, `Write`, `LogEnds`, `ReadFails`), and then sends to a channel with
room for one (`Report`). They share the response, the upstream's body and the context.

### Configuration and Gateway

`Configuration` reads an environment: the value of a variable is of a *kind*, with a number of
seconds where it matters, and a pointer is whether it is set. `Gateway` is `main`: `ReadConfig`,
`Wire` (or `NoCredentials`), `ConnectQueue` or `NoQueue`, `Listen`, and then the steps of
`FunctionList` (with the configured namespace) and of `LogProxy` (with the configured time-out).
`Wire` reads the provider's URL, which `ReadConfig` has made sure of, and the logs provider's.
`"exited"` is an exit with a message, `"crashed"` the dereference of a nil pointer.

## 3. Runs

| run | instance | shows |
|---|---|---|
| `group` | 3 goroutines, 2 keys, pool of 3 | x/sync's group implements `Flight`; waiters read after the last write, have a leader, and every `Do` returns |
| `scaler_faults` | 2 requests, 1 function, idler, failing replicas, all faults, 2 retries, 2 polls | types, no lost waiter, `OnlyRaises`, every request answered or aborted |
| `scaler_stable` | 2 requests, 2 functions with different minima, provider errors, 2 retries | `ServedWhenReady`, `HoldingScaled`, `KeepsTrying`; no mix-up of functions; a request gets its function a replica or an error |
| `alerts` | 2 handlers, 2 functions (one with negative labels), another client, all faults | types, range and firing in spite of stale reads, the last word of a batch, every batch answered |
| `exporter` | 1 request (every outcome, plain and stream), 2 scrapes, 1 function that comes and goes | `ScrapeOrdered`: completed <= observed <= started in each scrape; `LoneScrapeExact`; the status reported is the one sent; every request is completed or aborted |
| `autoscaling` | 1 request, 1 handler, 1 function with a minimum of zero, operators who ask for 0 and 6, idler | the parts run together as each module says; only a resolved alert scales to zero |
| `queue` | 2 requests, 2 connections of one slot each, 2 attempts to reconnect | the queue implements `Invocations`; one answer per publication, and somebody who gives it; slots exact; a loss attended to; every request answered |
| `gateway` | every kind of environment that matters to start-up, 1 function name in 2 namespaces under 4 URLs, 2 invocations, 1 request for logs of up to 2 lines | it serves or says why not; names agree and listings are exact; at most one late line, every request for logs over, no copier left |
| `scaler_exhausted`, `scaler_dropped`, `scaler_outbid`, `list_unmixed` | minimal, or as `gateway` | the findings of section 5 |

**Bounds.** Two requests suffice for every interleaving between a leader and a joiner, and
for a request that acts on what another one asked for; that holds for more is proved (section
4). Three goroutines, in `group`, let a flight start while waiters of the last are still asleep.
Two retries distinguish first, last and only attempt, two polls likewise. Two functions, in
`scaler_stable`, show that keys keep them apart in the group and the cache. `CacheExpiry = 1`
gives fresh, old-but-valid and expired entries; 0 the shortest life, which is as long as wanted
since ticks may fail to come. The batches of `alerts` name one function twice, in both orders,
another one whose labels wrap, and none; the function's factor gives a step of less than one, so
that rounding matters; `disturbed`, the history variable of `AlertHistory`, tells
which counts somebody else changed while a handler was at its batch. `UintMod` 1024 (128 in `autoscaling`) is far above
every count, so that wrapping comes from negative labels as with 2^64. The function of
`autoscaling` has a minimum of zero, the label with which an alert idles it in earnest; a ceiling
of zero and a minimum that wraps, the other ways that `IdlesOnlyByLabel` allows, are not in the
run, since a huge minimum means as many replicas that start, and rest on the theorem. In `exporter` each
request and each scrape happens once: one request that passes between the reads of a scrape
is what could put the counters out of order, and two scrapes show every overlap on the
gauge; the watcher goes round for ever. One status, 404, tells the answer from the defaults
200 and 502. In `queue` one slot makes the second request wait for it; two connections are the
one that requests were given and the one that replaces it, and a third attempt to connect finds
the first free again; two attempts distinguish the last from the others. In `gateway` two
invocations add up under one label or fall under two, with or without a scrape between them;
two lines let one be written before and one after the handler has returned. The environments
that differ in what main branches on all have one namespace and the default time-out, those
without a namespace the time-outs of zero and less: the two have nothing to do with each other.
Nothing else is bounded: `desired` has the values the code computes.

**Fairness.** Weak fairness of: a request's or a handler's own steps (goroutines that can run
are scheduled), the provider's answers, landing of flights, the start of replicas asked for.
The provider's answer is an assumption on the environment: the HTTP client has a dial
time-out but none for the whole call (`plugin/external.go:39`), so with a provider that never
answers requests do hang. In `exporter`: the proxy's goroutines, and that a forwarded request ends, by its
time-out at the latest (`Cut`; `forwarding_proxy.go:121` and `:149`); nothing of the upstream,
the scrapes or the watcher. In `queue`: a request's own steps and the timers, and strong fairness
of `Acquire`, because Go serves the senders that wait at a channel in the order in which they
came; nothing of the server or of reconnecting. In `gateway`: both goroutines of a request for
logs, its time-out, and that a round trip fails when its context is over; nothing of the upstream
or the client. A write that the client does not take ends by the server's write time-out, which
is the context's (without one, zero, the context is over at once). No fairness for arrivals, other clients, the idler, failures, time.

**Deadlock.** TLC checks every run for it but those of `MCGateway`, where the gateway may exit.

## 4. Proofs

TLAPS checks, for all requests, functions, labels, connections, bounds and faults:

| module | theorem | for |
|---|---|---|
| `FunctionScalerProofs` | `TypeCorrect`, `NoLostWaiter` | `TypeOK`, `WaitersInFlight` |
| | `ServedOnlyWhenReady`, `HeldOnlyWhenScaled` | `ServedWhenReady`, `HoldingScaled` (and `ObservationsSound`), if nobody scales to zero and replicas stay (`Stable`) |
| | `ScaleOnlyRaises` | `OnlyRaises`, if the only other writer is an idler (`OnlyIdler`) |
| | `TriesAll` | `KeepsTrying`, if no update is cut off (`"drop" \notin Faults`; `scaler_dropped` shows what happens otherwise) |
| `SingleFlightGroupProofs` | `TypeCorrect`, `ReadAfterWrite`, `HaveLeader` | `TypeOK`, `WaitersReadAfterWrite`, `WaitersHaveLeader` |
| | `GroupKeepsPromise` | `KeepsPromise`: the group implements `Flight` |
| `AlertHandlerProofs` | `TypeCorrect`, `AlertsStayInRange`, `FiringNeverLowers`, `ResolvedSettles` | `TypeOK`, `StaysInRange`, `FiringRaises`, `ResolvedScalesDown` |
| `AutoscalingProofs` | `ScalerInGateway`, `AlertsInGateway` | the composition implements each part |
| | `GatewayIdlesOnlyByLabel` | `IdlesOnlyByLabel`, whatever the labels are |
| `ExporterProofs` | `TypeCorrect`, `StatusReported`, `ReadsOrdered`, `LoneScrape` | `TypeOK`, `ReportedAsSent`, `ScrapeOrdered`, `LoneScrapeExact` |
| `AsyncQueueProofs` | `TypeCorrect`, `NeverAnsweredTwice`, `NobodyForgotten`, `LossIsAttended`, `NoSlotLost` | `TypeOK`, `AnsweredOnce`, `SomebodyAnswers`, `LossAttended`, `SlotsExact` |
| | `QueueKeepsPromise` | `KeepsPromise`: the queue implements `Invocations` |
| `GatewayProofs` | `TypeCorrect`, `MainStartsOrSays`, `NamesOfOneFunction`, `CountsExact`, `OneLateLine` | `TypeOK`, `StartsOrSays`, `NamesAgree`, `ListExact`, `FewLateLines` |

**Arguments.** None of the properties but the simplest is inductive as it stands; each module has
the invariant that is.

*Scaler.* `TypeOK` and `WaitersInFlight` are inductive only together: a request that is
handed a reply has a function because it waits in a flight. `ServedWhenReady` is not inductive:
a request is forwarded on an answer it holds, which came from a flight, or on a cache entry
that another request stored. `ObservationsSound` says that each of these *vouches* for what
the provider still has; in a stable system what was once available stays so (`Persists`),
hence an answer that vouches goes on vouching however late it is used. `OnlyRaises` rests on
`ZeroSeen`: a request in the retry loop has seen its function at zero, and from then on the
count is at most the target, as only `Scale` and the idler write. `KeepsTrying` needs that no
flight panics (`NoPanic`) and that a request has attempts left as long as it is in the loop
(`RequestTries`).

*Group.* An entry of the map has a leader, and its call is not over (`EntryLed`); a leader's call is
the entry of its key, and nobody else's (`LeaderEntered`); a waiter's call is that entry until it
is over (`WaiterEntered`). So the deferred deletion of `doCall` takes out the leader's own call,
and a call object that somebody still refers to is never handed out again. Each step of the
code is then a step of `Flight` or none: the last release, not the wake-up, is what hands over.

*Alerts.* `RangeInv` adds that every count a handler has *read* is in range, so that acting on a
stale one is harmless. `ResolvedScalesDown` rests on `Undisturbed`: as long as nobody else has
changed a function's count, what a handler has read of it is what there is, and its last word
on it stands, if that was "resolved". For the composition, `Inv` says
that a count that is had, or has been read, either leaves room for a step or is the function's
minimum; hence an alert asks for one to five replicas or for the minimum, or for none where a step
from the minimum wraps (`AlertCount`), and a step of one part is an `OutsideWrite` of the other's
module. The scaler's target and an operator's count are never zero, which leaves `IdlesOnlyByLabel`
to the alerts.
`ReplicasProofs` holds the arithmetic: a step is at least one replica and at most the ceiling,
and so on.

*Exporter.* Four invariants side by side. `StatusInv` follows a request's status through the
client, the interceptor and `forwardRequest`'s result. `CountInv`: each counter of a function is
the *number of its requests* that are past the place where it is counted, which orders the
counters, as those places are in a row. `ReadInv`: what a scrape has read of one counter is at most
what the next is now, which it stays as counters only grow. `WatcherInv`: a list names no function
twice, since no namespace is asked twice. From that `ScrapeInv` follows while a scrape is alone: the
gauge is what the entries taken so far say.

*Queue.* `RequestInv`, per request: whose connection it is entered in and how long (`Entered`), that
nobody knows of it before it is sent (`Untouched`), that whoever takes it out of `pubAckMap` puts
the one answer in its channel, and that until then a timer runs (`Told`), and that an
acknowledgement is of something stored (`Truthful`). `SlotsExact` is proved from the set of
requests that occupy a slot (`Occupants`): `slots` is its cardinality.

*Gateway.* `StartInv`: the configuration that `main` uses was read without error and has a provider.
`Tallied`: a counter has, under the label that `mixIn` will look for, the invocations whose name could
be read; that needs that the derivations of a name agree and that two functions never share a
label. `LateAt`: when a handler of logs has returned its response is closed, and the copier has at
most the line in hand.

**Assumptions.** The named `ASSUME`s of each module, which TLC evaluates in the runs; and
`Stable`, `OnlyIdler` or the absence of `"drop"` where a theorem says so. Of the `ASSUME`s these say
more than what a constant is: namespaces are listed once (`ExporterAssumption`); there are as many
call objects as callers, since Go allocates one when it needs one (`PoolAssumption`); a function's
own name is neither empty nor the `%` that stands for an escaped one, as names are DNS labels
(`ListAssumption`; without it a function would be counted for what could not be read, as the
proof of `ListExact` showed). Note that in `Autoscaling` alerts and
operators set counts above the target, so `OnlyIdler` does not hold of the scaler there:
`ScaleOnlyRaises` is about a gateway in which only scaling from zero is used, and
`scaler_outbid` shows what happens otherwise. `LossAttended` takes `PromptStores` as given.

**Only model-checked.** Liveness (`DoReturns`, `Answered`, `ColdStart`, `BatchAnswered`, `Forwarded`, `Replied`, `LogsAnswered`,
`NoCopierLeft`), which needs ENABLED and fairness that the prover does not handle. Every safety
property of a run is proved.
Nothing here needs recursion; induction over data would be out of the prover's reach.

## 5. Findings

* `scaler_exhausted`: when the polls are exhausted `Scale` reports the function as available
  and the request is forwarded (`function_scaler.go:191`); `handlers/scaling.go:19` says that
  next is not invoked.
* `scaler_dropped`: a connection error in `SetReplicas` reads the status of a nil response
  (`plugin/external.go:173`); the panic reaches every request of the flight, and none retries.
* `scaler_outbid`: "set them if the value is still at 0" (`function_scaler.go:100`) is two
  calls; a count set in between is overwritten, here 3 by 1.
* `list_unmixed`: "continue, the mixIn will correctly handle the empty results"
  (`add_metrics.go:64`) - when the query to Prometheus fails the result is nil, `mixIn` reads its
  `Data` (`add_metrics.go:90`) and the request for the function list is aborted.

Observed while modelling, with nothing in the repository that says otherwise: a failed query for
an alert is neither reported nor logged and its batch is answered 200 (`alerthandler.go:84`);
without `function_namespace` bare names are counted under labels that no list shows; requests
whose URL has needless escapes or is absolute are counted under other names than the function's;
`write_timeout=0` makes every request for logs fail; a minimum label of -1 lets a resolved alert ask
for 2^64-1 replicas and the next firing one, should the provider have taken that, for none.

## 6. Not modelled

* `scaling/single.go`: dead code, nothing calls `NewSingleFlight`.
* `Forget`, `DoChan`, `runtime.Goexit` of the group: not used by the gateway.
* A provider that never answers (see Fairness).
* The text of responses, log lines, headers, durations, URL building.
* Bodies, headers and protocol switches (101) in the forwarding proxy, `MakeNotifierWrapper`,
  `MakeCallIDMiddleware`. A body that is cut short is passed on as if complete.
* `scaling/function_query.go`: `MakeQueuedProxy` gets a `CachedFunctionQuery` and does not use it.
* `FunctionAsHostBaseURLResolver`: not used. `SingleHostBaseURLResolver` and the path transformers
  only build strings.
* Of stan.go what the queue does not call: subscriptions, `Close`, asynchronous publishing.
* Of the configuration what is only passed on; of `main` the table of routes.
* What a write to a response does after its handler returned: `FewLateLines` bounds how many
  there are, and what `net/http` makes of one is not this repository's code.
* Credentials, CORS, information endpoints, UI: no state, no concurrency.

## 7. Plan

Done: 1. `Flight`, `SingleFlightGroup`; 2. `FunctionScaler` and its proofs; 3. `Replicas`,
`AlertHandler` and their proofs; 4. `Autoscaling` and its proofs; 5. `ForwardingProxy` and
`Exporter`; 6. `Invocations` and `AsyncQueue`; 7. `LogProxy`; 8. `Names` and `FunctionList`;
9. `Configuration` and `Gateway`. All of them are checked,
and all their safety properties proved.

Left to model, if the code comes to use it: `CachedFunctionQuery`, over `Flight` and the cache.
