# mqtt2prometheus: models, checks and proofs

TLA+ modules that model mqtt2prometheus as it is written under `internal/`, TLC
configurations that check them on small instances, and theorems about them that
the TLA+ proof system checks for every instance.

`tlc -config X.cfg M` checks a run, `tlapm M.tla` the proofs of a module.

## 1. The system

mqtt2prometheus subscribes to MQTT topics, turns the messages that match the
rules of its configuration into samples, keeps the latest sample of every series
and shows them to whoever scrapes `/metrics`.

| Component | Source | State it keeps | Operations |
|---|---|---|---|
| sample store | `internal/store/store.go` | a map from series identity to kind, help, last reading, counter offset, under one mutex | `Set`, `Snapshot`, `Len` |
| router | `internal/app/router.go` | the feeds (one source and one buffered channel each) under a read-write mutex; the cancel function and wait group of the consumers | `Start`, `Stop`, `Dispatch`, `consume`, `handle`, `Subscriptions` |
| sources | `internal/app/source.go` | nothing at run time: name, filter, prefix, rules, labels | `owns`, `apply`, `reasonOf` |
| rules | `internal/rules/*.go` | nothing, except the parsed document a `Payload` caches while one message is applied | `Compile`, `Apply`, `extract`, `resolve`, `walk` |
| MQTT client | `internal/broker/paho.go` | number of connections so far | `Run`, `onConnectionUp`, `onConnectError`, `onClientError`, the publish handler |
| application | `internal/app/app.go`, `http.go`, `cmd/.../main.go` | `connected`, `seen`; the error channel and wait group of the two components | `Run`, `runComponents`, `serve`, `connect`, `dispatch`, `Connected`, `Reconnected`, `ready` |
| exporter | `internal/exporter/*.go` | the counters and gauges about the exporter itself | `Collect`, `SetConnected`, `SetBuildInfo`, `Register` |
| configuration | `internal/config/*.go` | none after loading: the main file, then the source files its pattern matches, one after the other | `Load`, `Validate` |
| discover and capture | `internal/app/listen.go`, `discover.go`, `capture.go`, `command.go` | the line channel, count and closed flag of the emitter; the prefixes seen | `emit`, `close`, `observe`, `follow`, `listen` |
| command line, verify, healthcheck | `internal/app/command.go`, `verify.go`, `healthcheck.go` | none | `Execute`, `dispatch`, the commands; one report, one HTTP probe |

How they interact: `main` gives `App.Run` a context that ends with a signal.
`Run` loads and compiles the configuration, starts the router, and then runs two
components next to each other, the HTTP server and the MQTT client; the first
that returns cancels the other. The client's callbacks reach `App.dispatch` and
from there `Router.Dispatch`, which puts the message into the channel of every
source that owns the topic, or counts it as dropped. One goroutine per source
takes messages from its channel and applies the rules of the source, which write
to the store. A scrape reads the store. When `Run` is left, `Router.Stop` takes
the feeds away, cancels the consumers and waits for them.

Several processes may run next to each other: `verify` before a restart,
`healthcheck` by the container, `discover` and `capture` by hand. They share the
configuration directory with the exporter, which reads it twice when it starts,
and the broker, which knows each client by its id.

What is hard: the goroutine of the client, one consumer per source, the HTTP
handlers and the goroutine of `Run` interleave freely; buffers are bounded and
overflow is part of the design; shutdown may hit any of them in mid-step; a
counter's value depends on the whole history of its readings; readings are
floats, `NaN` and `Inf` included. The MQTT library calls back on goroutines of its
own, so the calls for one connection may still run when the next one is up. The
configuration is edited while programs read it. `PROJECT.json` lists every such place under
`hazards`, at its line.

What makes each component correct:

* store: gauges show the latest reading; counters grow by what the device
  counted, over any number of restarts; a bad reading does no lasting harm.
* router and sources: a message is accepted or counted as dropped, exactly once,
  by every source that owns it, and handled in order; one source cannot disturb
  another; heartbeats never vouch for values that are not there; `Dispatch` never
  blocks; `Stop` returns, and after it nothing writes.
* rules: a value or label is what the documentation says of the payload, or the
  message is skipped, or it is an error of the right reason.
* configuration: what `Validate` accepts cannot make a scrape fail.
* client and application: `ready` and `mqtt2prom_mqtt_connected` follow the
  connection, every connection but the first counts as a reconnect, and each is
  subscribed to everything; one component's failure ends the other; `Run` returns
  the first error, and returns at all.
* discover and capture: at most `count` lines, each prefix once, no line after
  the channel was closed, and the command ends; what `discover` prints can be
  typed again.
* commands: nothing works with a configuration that was not validated as it is;
  `verify` predicts what the others do; nothing disturbs a running exporter.

## 2. The modules

| Module | Models | Kind |
|---|---|---|
| `Float64` | Go's `float64` as far as the store needs it | values |
| `Series` | what one `Set` does to the map of series, and what a snapshot shows | functions |
| `Store` | the store as a component | state machine |
| `IdealStore` | what the store promises to a scraper | abstract specification |
| `Router` | `router.go` and `source.go`: the path of a message into the store | state machine |
| `RouterReplay` | what `Router` should amount to: the messages applied one by one | reference definition |
| `Labels` | which labels the samples of a rule carry | functions |
| `Rules` | `internal/rules`: what a rule makes of a payload, and the document the rules share | functions, state machine |
| `Config` | `validate.go`: which configurations are accepted, and what they write | state machine |
| `Lifecycle` | `main`, `App.Run`, `runComponents`, `serve`, `Paho.Run`: start and end of the process | state machine |
| `Follow` | the commands `discover` and `capture`: `follow`, `listen`, the emitter | state machine |
| `Connection` | the callbacks of `paho.go`, and what `Connected`, `Reconnected`, `dispatch` and `ready` of `app.go` make of them | state machine |
| `Topics` | `topicPrefix`, `owns`, `prefixOf`, `topicFilter`, and the filters of MQTT | functions |
| `Command` | `command.go`, `verify.go`, `healthcheck.go`, `App.load`, `config/load.go`: processes from arguments to exit code | state machine |
| `MCStore`, `MCRouter`, `MCConfig`, `MCRules`, `MCCommand` | values of the constants for TLC | model checking |
| `StoreProofs`, `RouterProofs`, `ConfigProofs`, `RulesProofs`, `LifecycleProofs`, `FollowProofs`, `ConnectionProofs`, `CommandProofs` | theorems and the lemmas they rest on | proofs |

`Store` and `Router` are built from `Series` and `Float64`, `RouterReplay` from
`Router`, `Config` and `Rules` from `Labels`. `Router` leaves open what a rule
makes of a message, which `Rules` says, and takes for granted that metrics of one
name agree, which `Config` establishes; `Lifecycle` takes from `Router` that the
consumers return when they are told to. `Command` is built from `Topics`; it leaves
to `Config` which sources are accepted, to `Lifecycle` and `Follow` how a serving
or listening process ends. `Connection` looks closer at the component that is one
goroutine in `Lifecycle`, up to the callback in which `Router` starts.

### Float64, Series, Store, IdealStore

A series is a record of the fields of Go's `series`; the map of series is a
function whose domain grows. Every method of `Store` holds the mutex from its
first access to its last, so a `Set` is one action and a `Snapshot` is the
operator `Shown` on one state. Numbers are the integers: rounding is left out,
`NaN` and the infinities are not, because `strconv.ParseFloat` accepts them in a
payload and the store compares and adds them. The identity of a series (in the
code a string built from name and labels) is a model value.

`IdealStore` has no offset and no `seen` flag: it remembers the previous reading
and adds to the value shown what the device counted since. `Store` implements it
under the mapping `shown <- last + offset`, `previous <- last`, on the series
whose readings are numbers; those with NaN or infinite readings may run next to
them, and the properties say of each series what its readings allow.

### Router

| Variable | In the code |
|---|---|
| `life` | where `Start` and `Stop` are: `new`, `running`, `locking` (Stop waits for the write lock), `swapped` (feeds taken away), `waiting` (cancelled, in `stopped.Wait()`), `stopped` |
| `ctxDone` | the context given to `Start` has ended |
| `feeds` | `Router.feeds`, by the names of the sources |
| `chan` | the messages in each feed's channel |
| `call` | the `Dispatch` under way: the feed it looks at, and whether it has sent and not yet counted |
| `worker` | each consumer: at its `select`, at a rule, between a rule's value and its heartbeat, about to count its problems, returned; with the locals of `handle` and `apply` |
| `series`, `clock` | the store, and what `time.Now` returns |
| `received`, `dropped`, `errors` | the counters of `exporter.Self` |
| `arrivals`, `taken`, `refused`, `fresh` | history only: no guard of the pipeline reads them, except that `arrivals` holds the bodies of the messages |

Every place where another goroutine can come in between is a step of its own:
`Dispatch` per feed, and between the channel send and its count; `apply` per
rule, and between the two calls of `Set` of one rule; `Stop` between taking the
lock, swapping, cancelling and waiting. Guards are the `if`s of the code in
their order. `select` with a done context and a waiting message takes either.
The write lock of `Stop` waits for the reader in `Dispatch`, and while it waits
no new reader enters (`sync.RWMutex`).

What a rule makes of a message (`rule.Apply`: no match, an error, nothing, or
labels and a value) and what the source's labels resolve to are constants, so
every theorem holds for every rule set. Topics enter as `Owned`, the messages
whose topic has the prefix of the source.

`Dispatch` is called by one goroutine at a time: the client calls its handlers
for one connection one after the other. The clock ticks once per message taken:
it gives later messages later times, which is what the properties are about.

### Labels, Rules

`Rules` keeps the functions of `internal/rules` apart as the code does:
`fromString`, `toNumber`, `extract` for the value; `read`, `resolve`,
`resolveLabels` for the labels; `Apply` for both. A result is an error with its
reason, `skip`, or a value. A JSON document is a record with its type and content.
What the libraries do (`json.Unmarshal`, `strconv.ParseFloat`, regular
expressions, the product of floats) are constants, so the theorems hold for any
behaviour of theirs. `DocumentAssumption` says what a document is, and
`SourceAssumption` what `Validate` has let through of paths and labels.

The state is the one message a source is working on: `payload` with the fields of
Go's `Payload`, and `last`, the call made last and its outcome, for the
properties. `ApplyRule` may be any rule of the source at any time, which covers
the order in the file. It parses the payload exactly if the code does: for a JSON
value, or, if the value was there, for a JSON label that is reached before one
stops the loop.

The reference, in the same module, is stated from `docs/configuration.md` with
sets of values and texts instead of the code's sequence of cases. `OutcomesAreRight`
is the conjunction of what it says of samples, of what is skipped, of errors and of
the labels of the source.

### Config

`Validate` is one action per source file, in any order, with the map of shapes as
state. `shapesOf` is what the code compares, `writes` what `Compile` and `apply`
make of the same source: the two are computed by different code from differently
merged labels, and the properties relate them. What is wrong with one field on its
own is a flag of the source, rule or label.

### Lifecycle

Five goroutines: `main` (which runs `App.Run`), the HTTP component (`server`), the
goroutine in `serve` that listens (`listener`), the MQTT component (`client`), and
the consumers as one. `errs` and `heard` are the channels with these goroutines at
their ends, `signalled`, `caught` and `cancelled` the state of the contexts and of
`signal.NotifyContext`. `net/http` and the MQTT library are external: a listener
may fail at any time, a request need never end, `Shutdown` returns when none is
open or when its timeout expires, `Disconnect` returns after its grace period.
The store, the topics and the messages are left out: nothing of them decides how
the process ends. A component's panic is left out too.

### Follow

`main`, `listener`, `watcher` are `follow` and the two goroutines it starts;
`observing` has the callbacks of the MQTT library, each between its check of
`discovery.seen` and its call of `emit`. `emit` holds the mutex of the emitter
and is one action. The channel of lines has a capacity, closing is modelled with
the panics that Go would raise. `command` ranges over both commands, every limit
and with or without a window. A line is a model value: `prefixOf` and
`captureLine` are left out. A callback may come after the client was told to
disconnect, since `Disconnect` only waits for its grace period.

### Connection

| Variable | In the code |
|---|---|
| `link`, `made`, `granted` | the library and the broker: there is a connection, how many were made, what the session subscribes to |
| `run` | the goroutine of `Paho.Run`: waiting for its context, at the two stores of `Connected(false)`, disconnecting |
| `up` | the call of `onConnectionUp` for each connection: at the flag, the gauge, the count of connections, the report of a reconnect, the subscriptions; done, or the subscription failed |
| `down` | the calls of `onClientError` for each connection and, at 0, of `onConnectError`, at their two stores |
| `connected`, `seen`, `gauge` | `App.connected`, `App.seen`, the gauge `mqtt2prom_mqtt_connected` |
| `connections`, `reconnects` | `Paho.connections`, `mqtt2prom_mqtt_reconnects_total` |
| `late` | history only: a loss was reported during this connection |

Each access to a shared value is a step: the flag and the gauge of `Connected` are
two, and so are counting a connection and reporting it. The library is external:
it connects, fails to, loses the connection with or without a call (a connection
closed by the broker is not reported), and calls back on goroutines of its own, at
any pace. The session may be kept or lost with each connection; on the first one
the library asks for a clean one. A subscription may be granted, refused, or fail
because the connection broke.

### Topics, Command

A text is a sequence of characters. `Topics` has the four functions of the code on
topics and, as their reference, which topics a filter matches. `isTopic` and
`isFilter` say what may be published on and what a broker takes for a filter:
wildcards stand for whole levels, and not in topics. `Validate` takes any text for
a topic; what the broker refuses brings no messages.

A process of `Command` has a command line and goes from `Execute` to its exit code.
`stage` is where it is; a load reads the main file, then lists the source files,
then reads them one by one, each step at a time of its own, while `Edit` replaces
the directory by any other. `main` and `files` are what the process read, `loads`
counts the loads (`run` makes two), `since` is history: the edits made when the
load began. What is wrong with a file is its outcome: an environment variable that
is not set (the text is replaced before it is decoded), no YAML, a setting that is
missing. `Listen`, `Probe` and `healthURL` say which address a server takes and
which one a probe reaches. A process that serves or listens may end at any time,
well or not.

## 3. The runs

| Run | Checks | Bounds |
|---|---|---|
| `store` | `TypeOK`, `NeverBelowPeak`, `BadReadingPasses`, `ImplementsIdeal` | a gauge and a counter with readings 0..3, a counter with readings 0..2 and NaN, offsets up to 4 |
| `store_inf` | violates `BadReadingPasses` | one counter, readings 0..2 and +Inf |
| `router` | `TypeOK`, `EachOnce`, `ReceivedIsHanded`, `BeatNeverAhead`, `SameAsSequential`, `StoppedIsQuiet` | two sources, three rules, three messages, buffers of one |
| `router_live` | `AcceptedIsHandled`, `CallsReturn` | the same with two messages, weak fairness |
| `rules` | `TypeOK`, `OrderDoesNotMatter`, `OutcomesAreRight` | ten payloads, nine kinds of value, five of label, four sources |
| `config` | `TypeOK`, `FamiliesAgree`, `TemplatesResolve`, `RefusedExactly` | two files out of some 300 |
| `config_own` | violates `OwnMetricsAgree` | one file |
| `lifecycle` | `TypeOK`, `NothingOutlivesRun`, `FirstFailureWins`, `ZeroMeansWell`, `ProcessEnds` | two open requests |
| `follow` | `TypeOK`, `NeverPanics`, `AtMostCount`, `OncePerPrefix`, `AcceptedIsPrinted`, `FailureIsReported`, `CommandEnds` | two observers, two lines, three messages, `-count` up to 2, a channel of one line |
| `follow_full` | violates `PublishedIsPrinted` | one observer, four messages |
| `connection` | `TypeOK`, `ReconnectsAreUps`, `SubscribedAgain`, `LinkIsNoticed` | two connections, one filter of the sources and one of an earlier process |
| `command` | `WorksWithAccepted`, `VerifyPredicts`, `ExporterUndisturbed`, `SourcesGetTheirs`, `DiscoverLeadsBack` | two processes out of 14 command lines, 11 directories, one edit; all topics and filters of at most four characters, depths up to three |

Why the bounds are enough. Store: a restart needs two readings and two restarts
need an offset that was added to; readings 0..3 give drops, equal readings and
zero, and series do not influence each other, which three of them show. Router: a
buffer of one is full after one message, two sources with one common message give
every order of their writes, three messages let one be handled, one wait and one
be dropped; the rules of the two sources have a counter with a heartbeat, a gauge
without, an error, a skipped value, a miss, and source labels that are present,
absent and broken, so every action fires. Rules: a rule looks at one value and
its labels one by one, so a payload of every kind with a setting of every kind
meets each branch, and two rules on one payload meet the cache in each state.
Config: a disagreement is between two metrics, so two files (or one of two rules)
show any. Lifecycle: one request that is open and one that comes meanwhile.
Follow: a channel of one line is full after one, and with two observers and two
lines a limit of one or two is reached by several calls at once. Connection: two
connections overlap in every way, which is what a reconnect that comes before the
first call is over, and a loss reported too late, take; the number of connections
is left open in the proofs. Command: the properties relate two processes; an edit
before, between and after the two loads of `run`, or between two files of one, is
one edit; the directories have each thing wrong once, and in two of them the
source files change places. Four characters are enough for two levels that are a
text or empty, a wildcard at every place, and a slash at either end.

Deadlock is not checked for the router, nor for `Config`, `Lifecycle`, `Follow`,
`Connection` and `Command`: all of them do stop, after `Stop`, with the bound on
messages, files or connections used up, or when the process has ended. That they
end when they should is a liveness property of its own.

Fairness. A goroutine that can take a step takes one, since Go's scheduler is
fair and no lock is held across a blocking call other than the ones modelled:
weak fairness of `Dispatch`, of `Stop` and of each consumer. Nothing obliges the
broker to send, the context to end or `Run` to call `Stop`. For a consumer whose
`select` has both cases ready the model does not ask that it ever picks the
cancelled case; `CallsReturn` holds because the feeds are gone by then and the
channel empties.

In `Lifecycle` and `Follow` likewise every goroutine that can take a step takes
one, and timeouts expire. Nothing obliges a signal to come, the listener or the
dial to fail, a request to end, a message to come or a window to be asked for. In
`Follow` somebody reads the output: `WriteLine` is fair, since a command that
prints into a pipe nobody reads does block.

In `Connection` a call that was begun goes on, the library goes on trying to
connect, successfully or not, and it drops its connection when it is told to.
Nothing obliges it to succeed, a connection to break or a message to come. `Store`,
`Rules`, `Config` and `Command` have no liveness properties and no fairness.

### What the violated runs show

* `store_inf`: readings +Inf, 0. The drop adds +Inf to the offset; from then on
  the series shows +Inf whatever the device says.
* `config_own`: a rule writes `mqtt2prom_series`. `Validate` compares configured
  metrics with each other but not with the exporter's own.
* `follow_full`: the channel of lines is full when the first message of a prefix
  comes. The prefix is marked as seen, its line is dropped, and no later message
  prints it.

Each is quoted against the line it contradicts in `PROJECT.json`, `findings`.

### What the passing runs do not claim

* A restart next to a NaN reading is missed: `NeverBelowPeak` is about the
  counters whose readings are numbers. A message that is delivered twice or late is a reading
  like any other: the total shown never falls, but may count a device's restart
  that was none.
* Two sources that name one heartbeat may set it back by the time between their
  messages, because the clock is read before the store is locked. `BeatNeverAhead`
  is about names that are only heartbeats of rules (`RuleBeatNames`): the heartbeat
  of a source does not vouch for one value, and a gauge whose help text is that of
  a heartbeat may have the name of one.
* `SameAsSequential` is about sources that share no metric with another: what two
  sources write to one series depends on who writes last.
* A message with several problems counts several errors: one for each rule that
  fails and one for the labels of the source.
* A label of a source that has the name of a capture group takes its place: this
  is accepted, as `docs/configuration.md:39` does not tell the two apart, and the
  group never becomes a label (`rule.go:102`).
* With the filter `a/#` the broker also sends what is published on `a` itself,
  which no source owns; nor does any own what a shared filter matches, since its
  prefix is not how topics begin. `HandedToItsSource` names both. A source also
  owns topics its filter does not match, if another source subscribed to them.
* `docs/configuration.md:30` has a `broker` for a source: it is read, and never
  used by `App.connect`, which makes one connection for all.
* A refused or failed subscription is logged and not tried again before the next
  connection: `SubscribedAgain` excepts it. `LinkIsNoticed` excepts a connection
  that is hidden by a late report of the loss of the one before it.
* `healthcheck` loads without validating, and probes the address it finds: an edit
  that makes a file unreadable, or that changes `listen`, fails it though the
  exporter goes on. `ExporterUndisturbed` is about a directory nobody changed.
* Two `capture`s at a time use one client id, and cut each other off.
* `NothingOutlivesRun` is about what `Run` waits for: the server, the client and
  the consumers. `serve` does not wait for its goroutine that listens
  (`http.go:61-80`), nor, once its timeout has expired, for open requests: `main`
  may exit while they are still there. Such an exit is no success if requests are
  open (`ZeroMeansWell`).
* A broker that cannot be reached is no failure. `Paho.Run` returns an error only for
  a URL that does not parse or a connection manager that cannot be made
  (`paho.go:53-61`); attempts to connect that fail are logged and repeated
  (`paho.go:130-133`). So `FailureIsReported` and `CommandEnds` do not say that a
  `discover` or `capture` that exits with 0 ever had a connection, nor that one
  without `-for` ends when there is no broker: it goes on trying until a signal.
* `VerifyPredicts` is about what a load refuses. `Validate` only asks
  that there are a listen address and a broker URL: if nobody can listen on the one,
  or the other does not parse, `verify` succeeds and `run` fails.
* With the address `:0` the system picks a port, and `healthcheck` probes another.
  `Command` has no such address; its port 0 stands for an address without a port.

## 4. The proofs

All theorems hold for every value of the constants that satisfies the named
assumptions. They say what the constants are (`FloatAssumption`,
`StoreAssumption`, `ConfigAssumption`, `LifecycleAssumption`, `FollowAssumption`,
`ConnectionAssumption`, `DocumentAssumption`) and what the code that runs before
has established: `RouterAssumption` that no rule has an empty `metric_name`, which
`Validate` refuses; `SourceAssumption` that a path is a sequence, a label has a
name and the static labels of a source refer to no capture group;
`CommandAssumption` that a directory lists its files, that topics have no
wildcards and filters have them in places where a broker accepts them.

What a recursive function computes is proved with a lemma of its own, `Least`: a
set of naturals that is not empty has a least element. It is applied to the set of
places where the claim fails, once to show that the function the definition chooses
exists, and once for what it computes.

| Theorem | Says | Argument |
|---|---|---|
| `StoreProofs!TypeCorrect` | `Spec => []TypeOK` | inductive as it stands; `SetSeriesType` gives the type of a `Set`, `SetEffect` that every entry keeps the kind and help of its metric, is seen, and has no offset if it is a gauge |
| `StoreProofs!Refinement` | `Spec => ImplementsIdeal` | invariant: where the readings are integers, `last` and `offset` are; a `Set` maps to `Observe` of the same reading, or to a stutter |
| `StoreProofs!CountersNeverFall` | `[]NeverBelowPeak` | invariant: where the readings are natural numbers, what is shown equals `last + offset`, both natural, and `peak` is at most that |
| `StoreProofs!NaNPasses` | where no reading is infinite, which the theorem assumes: `[]BadReadingPasses` | invariant: the offset is an integer, since NaN compares as no drop |
| `RouterProofs!TypeCorrect` | `Spec => []TypeOK` | inductive: one lemma per group of actions, one step per conjunct of `TypeOK` |
| `RouterProofs!StopIsFinal` | `Spec => StoppedIsQuiet` | invariant `AllExited`: after `Stop` every consumer has returned; a late `Dispatch` finds no feed |
| `RouterProofs!ReceivedCounts` | `Spec => []ReceivedIsHanded` | inductive relative to `TypeOK`: send moves the message and owes the count, the count pays it, a take moves it on |
| `RouterProofs!HandedExactlyOnce` | `[]EachOnce` | `CallIsLive`: the message under way came while there were feeds exactly if there are some now. `HandedOnce`: accepted and refused are disjoint and together what is `Due`, the messages that arrived but for the one still undecided; every step of `Dispatch` moves one message from undecided to one of the two, a take moves it on without changing either |
| `RouterProofs!BeatAfterValue` | `[]BeatNeverAhead` | invariants `BeatIsDue`: between its two calls of `Set` a consumer has already written a value as late as the heartbeat it is about to set; and `BeatVouched`: for each heartbeat there is such a value. Times of values only grow (`FreshGrows`), whoever writes them |
| `RouterProofs!EachSourceAlone` | `[]SameAsSequential` | invariant `Following`: the source's series are the replay of what it has finished, plus what the rules up to `worker.at` have written of the message in hand (`AtPlace`). A write of its own consumer is one of the replay's (`FollowsRule`, `FollowsEnd`), one of another consumer touches none of its metrics (`OwnKept`) |
| `ConfigProofs!TypeCorrect` | `[]TypeOK` | inductive: `RecordedIs` says what one more source adds to the memory |
| `ConfigProofs!Consistent` | `[]FamiliesAgree` | invariant `Remembered`: without a problem every source is well-formed and its shapes are the ones remembered. `CheckedIsWritten`: what was compared is what is written, since source labels without references leave the names the same whether merged or not (`MergeKeepsNames`) |
| `ConfigProofs!NoEmptyTemplate` | `[]TemplatesResolve` | the same invariant |
| `ConfigProofs!OnlyTheWrongRefused` | `[]RefusedExactly` | invariant `Justified`: what is remembered of a metric is the shape some source gives it, and there are as many names as files unless one came twice; so each reason to refuse is a fact about what would be written, by `CheckedIsWritten`. The other direction is `Remembered` |
| `RulesProofs!TypeCorrect` | `[]TypeOK` | invariant `Cached`: a payload is new, or parsed once from its text |
| `RulesProofs!CacheIsTransparent` | `[]OrderDoesNotMatter` | the same; no operator looks at more of a payload than its text and what it parses to (`SameResult`) |
| `RulesProofs!MessagesAreReadRight` | `[]OutcomesAreRight` | invariant `LastIsFresh`: the last outcome is what a new payload gives. That outcome is then compared with the reference: `Walked` (the code's walk and the sets of values at a path agree, step by step along the path), `ValueIsRight`, `LabelIsRight`, `LabelsAreRight` (the loop stops at the first name in order that is not a value), `ComparedIsCarried` (the labels of a sample are those `Validate` compared) |
| `LifecycleProofs!TypeCorrect` | `[]TypeOK` | inductive as it stands |
| `LifecycleProofs!RunIsLast` | `[]NothingOutlivesRun`: the server, the client and the consumers have returned | invariant `BothReturned`: after the wait group both components have returned |
| `LifecycleProofs!SuccessIsSignalled` | `[]ZeroOnlyOnSignal` | invariants `NilNeedsEnd` and `SuccessNeedsSignal`: a component returns nil only if its context ended, and that only after a signal or an error |
| `LifecycleProofs!SuccessIsServed` | `[]ZeroOnlyWhenServed` | invariants `ResultsAreReceived` and `ServerErrorCounts`: the error of a server that cut off a request is on its way to Run, and no other result replaces it but another error |
| `LifecycleProofs!SuccessMeansWell` | `[]ZeroMeansWell` | the two together |
| `LifecycleProofs!FirstFailureReturned` | `[]FirstFailureWins` | invariant `ErrsAreReports`: what is in the channel, after the one result `Run` holds, is what was reported, in order |
| `FollowProofs!TypeCorrect` | `[]TypeOK` | inductive as it stands |
| `FollowProofs!NoPanic` | `[]NeverPanics` | invariant `FlagsTell`: the flags of the emitter tell which channels are closed |
| `FollowProofs!WithinCount`, `AllPrinted` | `[]AtMostCount`, `[]AcceptedIsPrinted` | invariants `NothingYet` and `LinesAreCounted`: `count` is what was printed plus what waits |
| `FollowProofs!PrefixOnce` | `[]OncePerPrefix` | invariant `NoRepeats`: every line printed, waiting or about to be emitted has been seen, and no two are the same |
| `FollowProofs!NoFailureHidden` | `[]FailureIsReported` | invariant `FailureWaits`: what the listener failed at waits in its channel, and the command does not return before it took it |
| `ConnectionProofs!TypeCorrect` | `[]TypeOK` | invariants `Typed`, `Begun`, `Counts`: that no more is counted than was made needs the counting |
| `ConnectionProofs!CountIsRight` | `[]ReconnectsAreUps` | invariant `Counts`: `connections` is the number of calls that have counted, and `reconnects` is behind by the calls that have yet to report; a claim about the cardinality of two sets of calls, of which each step moves one member |
| `CommandProofs!OnlyAcceptedWorks` | `[]WorksWithAccepted` | invariant `Inv`, process by process. Of it `Accepted`: past its loads a process has as many files as its last load listed, and none of them is bad; distinct names are as many as files (`DistinctNames`) |
| `CommandProofs!VerifyIsRight` | `[]VerifyPredicts` | the same invariant; `UpToDate`: while `since[p] = edits` what was read is the directory as it is, and a load ended as that directory says |
| `CommandProofs!ExporterIsUndisturbed` | `ExporterUndisturbed` | the same; both read the same `listen`, and `healthURL` of it reaches that server (`ProbeReaches`) |
| `CommandProofs!MessagesFindTheirSource` | `[]SourcesGetTheirs` | `HandedToItsSource` for all filters and topics, whatever their length (`Handed`). `rank` counts the slashes up to a place; level k ends at the slash with rank k (`SlashIsEnd`, `EndIsSlash`); texts whose first levels are the same agree character by character until these end (`SameLevels`). What precedes the first wildcard ends with a slash, and a matching topic agrees with it up to that slash (`UpToWildcard`): it either has the slash as well, or ends there, and then the filter is the topic and `/#` |
| `CommandProofs!PrefixesLeadBack` | `[]DiscoverLeadsBack` | `LeadsBack` for all topics and depths (`Back`): what is printed begins the topic and ends where a level does, so their levels are the same (`FirstLevels`), and the filter made of it has one level more, `#` (`OpenFilter`). A topic that matches has these levels, so by `SameLevels` it begins the same way (`OnlyThese`) |

In the last two the state says only when the claim matters: to a serving exporter,
to a running `discover`. What is proved is about texts and has no invariant.

Only model-checked are the properties that need fairness, since the provers cannot
reason about when an action is enabled: `AcceptedIsHandled`, `CallsReturn`, `ProcessEnds`, `CommandEnds`,
`SubscribedAgain` and `LinkIsNoticed`. Every invariant that a passing run checks
is also a theorem.

## 5. Not modelled, and what is left

Not modelled:

* the exporter's registration with the Prometheus client, and what the HTTP
  handlers write (`exporter/*.go`, the handlers of `http.go`): the counters are
  variables of `Router`, `Collect` is the operator `Shown`;
* decoding YAML, putting environment variables into it, JSON, regular expressions
  and the reading and writing of numbers: libraries, whose results are outcomes
  or constants;
* the identity of a series as bytes (`store.go:134`): it is a model value, so the
  collision of texts with NUL bytes is out of sight;
* the patterns of names in `validate.go`: a field that is wrong on its own is a
  flag, so that the heartbeat of a source is not compared with the pattern of
  metric names (`validate.go:288`) is out of sight too;
* the text of usage, of the report of `verify`, of the lines of `capture`, and
  logging: its level is that of the first load of `run` (`command.go:94`), and stays
  so when the directory changes before the second;
* in `Command`, the metrics: that those of several files must agree is one more
  reason for `Validate` to refuse, which `Config` models and `accepts` does not.

What is left to do: `Router` and `Connection` composed, so that the messages of two
connections may be dispatched while one is ending; and the refinement of `Router`
to one uninterrupted call of `source.apply` per message as a specification of its
own, which `SameAsSequential` now states source by source.
