# Verification of versentry

versentry watches the containers of one Docker host, asks registries whether
newer images exist, and tells notifiers about them. `versentry run` is a daemon;
`versentry check` makes one pass without state; `versentry health` is a probe.

This directory models the daemon in TLA+. TLC checks the models on small
instances; TLAPS proves their safety properties for any number of containers,
notifiers, hosts, values, events, attempts, pages, rules and tags and any limits
and time-outs.

## 1. Inventory

| Component (source) | State | Operations | Interacts with | What is hard |
|---|---|---|---|---|
| Daemon loop (`core/app.go`, `cmd/versentry/main.go`) | `runCoordinator.running/pending`, three channels of capacity one, the context | `Run`, `trigger`, `runChecks`, `runPass`, `notifyAll`, `finishRun` | engine, state store, notifiers, health stamp: plain calls on one goroutine | signals, ticks and stop arriving at any point of a pass; crash and restart |
| State store (`state/state.go`) | map entry key -> target in memory; a JSON file | `Load`, `Filter`, `Record`, `Prune`, `AfterPass`, `Save` | called by `runPass` | memory and file must agree; failure or crash inside `Save`; an unreadable file |
| Detection pass (`core/engine.go`) | counters and lists of one pass | `RunOnce`, `checkContainer`, `checkNumeric`, `checkDigest` | provider, registry pass, tag selection | one container's failure must stay its own; cancellation half way |
| Registry pass (`core/registrypass`) | two caches, rate-limited hosts | `ListTags`, `TagDigest`, `fetchWithRetry`, `handleRateLimit`, `retryServerError` | OCI client | mutually recursive retries under a deadline; cached errors; a host mark that hides cached results |
| OCI client (`registry/oci`) | pooled HTTP connections | `ListTags`, `TagDigest`, `RoundTrip`, eviction, error mapping | called by the registry pass; go-containerregistry, net/http | pages that fail midway, `Retry-After`, sockets that fall silent while three tries must fit under one deadline |
| Tag selection (`core/semvercheck.go`, `numeric.go`, `bare_integer.go`) | none | choose the newest matching tag | engine | independence of the order of the list, equal precedence, integer width |
| Rules and watch labels (`core/rules.go`, `tracking_mode.go`, `watch.go`, `imageref`) | the compiled rules | `RuleFor`, tracking mode, `ShouldMonitor` | engine | which source wins; two spellings of a Docker Hub image |
| Docker provider (`provider/docker`) | image labels during one listing | `ListRunning`, `LocalDigest` | engine | an inspection that fails; labels shared by containers of one image; digests from earlier pulls |
| Links (`imageweb`, `core/links.go`, `notifier/format`) | none | the page shown for a container and named in a notification | engine, notifiers | an event does not carry the tracking mode |
| Discord bodies (`discord/embed.go`, `payload.go`) | chunk, embeds, messages of a digest | collect lines, pack embeds | Discord's `renderBodies` | four limits at once; nothing may be lost at a boundary |
| Delivery (`notifier/httpretry` and five HTTP notifiers) | attempt counter, position in the batch | `Notify`, `sendBatch`, `postWithRetry`, `Do` | called by `notifyAll` | lost replies, time-outs, a failure in the middle of a batch, cancellation while asleep |
| stdout notifier | none | `Notify` | called by `notifyAll` | nothing |
| Health stamp (`health/health.go`) | one file, a ticker | `Touch`, heartbeat, `Check` | two goroutines write, another process reads | non-atomic writes, ages and floors |
| Configuration (`config`) | none after start | `Load`, `validateRules`, environment overrides | everything, at start | conflicting rule keys |
| Formatting, logging, version, proxy set-up | none | string building | - | nothing a state machine shows |

What makes each correct:

* daemon and store: an update is remembered only after every notifier accepted
  it, is not announced again while it is remembered, and is announced again if it
  is not; only containers that are gone are forgotten; a force check leaves no
  trace; a signal is answered; a stop stops;
* detection pass and registry pass: each registry key is asked at most once, a
  rate-limited host is left alone, failures stay with their image or host, only
  a shutdown ends a pass, and a pass always ends;
* OCI client: a list or digest is only answered whole; sockets that are stuck
  cost tries, not the request, as long as there are fewer than tries;
* rules, labels, provider: what is looked at, how it is compared and where its
  link leads follows from the configuration and from labels of the container or
  its image, whatever inspections fail and however images are spelt; an opt-out
  holds; a digest update is one;
* delivery: `nil` means that the service acknowledged everything, the first
  failure is the last message, nothing acknowledged is posted again, retries are
  spent exactly, and `Notify` returns; a Discord digest is within all limits and
  tells every event once;
* health stamp: a live daemon is green, a dead one turns red in time.

The hazards behind these properties, each at its line, are in `PROJECT.json`.

## 2. Modules

```
NotificationPromise  <-- refinement -- DaemonPromise -- EXTENDS --> Daemon --> StateStore
                                          |
                                    DaemonProofs, MCDaemon
PassContract <-- refinement -- CheckRun -- EXTENDS --> RegistryPass
   |                              (one CheckContainers step of Daemon, opened up)
   |   CheckRun <-- refinement -- OciClient  (one call of RegistryPass, opened up)
   |      |                          |
   |   CheckRunProofs, MCCheckRun    OciClientProofs, MCOciClient
   |
   +-- what `runPass` relies on: CheckContainers and ChecksCancelled of Daemon
Targets            (ListRunning of Daemon and the `fleet` of CheckRun, opened up)
   |
TargetsProofs, MCTargets
TagSelection       (the verdict on one container in CheckRun, opened up)
   |
TagSelectionProofs, MCTagSelection
NotifyContract <-- refinement -- Delivery  (one Notify step of Daemon, opened up)
                                   |   <-- EXTENDS -- DiscordDelivery (the bodies of one)
                             DeliveryProofs              |
                                   ^--- EXTENDS -- DiscordDeliveryProofs
HealthStamp
   |
HealthStampProofs
```

**StateStore** holds the pure operations of `state.go`. Entries are a total
function from entry keys (`{container}|{host}/{repo}`) to targets; `NoEntry`
stands for a missing key. A target keeps its tracking mode because `isNew`
compares it. Notification times are never read back and are left out.

**Daemon** is the process. `pc` is the place the goroutine of `App.Run` has
reached; everything a pass does runs on it, in this order:

| `pc` | code | leaves by |
|---|---|---|
| `down` | no process | `Start` |
| `starting` | state loaded, signals not registered | `OpenSignals` (first check at once when there is no state file) |
| `idle` | `select` | `SelectTick`, `SelectUsr1`, `SelectUsr2`, `SelectDone` |
| `listing` | `ListRunning` | `ListRunning`, `ListFails` (ends the daemon) |
| `checking` | the loop over containers, then `Filter` | `CheckContainers`, `ChecksCancelled` |
| `notifying` | `notifyAll`, notifier `slot` | `NotifyAccepted`, `NotifyRejected` |
| `recording` | `Record` and `Prune` | `RecordAndPrune` |
| `writing`, `renaming` | `Save` | `WriteTemp`, `Rename`, `SaveFails` (ends the daemon) |
| `ending` | `coord.end()`, `resetSchedule` | `EndCheck` |

`Crash` may happen anywhere and so may `Terminate` (SIGINT, SIGTERM). `told` and
`blind` are history variables: what each notifier may have delivered, and
whether this process failed to read a good file at start. `NotifyRejected` may
have delivered any part of the batch; the reason is in `Delivery`.

**NotificationPromise** says what a user may rely on, without a loop, a file or
signals: announce what is not remembered (or everything, when forced), remember
an announcement only once every recipient was told, forget at will.
**DaemonPromise** is the refinement mapping and the property `PromiseKept`.

**RegistryPass** is the state of one pass: caches, marked hosts, and the one
request that may be under way. The functions `fetchWithRetry`, `handleRateLimit`
and `retryServerError` call each other in tail position, so `handler` (whose
call is out) replaces the call stack. `Return` stores and returns a result,
`Cached` is the look-up; a request's deadline is `Expire`, the pass's context
`Cancel`. **CheckRun** adds the loop of `Engine.RunOnce` and each container's
outcome. **PassContract** is what `runPass` relies on: each container is decided
once and for good, updates come back when all are decided, an error only after a
cancel. Daemon's `CheckContainers` and `ChecksCancelled` are its two results.

**Delivery** is one `Notify` of an HTTP notifier. `first` is the first event not
settled, `last` the end of the body at hand, chosen when its turn comes; any cut
of a batch into runs of events is allowed. `Retries` is what the configuration
says, `MaxAttempts` the attempts the channels take it for: 0 and 1 mean one. The replies are the classes the
classifiers tell apart. **NotifyContract** is what `notifyAll` relies on.

**DiscordDelivery** adds how Discord's embed format cuts a batch. While Delivery
is in `rendering`, `stage` walks through `renderBodies`: `placing`
(`splitDigestLinesIntoEmbeds`: `PlaceLine` is one round of its loop, `LastFlush`
what follows it), `packing` (`packEmbedsIntoMessages`: `PackEmbed`, `Packed`),
`packed`. `first` and `last` of Delivery are then those of a message (`LaidOut`).
Lines and titles are lengths. `shape = "other"` is every other body: the four
other notifiers, and Discord's content and template formats.

**OciClient** opens the calls of RegistryPass: `page` counts the ping and the
pages of one call, `attempt` the tries of one HTTP request, `trip` the phase of
an attempt (`ready`, `dialing`, `waiting` for headers, `reading`, `pausing`),
`conn` the pooled connection of each host, which may fall silent at any time.
`HeadersTimeOut` is `hangTraceTransport` with `evictHungHTTP2Conn`; `RetryOr` is
the retrying transport of go-containerregistry; `mapRegistryError` is spread over
`TooManyRequests`, `ServerError`, `Refusal` and `FailsWith`. Time is the seconds
stuck sockets cost (`spent`); when something else goes wrong in a request it is
`upset` and its clock is not followed any further.

**Targets** goes from the configuration and the labels to what is checked and
how. `Load` is the acceptance of rules, `exclude_containers` and registries
(`validateRules`, `NewConfigRuleResolver`, `buildRegistries`); `BeginPass`,
`List`, `Listed` are `ListRunning` with its map of image labels; `Exclude`,
`Skip`, `CheckTags`, `CheckDigest` are the branches of `checkContainer`; `Preview`
and `News` are the two places that choose a link. `written` is `Config.Rules`,
`byImage` what `NewConfigRuleResolver` makes of it. A path is a namespace and a
name, labels are maps over five keys, a link is the kind of page it leads to.

**TagSelection** is what `checkContainer` makes of a list of tags: the tracking
mode, the include filter, the loop of `selectSemverTag` or `selectNumericTag`
(`Consider`, one round a step) and the comparison with the current tag. The two
loops differ in their candidates only. A tag is a record of what its parsers
read. `Recreate` is the user who runs the announced tag; the check then runs
again on the same tags in any order. Numbers are unbounded: the code reads
segments as `int` or `uint64`, which dates and build numbers do not reach.

**HealthStamp** has the two writers of the stamp and the probe. A touch is
`Truncate` then `Write`; the probe is `Stat` then `Read`. `MaxAge` and
`HeartbeatInterval` are computed as in `health.go`.

`MC*` modules only add symmetry sets, tags, pauses, rules, references and labels;
`Delivery`, `DiscordDelivery` and `HealthStamp` are run directly. Definitions whose comment starts with "Mutation of" are broken
variants of the definition named there. No specification uses them: they
document which mistake each property catches.

## 3. Runs

| Run | Instance | States | Shows |
|---|---|---|---|
| `daemon_safety` | 2 keys, 1 value (hence 2 targets each), 2 notifiers, interval; key symmetry | 1,987,036 | what is remembered, announced, saved and pruned, and `PromiseKept` |
| `daemon_liveness` | 1 key, 1 value, 2 notifiers, cron | 51,064 | signals are served, termination ends, a working notifier is told |
| `daemon_follow_up` | 1 key, 1 notifier | violation | the documented single follow-up check does not hold |
| `check_run_safety` | 3 containers, 2 hosts, 1 name, both operations; symmetry | 600,014 | the safety and action properties of a pass |
| `oci_client` | 2 containers, 1 HTTP/2 host, 3 tries, 2 pages, the time-outs and pauses of the code in seconds | 719,964 | stuck sockets are survived, answers are whole, the pass ends |
| `check_run_retry_after` | 1 container | violation | the documented single `Retry-After` retry does not hold |
| `delivery` | 4 events, 3 `retries`, both modes, 3 lengths of lines, 2 of titles, limits scaled down, or any other bodies | 366,202 | the delivery properties, the contract, Discord's limits, that no event is lost or cut without need, and that `Notify` returns |
| `delivery_timeouts` | 1 event, 3 `retries` | violation | a time-out of the client is not retried as documented |
| `tag_selection` | 11 tags, lists of up to 3 in every order, 3 include expressions or none | 386,613 | the right verdict whatever the order, the form of the current tag, and that following the advice ends |
| `targets` | 2 containers of 1 image, every configuration of up to 2 of 72 rules, 6 fleets over 6 references, 5 label maps of containers and 4 of images | 2,042,342 | rules never compete, opt-outs hold, exclusions have a reason, a written rule is followed in whichever spelling, links agree, digest news is real |
| `health_stamp` | unit one minute, default age of 15 minutes, heartbeat 3 minutes, 18 minutes | 417,553 | green while up, red once gone |
| `health_stamp_short` | unit half a minute, `health_max_age` 30 s | violation | a configured age below the heartbeat's floor turns a live daemon red |

### Bounds and why they suffice

* Daemon needs two keys so that one container can go while another stays and so
  that a batch can be delivered in part; two targets per key (semver and digest
  with the same value) so that a target and a mode can change; two notifiers so
  that one can fail before or after the other. Restarts and passes are not
  counted, so any number of them occurs. No variable is unbounded.
* CheckRun needs three containers: two with the same key (the second reads the
  cache) and one between or after them on the same or another host (a mark
  comes in between). The counters `fetched`, `strikes` and `waits` stop at 2,
  which no property tells from more.
* OciClient keeps the three tries of the library and the seconds of the code (dial
  5, TLS 8, headers 10, pauses 1 and 3, deadline 30), since whether tries fit under
  a deadline depends on the numbers. One HTTP/2 host is the case the eviction is
  for; two containers give a connection the second inherits from the first. Two
  pages tell a first, a middle and a last answer of a call, the ping included.
  `MaxPages` bounds the pages.
* Delivery needs three events so that a batch can be cut in the middle and still
  have an event on each side, and three `retries`, which are three attempts, so that
  an attempt has a predecessor and a successor; the theorems cover the other
  values, 0 and 1 included. `received` stops at 2. Discord's packing needs four
  events: with a limit of 6 for a description, lines of 1, 4 and 7 join a chunk,
  fill one and overflow one; with 2 embeds and 9 characters for a message either
  limit comes first, and there are up to three messages.
* Targets has both spellings of an official image, an image of a team, an
  image without a name, valid, invalid and missing rule fields, and label maps in
  which image and container agree, disagree and are malformed. Two rules are what
  can compete, two containers of one image what can share a map. Fleets have
  one path on two hosts, since rules do not name a host.
* TagSelection has tags that differ in every field the comparison reads, in one
  field at a time and in several, with a build number and a tag that is no
  version. Two tags tell an order, three tell whether it is transitive, and three
  are enough for an advice in one mode to be overtaken in another.
* HealthStamp runs past `MaxAge` (15 of 18 minutes), so a dead daemon gets red,
  and six heartbeats fit. `Horizon` bounds the clock.

`CHECK_DEADLOCK FALSE` is set where the modelled activity is meant to end: a
pass, a `Notify`, the last moment of a clock. Daemon runs with deadlock checking.

### Fairness

* Daemon: the Run goroutine takes its next step (`WF` on `OpenSignals` and on
  `PassStep`). Each call of a pass has a time-out or a bounded number of
  attempts, which `oci_client` and `delivery` check. The four select
  cases are strongly fair: Go picks a ready case uniformly at random. Nothing is
  assumed about ticks, signals, crashes, or what others answer;
  `WorkingNotifierIsTold` names what it needs as its hypothesis.
* CheckRun and OciClient: the goroutine goes on, timers and deadlines fire, a done
  context ends a call. No registry ever has to answer, no connection to open,
  break or deliver, and the time-outs of attempts are not needed for a pass to end.
* Delivery and DiscordDelivery: the goroutine goes on. A service need not answer,
  since every attempt has the client's time-out (`TimesOut`).
* Targets, TagSelection and HealthStamp have safety properties only. That a heartbeat
  is not late is in the guard of `Pass`: the clock waits for a beat that is due, and for a touch or a
  look at the file that has begun.

## 4. Proofs

**DaemonProofs** proves for every set of keys and values, every number of
notifiers and both schedules: type correctness, `RememberedWasTold`,
`NoRepeatedNews`, `SavedPassIsExact`, `WaitingMatchesDisk`, `CoordinatorAtRest`,
`HistoryFileStaysWhole`, `OnlyGoneContainersPruned`, `ForceCheckLeavesNoTrace`
and `PromiseKept`; and of steps and passes: `NothingFoundIsLost`,
`NextPassSeesTheRest`, `SignalNeverDropped`, `QueueNeverUsed` and `PassDescends`.
Assumptions: `StoreAssumption` (the empty string is no tag or
digest, `NoEntry` is no target) and `DaemonAssumption` (at least one notifier,
which `config.Load` enforces).

`RememberedWasTold` is not inductive. When a batch is recorded, each notifier
must have it, so `BatchTold` says that the slots before the current one have the
batch while no notifier failed. That the batch is what was found and not
remembered is `PassConsistent`; that a force check cannot reach `Record` is
`Coordination`; that memory and file are the same but during a save is
`FileAgrees`; that a save drops only entries of containers that are gone is
`PruneTrusted`. `IInv` is their conjunction with the types. `NextCases` splits a
step once; each conjunct has one lemma, with one step for each action that can
disturb it. The refinement maps every step to an action of the promise or to a
stutter; `remembered` is the file while the process is down and memory while it
is up.

The promise says that nothing is remembered untold; the other direction is
`NothingFoundIsLost`: a check that ends without a failure leaves no notifier
untold of anything it found. A scheduled check has it from `SavedPassIsExact` and
`RememberedWasTold`; a force check saves nothing and needs `ForcedBatch` (what it
announces is all it found). `NextPassSeesTheRest` is the law of the store behind
it: what a pass did not record, and only that, the next pass with the same
findings announces. `SignalNeverDropped` says where a signal or tick can go, and
`QueueNeverUsed` that the coordinator's queue is dead code, which is finding 1 of
section 5.

**CheckRunProofs** proves for every set of containers, hosts and names: type
correctness, `FetchedOncePerPass`, `RateLimitedHostLeftAlone`, `TwinsAgree`,
`SkipsComeFromOwnRegistry`, `OnlyCancelAborts`, `MarkIsEarned` and
`CancelIsNoSkip`. Its invariant adds to the types: `Progress` (the request under
way is the current container's), `AskedOnce` (a key without a result was asked
only by the request that is out), `Blame` (each mark and each cached failure has
an answer behind it), `Repeats` (what a container was told is what is cached) and
`Decided` (a container has an outcome exactly if the loop is past it).
`RunKeepsContract` is the refinement of PassContract: only the engine's own steps
decide a container, and all of the registry pass is a stutter but the cancel.

**DeliveryProofs** proves for every length of a batch and every `retries`, 0 and 1
included (`RetriesMeant`):
type correctness, `FailureStopsBatch`, `RetriesSpentExactly`,
`AcknowledgedOnce`, `NoPostOnceCancelled`, `ContractKept` and `NotifyIsFinite`. The order of
messages needs to know where the body at hand lies (`Position`) and that the
service has nothing behind it and has it as a whole (`Received`); exact retries
need POSTs counted with attempts (`Counting`). `FailKeeps` and `ProceedKeeps` are
the two ways in which a body ends, and the actions cite them. `NotifyIsFinite` has
every step lower the triple of events left, attempts left and the way to the
reply (`Left`), in an order the library's theorems show to be well-founded.

**OciClientProofs** proves for any numbers of tries and pages and any time-outs:
`ClientTypeOK`, that OciClient implements CheckRun, `AnswersAreWhole`,
`StuckSocketsAreSurvived` and `CallIsFinite`. `ClientKeepsPromises` and
`ClientKeepsContract` carry the theorems of CheckRunProofs over to the real
client. Survival is a matter of counting. `SocketsCounted`
says that while stuck sockets are all that went wrong, each has cost at most one
try and `TryTime` seconds, a pause included, so the deadline can only pass when
there were as many as tries. `BudgetAssumption` is what `transport.go` says in a
comment: the tries but the last, each with its time-out and pause, fit under
`timeouts.registry`.

**TargetsProofs** proves for every set of containers, images, rules, references
and labels: type correctness, `OptOutHolds`, `ExcludedForOwnReason`, `ClaimIsFollowed`,
`LinksAgreeWithNews`, `RulesNeverCompete` and `DigestNewsIsReal`. The invariant says what the map of
image labels may hold (`Known`), what labels were put together from
(`Described`), why a container was judged as it was (`Judged`), that what was
compared for digest news still stands (`Compared`), and what is empty between
passes (`Shape`); the types add that the rules in force are complete (`Configured`). `RulesNeverCompete` follows from acceptance: rules of a
configuration claim disjoint sets of spellings; `DigestNewsIsReal` needs that a
set of positions has a least one (`Least`), the first match of `LocalDigest`.
`ClaimIsFollowed` takes the whole way from a rule as it is written to the verdict:
the resolver's map keeps each written rule (`Faithful`, since none takes another's
place), a reference tries every spelling that names its image (`NamesAreTried`),
nothing else is found on the way (`ClaimIsFound`, from `RulesNeverCompete`), and the
container was judged by what was found (`Judged`).
Assumptions: `TargetsAssumption` and `RefsAssumption` (what a parsed reference
looks like).

**DiscordDeliveryProofs** proves for every batch, lengths and limits: type
correctness, `WithinLimits`, `EveryEventTold`, `OnlyLongLinesAreCut`,
`NextBodyExists`, `DiscordNotifyIsFinite` and, by way of
`DiscordIsDelivery` (a step of DiscordDelivery is one of Delivery or a stutter),
`FailureStopsBatch`, `RetriesSpentExactly`, `AcknowledgedOnce` and
`ContractKept`. The invariant of the layout is `Cover`: messages, embeds and the
chunk, in this order, tell the events from `first` to `line` without a gap;
`GoodEmbeds`, `GoodMessages` and `ChunkFits` are the limits of each, and `Stages`
what is empty when. Lemmas about sequences that carry on where the one before
ended (`AppendChain`, `TailChain`, `WidenChain`) come first. `EmbedAssumption` has
the one relation between limits the code relies on: a full description and a full
title fit into a message. `NextBodyExists` says that the guard which takes the
next message never blocks: the chain of messages ends where the slice does.

**HealthStampProofs** proves for every interval, maximal age and unit of time:
type correctness, `RedOnceGone`, and `GreenWhileUp` under the hypothesis that
`health_max_age` is unset or a minute at least (without it the property fails, see
5.4). `FileFollows` says that a readable stamp is as old as its file, `Fresh` that
the file is never older than a heartbeat while touches succeed, `Seen` what the
probe has looked at.

**TagSelectionProofs** proves for every set of tags, every list and every include
expression: type correctness, `VerdictIsRight`, `ChoiceIgnoresOrder`, `FormKept`
and `AdviceSettles`.
Versions are shown to be a total preorder (`CoreTotal`, `CoreOrder`,
`NewerOrder`; two different versions have a first differing position) and `Beats`
to be transitive and total, so the loop keeps a candidate that no tag seen so far beats
(`Loop`). `Ended` says how each verdict came about, `Settled` that nothing in the
list is newer than an advice that was followed; the latter rests on every stable
semver candidate being a numeric one (`NumericReading`). Assumption:
`TagAssumption`.

Only model-checked: the five liveness properties, and of them the half that is
about fairness, which with `ENABLED` is out of the prover's reach:

| Property | Proved of it | Left to TLC |
|---|---|---|
| `NotifyReturns` | each step of Notify lowers a well-founded measure (`NotifyIsFinite`, `DiscordNotifyIsFinite`); a digest never lacks a body (`NextBodyExists`) | that some step is possible and taken until it has returned |
| `SignalIsServed` | no signal is dropped (`SignalNeverDropped`); the pass in its way descends (`PassDescends`) | that the select takes it in the end |
| `TerminationEnds` | the pass in its way descends | that the select takes `ctx.Done` in the end |
| `WorkingNotifierIsTold` | a pass without a failure has told everybody (`NothingFoundIsLost`), what a failed one did not record comes again (`NextPassSeesTheRest`) | that passes keep coming and reach the notifier |
| `PassEnds` | each call descends (`CallIsFinite`); containers are only ever decided, and the pass ends with all of them or after a cancel (`RunKeepsContract`) | that requests end. No measure of a request descends: 429 and 5xx can alternate (finding 2), and only its deadline ends it |

Two properties are proved without a run of their own: `PassKeepsContract` (a
refinement over the instance of `check_run_safety`, where TLC finds no violation
in the 600,014 states) and `OnlyCancelAborts`, which follows from it. `CallIsFinite` has
`MaxPages`, any number, for the length of a tag list: a registry that always names a
next page is stopped by the deadline, which is `PassEnds`. Induction over data is out of
reach, too, and nothing here needs it: no module uses a RECURSIVE operator. Type
invariants are theorems rather than properties of runs.

## 5. Where documentation and code differ

1. *One follow-up check* (`docs/commands.md:87`, `docs/configuration.md:338`):
   each signal has its own channel and checks run on the goroutine that reads
   them, so two signals give two follow-up checks and nothing is overridden.
2. *One short Retry-After retry per request* (`docs/registries.md:56`): 429, then
   5xx, then 429 sleeps again, as often as the deadline allows.
3. *Network errors are retried* (`docs/notifications.md:48`): an attempt that
   ends with the client's time-out is not.
4. *The heartbeat keeps the probe green* (`docs/configuration.md:309`): not with
   `health_max_age` under a minute.

## 6. Not modelled, and why

* Wording, templates, escaping, the text of URLs, logging, version, proxy set-up:
  nothing in them depends on an order of events or on state.
* The payloads of webhook, ntfy, Gotify and Telegram, and the parsing of their
  configuration, are text. Their `Notify` is Delivery as it is.
* Discord's content format cuts text at a number of bytes between events; where it
  cuts is a free choice in Delivery. Lengths are those of Go, in bytes; Discord
  counts characters, which are never more, so its limits are kept all the more. A
  cut that falls inside a character is not modelled.
* The Docker client, go-containerregistry and net/http: external. Their answers are
  free; pooling, retries and time-outs are modelled as `registry/oci` relies on
  them. The token exchange counts as part of the ping. Pauses have no jitter: with
  the most of it (1.1 and 3.3 seconds) the tries still fit under the deadline.
* Whether a template renders blank: text. A blank body counts as settled, as in the
  code, so `ContractKept` does not tell a lost update from a blank template.
* The tag filter in a link to Docker Hub's tags: the preview has the running tag,
  the notification the new one. `LinksAgreeWithNews` compares the kind of page.
* A stop during the look-up of the local digest is modelled (`LocalDigestFails`), but
  no property forbids it: the code skips the container as one without a digest, and
  the next registry call ends the pass, or nothing does when it was the last.
  `CancelIsNoSkip` is about calls to registries.
* YAML, environment overrides, instance names and defaults of `config`: a function
  of the start-up. A non-positive `interval` panics in `time.NewTicker` at start.
* The time between process start and `signal.Notify`, when a signal still has its
  default action: the model's first signal comes after.
* A `Retry-After` in seconds so large that it overflows comes out as any wait;
  `CapturedWait` has every class it can come out as.
* Power loss: `Save` does not sync, so a renamed file may be empty after one;
  the model has process crashes only.
* The wall clock being set while the daemon runs (health ages, `Retry-After`
  dates).
* Two daemons on one state file: nothing in the code supports it.

## 7. Plan

Built: the modules above. What is left:

1. **Composition**: Daemon with the outcomes of Targets in its listing, so that
   a failed inspection, an exclusion and a prune meet in one behaviour.
2. **HTTP/1.1**: `oci_client` has one HTTP/2 host; with a second host of the other
   kind TLC meets more than six million states, too many for its liveness check. The theorems of OciClientProofs hold
   for any mix.
