# gafferstape in TLA+

gafferstape is a daemon that polls the my.gaf.energy customer portal on a fixed
interval, keeps the latest results in memory and serves them on `/metrics`,
`/api/state` and `/healthz`. It lives on two cookies that a person pastes from a
browser and replaces when they expire. This directory holds a formal model of
it: modules that follow the Go code action by action, the TLC configurations
that check them on small instances, and TLAPS proofs of the properties that
matter most for every value of the constants. Line numbers refer to the files
named with them; `poller.go`, `retry.go` and `snapshot.go` are in
`internal/poller`, `token_provider.go` and `dir_token_provider.go` in
`internal/config`, `server.go`, `metrics.go` and `state.go` in
`internal/server`, `main.go` and `healthcheck.go` in `cmd/gaf-exporter`.

## Inventory

| Component | State | Operations | Hard parts | What makes it correct |
|---|---|---|---|---|
| Polling loop (`poller.go`, `retry.go`, `snapshot.go`) | last metadata refresh, listing, inverters, last local day and total of each property, session expiry, `authFailed`, error counters, the snapshot | `New`, `Run`, `pollOnce`, `refreshMetadata`, `pollProperty`, `retryAPI`, `recordTickResult`, `recordTickFailure` | a tick is a long sequence of calls during which time passes, cookies change, shutdown arrives; each call can fail in three ways; local midnights | OK means complete; a lost session is final and published; polls are spaced; totals belong to their day; a tick ends and is published |
| Snapshot cache (`Poller.mu`, `Poller.Snapshot`) | the snapshot behind an `RWMutex` | record a tick, copy for a scrape | scrapes race ticks, field by field | a scrape is atomic; neither side starves |
| `FileTokenProvider` | cached pair and mtime, fallback pair | `Tokens` | an editor rewrites the file between stat and read, or is half done | the cache hides no more than one tick of the file clock; a pair of two saves lasts no longer than the half-written file it comes from |
| Cookie rotation (`pollOnce`, `client.go` `do`, `FileTokenProvider` together) | expiry of the loop, cookies of the request in flight, cache of the provider | the expiry read of a tick, the token read of each request | cookies change between the two reads, or while a request is in flight, and an expiry once read outlives the cookies it belongs to | only lapsed cookies end the loop; installed cookies get to be used and shown |
| `DirTokenProvider` | none | `Tokens` | the kubelet swaps the Secret between the two reads | a torn pair is of a known kind and does not last; no call goes back |
| Daemon lifecycle (`main.go`, `server.go`) | two contexts, two channels, a wait group, three goroutines beside main | `run`, `buildPoller`, `runServices`, `Server.Run` | halting, signals, listen errors and slow clients in any order | what ends the program and what must not; nothing leaks or waits for ever; what `run` returns tells why |
| API client (`internal/client`) | none | `do`, `fetch`, `GetProperties`, `GetAccountInfo`, `GetProduction` | cookies read per request; error classes | 401 and 403 are told apart from the rest |
| JWT expiry (`auth.go`) | none | `ParseJWTExpiry` | decoding only | expiry or an error |
| Configuration (`config.go`) | none after startup | `Load`, `Validate`, `Default` | defaults, overlay of environment on file, what is validated before `--listen` is applied | the server listens where the probe looks |
| HTTP surface (`metrics.go`, `state.go`) | none | `Collect`, `buildStateResponse`, `/healthz` | absent values; series that collide in the registry; two renderings made apart | both surfaces tell the same of a snapshot, or differ in a known way; neither shows a zero time; `/metrics` answers |
| Healthcheck probe (`healthcheck.go`) | none | one GET | it derives the address on its own | it finds a server that serves |
| Deployment (Dockerfile, Helm chart, examples) | - | - | - | - |

How they interact: `run` loads the configuration and has `buildPoller` try the
token provider once. If that gives a pair, it builds the client and the poller on
the same provider; otherwise there is no poller for the life of the process.
`runServices` starts the poller and the server as goroutines under one context.
The poller calls the provider once per tick for the expiry, and the client calls
it again for each request. Handlers never call upstream: they copy the snapshot.

## Modules

| Module | Models | Abstract specification |
|---|---|---|
| `Poller` | the loop, one tick with its calls and retries, the snapshot | `SnapshotFeed`: what readers are promised; `TickLoop`: what the rest of the daemon relies on |
| `PollerInv` | the inductive invariant of `Poller`, part by part | |
| `PollerTypeProofs`, `PollerProofs` | proofs about `Poller` | |
| `SnapshotCache`, `SnapshotCacheProofs` | the snapshot behind the `RWMutex` | `SnapshotRegister`: an atomic register |
| `FileTokens`, `FileTokensProofs` | `FileTokenProvider` against an editor | |
| `DirTokens` | `DirTokenProvider` against the kubelet | |
| `CookieUse` | the loop (as `TickLoop`) and `Client.do`, against time and the portal, for any provider | |
| `Rotation`, `RotationProofs` | `CookieUse` over `FileTokens`, against the user | `FileTokens` |
| `DirRotation`, `DirTokensProofs` | `CookieUse` over `DirTokens`, against the kubelet | `DirTokens` |
| `Exposition`, `ExpositionProofs` | the summary of a property's buckets, `/metrics`, `/api/state` | |
| `Startup` | `Load`, `Validate`, `--listen`, the address of the probe: functions | |
| `Services`, `ServicesProofs` | `run`, `runServices`, `Server.Run`, the probe; uses `Startup` | `Lifecycle`: what the operator relies on |
| `MC*` | the instances TLC checks | |

Two chains tie the modules together. `Poller` implements `TickLoop`
(`LoopIsATickLoop`, checked and proved) under the mapping `Stage` and `expiry`, and
`CookieUse` puts `TickLoop` and the client to work on a provider, `FileTokens` in
`Rotation` and `DirTokens` in `DirRotation`: so what is shown of the two is shown
of a loop that the detailed one refines, without the product of the state
spaces. Each of the two implements the specification of its provider
(`RotationImplementsProvider`, proved), which therefore keeps its promises in the
loop's hands. `Services` takes of `Poller` that it returns when told to
(`ShutdownCompletes`).

An operator whose comment begins with "Mutant" is not part of a model. It is a
plausible bug: put in the place of the definition that follows it, it makes some
property fail, which shows that the property is about the code.

### Poller

One action per step of the goroutine that something else can be interleaved
with: taking the timer, an upstream answer, an upstream failure, the end of a
backoff, the next property, the end of a tick. Everything the code does without
waiting is one step: a `GotDaily` is the answer, the value chosen from it, the
stamp in `perProperty` and the entry in `propSnaps`; an `AbandonTick` sets
`authFailed`, records the failure and returns to `Run`, which stops or rearms the
timer. Correspondence: `pc` is the place in `Run`/`pollOnce`/`retryAPI`
("select", "calling", "backoff", "polling", "stopped"); `now`, `todo`,
`propSnaps`, `firstErr` are the locals of `pollOnce`; `op`, `prop`, `attempt`
those of `retryAPI`; `doomed` says that an attempt began on a context already
done, which net/http then fails; the rest are fields of `Poller` of the same
name. The environment: `clock`; `token`, the expiry that the provider's
cookies carry now (0 when none can be read); `cancelled`.

Abstractions. Instants are integers. A production total is represented by the
day it is the total of, so that "today" and "yesterday" mean something and
floating point does not appear; 0 is the value before any total. The order of the
listing is not modelled: any property still to be polled is next, which covers
every order and also lets the order differ from tick to tick. A property in a listing is missing, not
ready, ready but in a zone that Go does not know, or ready. `LocalDay` gives
each property its own midnights. `authSeen` is a history variable.
`authFailed`, the snapshot's field and the stop of the loop are different
variables, so that their agreement is something to show.

### SnapshotCache

`recordTickResult`, `recordTickFailure` and `Snapshot` at the grain of groups of
fields that are written together, under a model of `sync.RWMutex`: a waiting
writer keeps new readers out, an unlock lets in those that waited. The parts hold
the number of the tick that wrote them, and `published` is the history of
complete records that the refinement to `SnapshotRegister` needs: a scrape
takes effect at its `RUnlock`, and what it copied is still the latest record
then.

### FileTokens

`Tokens` has two points where the file is looked at, the stat (`StatMissing`,
`StatUnchanged`, `StatChanged`) and the read (`ReadFails`, `ReadPair`). Parsing
and overlay need nothing from outside and belong to the read. The editor saves
in three ways: renaming a new file over the old one, truncating and writing in place
(with half-written contents that parse to nothing, to one field or not at all),
or moving the file away and writing it anew. A cookie is the number of the save
that brought it. The fallback is what `buildPoller` passes (main.go:116): the
configuration as loaded, file included, and not the environment alone.
Only one goroutine calls
the provider, so calls do not overlap; the mutex would serialise them anyway.

With `MtimeAdvances` FALSE two saves may fall into one tick of the file
system's clock and share an mtime, in which case the second is not seen while the
first is cached (token_provider.go:66). Two history variables state what is
still promised: `possible`, the answers the call could have given had it read the
file at some moment of it, without a cache; and `ofTick`, what reads could find
since the mtime last changed. `ReadsAreCurrent` says that the cache hides no
more than one tick of that clock.

A file cut between its two fields does give a pair of two saves: the new session
with the CSRF token of startup, which `Tokens` fills in and caches. The portal
cannot tell, since it compares the CSRF cookie with the header of the same request
(docs/api-notes.md:96) and `do` takes both from one string. What must not happen
is that such a pair stays. Two more history variables say where it may come from:
`half`, that the call could find a file that lacks a cookie, and `halfOfTick`, that
the file has lacked one since its mtime last changed. `SavesAreNotMixed` allows a
mixed pair under them only, and then with a cookie of the fallback in it; the
fallback as a whole, which startup may have put together from the file and the
environment, is the one other pair that is not of one save.

### CookieUse and Rotation

`CookieUse` has one action per point where something else can change under the
loop or a request: `TickStarts` and `ExpiryRead` (the tick's `now`, then the
expiry read from the provider and the check against it), `TokensAsked`,
`RequestSent` and `TokensMissing` (the token read with which `do` begins each
request), `RequestAnswered` and `RequestRefused`, `TickEnds`, `LoopStops`. The
actions that an answer of the provider triggers have the session it brought as
their parameter. A session is the number of the change that brought it and
`Expiry` its exp claim; the portal refuses a request iff its session has expired by
then. A request lives for at most `Timeout` (client.go:27) from the moment `do` was
called. How many requests a tick makes and when the timer fires is left open.
`RequestAnswered` includes a 401 whose error is dropped (poller.go:394), so the
refusal may or may not reach the loop.

`Rotation` joins each of these to what the file provider does in the same step:
`StartTick`, `GotExpiry`, `AskTokens`, `Send`, `TokensLacking`, `Answered`,
`Refused`, `EndTick`, `Stop`. `Reading` is the provider on its way from stat to
read, `Returns` its answer, by whichever of its four ways. Cookies are in
`config.yaml` alone, as docs/setup.md has it; an environment that holds cookies
too only adds a fallback that never changes.

`lapsed` (history) says that the cookies installed had no more than a request's
time to live, `disturbed` that the provider has answered while a save was under
way. The two together are what excuses a halt in `HaltsOnlyOnLapse`; the run
`Rotation_in_place` shows that `disturbed` cannot be left out, and the theorem
`RenamesNeedNoRestartHolds` that it need not be feared where the editor renames.

### DirTokens and DirRotation

Two reads, in the code's order, with the swap of the mounted Secret between any
two steps. Keys can be missing or blank, as in a Secret with misspelt key
names, which is what a reader can tell.

`DirRotation` is the loop over it, with the actions of `CookieUse` as in
`Rotation`; `Reading` is now the first of the two reads. `latest` (history) is the
session the directory holds, or held last; `lapsed` that it had no more than a
request's time to live. A halt without a lapse is possible only in a tick that
could not read the Secret (`result = Error`), and then because the expiry of an
earlier tick stays in force (poller.go:235-239): a good update that no tick saw,
followed by a broken one, ends the loop when the session before both is over.
That a request carries a session and a CSRF token of different versions makes no
difference here: the portal is known to compare the CSRF cookie with the header of
the same request (docs/api-notes.md:96), and `do` takes both from one string.

### Exposition

The half of `pollProperty` that `Poller` abstracts (the latest hour and the total
over the hourly buckets), `propSnaps` as the slice it is, in the order of the
listing, and the two renderings. A sample is a name, the property, a
distinguishing label and a value; `Gathered` is the registry's rule that a series
may be emitted once. Fields marked `omitempty` are sets of at most one value. A
bucket whose date does not parse has time 0 and counts for the day all the same
(poller.go:366-381). 0 is the zero `time.Time`, which `Unix` turns into `ZeroUnix`,
a number no instant has, so that a renderer that forgot to ask `IsZero` would
show it; `SurfacesAgree` says that neither does, and states exactly what `/metrics`
has where `/api/state` leaves a value out, and which inverters it has besides.
`repeats` and `shownRepeats` (history) tell whether the listing of this tick, and
that of the properties shown, names a property twice: such a listing is the one
thing that makes `/metrics` collide, and only until a tick over a better one ends. A tick that is abandoned keeps the properties, one that
ends replaces them all. Retries, daily totals and the halting of the loop are
left to `Poller`: here any property may be skipped and any tick abandoned. The
expiry, the inverters and the listing of each tick are inputs. Single fields that
are copied from the snapshot as they are (the error counters, the daily
totals, the name of the zone) are left out, and so is
`gaf_session_expires_seconds`, which is the expiry less the time of the scrape.

### Startup and Services

`Startup` has no state: what a configuration file must be like for `Load` to
succeed, where the listen address comes from (default, file, `--listen` after
validation) and where the probe looks, given the same flag.

In `Services`: main, the poller, `Server.Run` and the goroutine inside `ListenAndServe`, each
with its own place; the signal context and the one `runServices` derives; `errCh`
with its capacity of one; `errs` as a sequence; the clients with a request in
flight. The inside of the poller is reduced to its two ways of returning, both
nil: `Run` never returns an error, so the branch that would report one
(main.go:163-166) is not modelled. `Shutdown` closes the listeners at once and
then looks at the busy connections until none is left or its 5 s are over.
`inputs` is the file and the flag the daemon was started with; `Paths` is what
`NewHandler` serves with and without a poller, `ProbeSucceeds` a healthcheck
with a given flag. `Phase` and `Serving` are the daemon as `Lifecycle` sees it:
serving has failed from the moment the listener has, unless a shutdown drops its
error, and has ended once `Shutdown` is called.

## Runs

| Run | Question | Distinct states | Bounds |
|---|---|---|---|
| `Poller_session` | session, halting, metadata age, spacing, counters, refinement of `TickLoop` | 915 k | 2 properties, one pinned; instants 1-5, interval 2, metadata age 3; 2 attempts, 2 failures; expiries 3 and 9 or none readable |
| `Poller_production` | completeness, totals, retries, inverters, refusals, refinement of `SnapshotFeed` | 2.6 M | 2 properties with different midnights, 4 listings; instants 1-4, interval 1, metadata age 2; 2 attempts, 2 failures |
| `Poller_liveness` | shutdown, due polls | 89 k | 1 property; instants 1-3, interval 1; 2 attempts, 2 failures before the shutdown |
| `FileTokens` | cache, torn files | 410 k | 4 saves of any kind, mtimes that may stand still, first file blank, half filled or whole |
| `Rotation` | rotation against ticks, requests and time | 82 k | 2 saves of any kind; sessions that end at 3, 6 and 9; instants 1-6, timeout 1 |
| `DirRotation` | torn pairs, rotation of a Secret, broken ones included, against ticks, requests and time | 79 k | 3 updates, any set of keys each time; sessions that end at 3, 6, 9 and 12; instants 1-6, timeout 1 |
| `Services` | where the daemon is found, what ends it, and how | 8 k | 2 clients, 8 configuration files, 4 values of `--listen` |
| `SnapshotCache` | torn copies, starvation, register | 66 k | 2 readers, 3 ticks |
| `Exposition` | collisions, agreement of the surfaces, the newest bucket | 143 k | 2 properties, 4 listings (one repeats a property), 4 answers (empty, unreadable, disordered with a repeated hour), 2 tables of inverters |
| `Poller_auth_swallowed`, `Poller_yesterday_lost`, `Rotation_in_place` | documented behaviour the code does not have | - | as small as shows it |

What each property says stands in the comment before it.

Why the bounds are enough: two properties are needed for one to fail while the
other succeeds, and for two midnights; two failures exhaust the attempts of one
call, or hit two calls of a tick; with an interval of 1 and a metadata age of 2 a
run sees ticks that refresh and ticks that reuse, a change of day between
ticks and one in the middle of a tick; an expiry of 3 falls on, before and
after the instants of ticks. `MaxFaults` does not apply once a shutdown is
requested, so that every call may fail during it. Four saves are enough for a
stat and a read to be separated by two saves after one was cached. In `Rotation`
and `DirRotation` the first session ends within the run, the second can be installed before, at
or after that, a third replaces it while a request with it is in flight, and a
timeout of 1 lets a request begin under one session and end after its expiry. In
`Exposition` two properties exchange places, disappear and collide; a third
adds no kind of pair. The eight files of `Services` are one for each way `Load`
has of succeeding and failing, the flags agree and disagree with them; a third client would add nothing to "some request is in flight". Symmetry is not
used. `MaxClock`, `MaxFaults`, `MaxSaves`, `MaxUpdates` and `MaxTicks` bound the
models, and so do the sets of inputs of `Exposition` and `Services`; the theorems hold for all their values.

Deadlock is not checked where the system ends: the loop stops, the program
exits, the clock of `CookieUse` reaches its bound. It is checked in `FileTokens`,
`SnapshotCache` and `Exposition`, where calls, scrapes and ticks go
on for ever.

### What the failing runs show

- `Poller_auth_swallowed`. A 401 to the daily request is treated as any other
  failure of that request (poller.go:394-397): the loop goes on and the tick may
  even report OK, although snapshot.go:15 and docs/architecture.md:136 say that
  a 401 or 403 sets `AuthFailed`. It is noticed at the next request that is
  refused.
- `Poller_yesterday_lost`. The day is stamped as seen although the daily request has
  failed (poller.go:394-405). In the run, a first tick gets the total of the day
  before; after midnight the daily request of the next tick fails for good, and the
  older total is kept. A later tick of the same day finds the day seen
  (poller.go:387), asks for nothing, and with no failure of its own reports OK with
  the total of the day before last, where snapshot.go:55 promises that of the
  previous calendar day. The property speaks of ticks without a failed daily
  request only, so that it holds once the stamp is left to requests that succeed.
- `Rotation_in_place`. A `config.yaml` that is read half written either has empty
  fields, which `Tokens` fills with the cookies of startup (token_provider.go:82;
  main.go:116 passes the configuration as loaded, file included), or does not
  parse, and then the expiry of an earlier tick stays in force (poller.go:235-239).
  Either expiry may be over, and the loop halts for good (poller.go:242-244,
  216-219), although the user has replaced the cookies in time and is saving
  others. token_provider.go:17-19 promises that the file can be edited in place
  and that the daemon picks up the new cookies without a restart.

### Other differences between documents and code

Noticed while modelling, not worth a run.

Session and cookies:

- When the provider fails or the new token has no readable expiry, the old expiry
  stays in force (poller.go:235-239), where snapshot.go:25-26 says "Zero if the
  token couldn't be parsed".
- A halted poller does not resume when cookies are replaced, since `Run` has
  returned (poller.go:216-219); steps 1-3 of docs/troubleshooting.md:95-97 leave
  that out.
- token_provider.go:50-51 speaks of the freshest tokens; while the file is missing
  they are those of startup (main.go:116). Environment variables win over the file
  when the configuration is loaded, and lose to it in `Tokens`.
- Two saves within one tick of the file system's clock may share an mtime, and
  the second is then not read (token_provider.go:66), where docs/setup.md:67
  promises each edit is picked up.
- Without cookies at startup the daemon does not exit, as
  docs/troubleshooting.md:74 says, but serves `/healthz` (main.go:119-125), and
  Secrets corrected later are not picked up, as charts/gafferstape/README.md:151
  suggests they are.
- docs/architecture.md calls rotation in Kubernetes "not hot-reload", which
  `DirTokenProvider` has made obsolete.

What readers see:

- A property whose own request failed is absent from the next snapshot
  (poller.go:423); docs/architecture.md:135 says "keep cache". Only a tick that
  is abandoned keeps it.
- `Collect` emits `gaf_up` from the start, so that there are `gaf_*` series
  before the first tick, which docs/troubleshooting.md:20-22 denies.
- `gaf_session_expires_seconds` is 0 when the expiry is unknown, and the alert on
  `<= 0` then says that polling has halted (examples/alerts.yaml:35-40), which it
  has not.
- An inverter without a serial number is in `/metrics` (metrics.go:123-134) and not in
  `/api/state` (state.go:96), where docs/architecture.md:69 says that "`GET
  /api/state` returns the same data the metrics are built from". Before the first
  bucket of the day `/metrics` has a latest hour of 0 kWh, which `/api/state` leaves
  out.
- The help text of the latest hour calls it complete (metrics.go:62); it is the
  newest bucket, complete or not. Where clocks are put back, the bucket of the
  repeated hour with the same instant as one before does not replace it.
- An empty time zone in the answer is parsed as UTC rather than replaced by the
  property's own (poller.go:368-371).

Startup:

- A probe without `--listen` misses a daemon whose address is set in the file,
  which docs/troubleshooting.md:46 does not mention; `ProbeFindsTheServer` has
  this as its condition. `listen: ""` in the file stops the daemon even when
  `--listen` is given, which is applied after validation.

## Fairness

Safety runs assume none. `Poller_liveness`: every step of the goroutine is weakly
fair, because goroutines are scheduled, calls end (the HTTP client has a
30 s timeout, client.go:27) and backoffs are finite; time advances (up to
`MaxClock`); taking `ctx.Done()` is strongly fair, because `select` picks at
random between ready cases and will not pick the timer for ever. `Services`:
main, the server, the listener and a poller told to stop make progress (the
last is what `ShutdownCompletes` shows of `Poller`), and the drain's timer fires.
A request need not end, a listener need not fail, a signal need not come.
`Rotation`: ticks begin, the provider answers, requests end, an editor finishes a
save it has begun; `EndTick` is strongly fair, because a tick makes finitely many
calls and cannot go on asking for tokens for ever. The user need not rotate
anything, the clock need not advance, and no one need stop the loop.
`DirRotation` has the same, with the kubelet's sync for the editor's save.
Nobody need update the Secret. `SnapshotCache`: whoever has entered
`Lock`, `RLock` or the critical section goes on; neither ticks nor scrapes need
come.

## Proofs

TLAPS proves the following for every value of the constants that satisfies the
ASSUMEs of the modules (naming, types and positivity of parameters, and that a
property's local day does not go back as time goes on).

`Poller`. `PollerTypeProofs!TypeCorrect` comes first. None of the other
properties is inductive as stated, so `PollerInv!IInv` strengthens them:
`ProgramShape` says which locals are meaningful where; `TickTimes` that the timer
was set an interval after the last poll, which gives the spacing;
`TickResults` that, until an error is noted, every property dealt with has its
result, of the tick's own day, which gives completeness; `Days` that what is
remembered of a property is no older than what is published and agrees with it
on the same day; `StaleTotals` that a remembered total of another day leaves a
count behind; `AttemptsCounted` that the attempts made in a tick can be read off
the counters. The proof that a step preserves it has one lemma per conjunct,
each by the kinds of step (`FineKinds`) rather than by the actions, which keeps
the cases few. From `IInv` follow seven invariants and action properties
(`HaltIsFinal`, `CallsUnderLiveSession`, `ProductionUnderFreshMetadata`,
`CountersPublished`, `OkIsComplete`, `StaleYesterdayExplained`, `FailureIsEarned`),
then `PollSpacing` and `YesterdayStable`, and the two refinements: `Refinement`,
each step of the loop publishes as `SnapshotFeed` allows, or stutters; and
`LoopRefinement`, each step is one of `TickLoop`, or leaves stage and expiry alone.

Two properties need invariants of their own. `InverterSticks` rests on what is
gathered and what is published: a property polled in this tick whose inverter is
known carries it already (`GatheredInverters`), and nothing published has an
inverter that the loop has since forgotten (`PublishedInverters`).
`RetryPressureBounded` bounds failures by a number of attempts for each property
of the listing; it is shown by way of `Budget`, which bounds what each call may
have spent so far by the attempts of the properties dealt with, and of the
attempt under way. It is the one proof that counts, and needs `Property` finite.

`OnlyDailyRefusalsAreDropped` is the bound of the finding `Poller_auth_swallowed`:
whatever the order of answers, a refusal ends the loop unless it was the daily
request's. It needs no more than that `authFailed` is not taken back and that
counters do not go down; the step to look at is the one that fails a call.

`SnapshotCache`. The invariant ties each part already copied to the last
published record, which is stable while any reader is inside; hence
`ScrapesAreWhole` and the refinement to `SnapshotRegister`, for any number of
readers and ticks.

`FileTokens`. The invariant relates an mtime in the provider's hand or in its
cache to the content: if it is still the file's, the content was there since the
mtime last changed. Hence `CacheCoherent` and `ReadsAreCurrent`, whether or not the
file's clock advances between saves. For `SavesAreNotMixed` the provenance of
every pair in the model (file, cache, answer) is tracked: of one save, or the
fallback, or completed from it while the file lacked a cookie; and a pair cached
under the file's present mtime owes the latter to that mtime.

`Rotation`. `HaltsOnlyOnLapse`, under `MtimeAdvances`, for any lifetimes, timeout
and number of saves. The invariant joins that of `FileTokens`, which the
composition keeps because each of its steps is a step or a stutter of the
provider and its editor, with `Files`, which says whose cookies the file and
the cache hold, `RotationTypeOK`, which bounds the life of a request, and `Causes`:
a request in flight carries a session that was good for its whole timeout when
`do` was called, or something excuses it. `MtimeAdvances` is needed because a cache
that hides a save may hold a session that is over. With renames alone nothing is
ever half written (`RenameInv`), which leaves the lapse as the only cause
(`RenamesNeedNoRestart`).

`DirTokens`. Versions are ordered from answer to mount to Secret, hence
`TornOneWay` and `NeverGoesBack` for any number of updates.

`DirRotation`. `DirHaltsOnlyOnLapse`, for any updates, lifetimes and timeout. The
difficulty is the call with one file read: `Causes` says of its session that it
was the latest when it was read, and so good beyond the tick's `now`, or beyond
the timeout of the request it is read for, or `lapsed` holds. Nothing is asked of the CSRF token, on
which the expiry does not depend. `UpdatesNeedNoRestart` adds `CompleteInv`: while
every version has both keys, no call fails once the loop is in a tick.

`Services`. The invariant records why each goroutine is where it is; hence
`HaltKeepsServing`, `CleanExitIsClean`, `ListenFailureIsReported` and
`ProbeFindsTheServer` for any clients, files and flags. The last needs that no
port is the empty string. `LifecycleRefinement` shows that the goroutines implement
`Lifecycle`; it needs `Listening`, which says that before a shutdown the listener
can only have sent an error, so that a server that has failed is never taken for
one that has yet to start. No run checks `HaltKeepsServing` and
`ListenFailureIsReported`, since `Lifecycle` allows nothing else, nor
`RenamesNeedNoRestart` and `UpdatesNeedNoRestart` above, which say what follows
from a property that is checked for some values of the constants.

`Exposition`. `MetricsAreGathered` needs that the slice of a tick repeats no
property and none that is still to be polled, unless the listing of that tick did
(`Unrepeated`). `SurfacesAgree` follows from what is summed up: the kWh that
`/metrics` shows without a bucket are 0 because a summary without an hour has no
energy (`EntryFacts`, from `LatestHourIsFirstNewest` below).
`NewestBucketShown` is about loops over buckets of any number, which the model
writes as folds. Each fold is shown to be determined by its value on no bucket
and by what one more bucket does to it (`LatestHourScans`, `TodayKWhScans`),
from the definitions of the community modules up (`FoldExists`, `FoldUnique`:
`MapThenFoldSet` chooses a function on the subsets of a finite set, which has to be
shown to exist and to be the only one). The inductions, on subsets and on
lengths, are made by hand from a least counterexample (`LeastSubset`,
`LeastNatural`), since the library's induction theorems take an operator as a
parameter. Then the hour kept after k buckets is the first of the newest of
those that could be read (`LatestHourIsFirstNewest`), and the sum kept is the sum
of all (`TodayKWhIsSum`), in whatever order it is taken.

The type invariant of every module is proved as well. Every safety property and
every action property of the passing runs is proved; only the liveness properties
(`ShutdownCompletes`, `DuePollsArePublished`, `RotationIsShown`, `UpdateArrives`,
`EndsWhenTold`, `ListenerIsNotLeaked`, `TicksAreRecorded`,
`ScrapesAreAnswered`) are model-checked alone, since liveness under fairness and
ENABLED are outside what the prover supports.

## Not modelled

- Request headers, URLs, cookie encoding, the classification of a response inside
  `Client.do` and `fetch`, JSON, YAML and base64 decoding: data whose outcome (an
  answer, an error, an AuthError, an expiry, a configuration) is all the rest of
  the program sees. Among the outcomes is one worth knowing: argument errors of
  `GetProduction`, such as an empty time zone, go through the retries and the error
  counters like any other failure.
- The length of a backoff (retry.go): waits are of any length, and properties
  hold for all of them.
- Formats of numbers, times and addresses beyond what tells samples apart.
- Logging and its thresholds; the parsing of command lines.
- Branches that cannot be reached from `run`: argument errors of `client.New` and
  `poller.New`, an error from `Poller.Run`.
- The Helm chart, the Dockerfile and the examples, which configure other programs.

## State of the plan

Done, in this order: the polling loop and its feed, its proofs, the two token
providers, the daemon's life, the snapshot cache; then the composition of loop,
client and provider with the abstract loop between them, the surfaces readers
meet, the configuration and the probe, the loop over a mounted Secret, the daemon as its
operator sees it, and the proofs of every safety property.

What could still be added is data rather than control: the delays of `retryAPI`
with their cap and Go's integer width as a function, and the classes of
responses that `do` and `fetch` tell apart.
