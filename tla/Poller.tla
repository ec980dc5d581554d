------------------------------- MODULE Poller -------------------------------
(* The polling loop of internal/poller: Run, one tick (pollOnce), the       *)
(* metadata refresh, the per-property poll, the retry helper and the        *)
(* Snapshot the HTTP surface reads. Everything outside the loop - time,     *)
(* the cookies behind the TokenProvider, the upstream API, SIGTERM - moves  *)
(* between any two steps of it.                                             *)
EXTENDS Integers, FiniteSets

CONSTANTS
    Property,        \* the installations the account may list
    NoProperty,      \* "no property": the account-wide calls, an empty answer
    Pinned,          \* Config.PropertyIDs; {} means every property
    Listings,        \* the answers GetProperties may give
    Accounts,        \* the properties GetAccountInfo may give inverters for
    DailyAnswers,    \* what a daily production answer may hold
    LocalDay,        \* the calendar day of each instant, in each property's zone
    Interval,        \* Config.Interval
    MetadataMaxAge,  \* metadataMaxAge
    MaxAttempts,     \* retry.maxAttempts
    Expiries,        \* the exp claims of the session tokens a user may install
    MaxClock,        \* bound: the last instant
    MaxFaults        \* bound: upstream failures before a shutdown is requested

\* 0 is the zero time.Time: "never refreshed", "expiry unknown".
Time == 0 .. MaxClock

\* 0 is the value before any daily answer; a kWh total is abstracted to the
\* day it is the total of, so day 1 has no total and days start at 2.
Day == Nat \ {0, 1}

ASSUME PropertyAssumption == NoProperty \notin Property /\ Pinned \subseteq Property
ASSUME FinitePropertyAssumption == IsFiniteSet(Property)
ASSUME ListingsAssumption ==
    Listings \subseteq [Property -> {"unlisted", "notReady", "badZone", "ready"}]
ASSUME AnswersAssumption ==
    /\ Accounts \subseteq Property \cup {NoProperty}
    /\ DailyAnswers \subseteq {"total", "empty"}
ASSUME LocalDayAssumption ==
    /\ LocalDay \in [Property -> [Time -> Day]]
    /\ \A p \in Property : \A s, t \in Time :
          s <= t => LocalDay[p][s] <= LocalDay[p][t]
ASSUME TimingAssumption ==
    /\ Interval \in Nat \ {0}
    /\ MetadataMaxAge \in Nat \ {0}
    /\ MaxAttempts \in Nat \ {0}
    /\ MaxClock \in Nat \ {0}
    /\ MaxFaults \in Nat
ASSUME ExpiriesAssumption == Expiries \subseteq Nat \ {0}

MetadataOps == {"get-properties", "get-account-info"}
ProductionOps == {"get-production-hourly", "get-production-daily"}
Op == MetadataOps \cup ProductionOps

VARIABLES
    \* the environment
    clock,                \* time.Now
    token,                \* exp of the token the provider would return now; 0: none readable
    cancelled,            \* ctx is done
    faults,               \* upstream failures still allowed
    \* the goroutine: where it is, and when its timer fires
    pc,
    timer,
    \* locals of pollOnce
    now,
    todo,
    propSnaps,
    firstErr,
    \* locals of retryAPI
    op,
    prop,
    attempt,
    doomed,               \* this attempt began after ctx was done
    \* fields of Poller only the loop touches
    metadataLastRefresh,
    propertyMeta,
    inverters,
    perProperty,
    sessionExpiresAt,
    authFailed,
    scrapeErrors,
    \* the Snapshot behind the mutex
    snap,
    \* history: some answer was a 401 or 403
    authSeen

envVars == <<clock, token, cancelled, faults>>
loopVars == <<pc, timer>>
tickVars == <<now, todo, propSnaps, firstErr>>
callVars == <<op, prop, attempt, doomed>>
metaVars == <<metadataLastRefresh, propertyMeta, inverters>>
sessionVars == <<sessionExpiresAt, authFailed>>
vars == <<envVars, loopVars, tickVars, callVars, metaVars, perProperty,
          sessionVars, scrapeErrors, snap, authSeen>>

-----------------------------------------------------------------------------
(* Values                                                                   *)

PropertyState == [seen : Day \cup {0}, yesterday : Nat]

PropertySnapshot == [today : Day, yesterday : Nat, inverter : BOOLEAN]

\* The property has no entry in Snapshot.Properties.
Absent == [today |-> 0, yesterday |-> 0, inverter |-> FALSE]

Snapshot ==
    [ok : BOOLEAN, authFailed : BOOLEAN,
     error : {"none", "expired", "metadata", "property"},
     lastPollAt : Time, lastSuccessAt : Time, sessionExpiresAt : Nat,
     properties : [Property -> PropertySnapshot \cup {Absent}],
     scrapeErrors : [Op -> Nat]]

NoErrors == [o \in Op |-> 0]
NoSnaps == [p \in Property |-> Absent]

-----------------------------------------------------------------------------
(* Questions the loop asks                                                  *)

\* Mutant: the instant of expiry still counts as alive.
ExpiredLate(exp, t) == exp # 0 /\ exp < t

\* checkSessionExpiry: the token is past its exp; an unknown exp never is.
Expired(exp, t) == exp # 0 /\ exp <= t

\* Mutant: metadata of exactly the greatest age is not refreshed.
MetadataDueLate(t) == metadataLastRefresh = 0 \/ t - metadataLastRefresh > MetadataMaxAge

MetadataDue(t) ==
    \/ metadataLastRefresh = 0
    \/ t - metadataLastRefresh >= MetadataMaxAge

\* The properties of a listing a tick goes through: pinned, if any are, and
\* ready for energy production monitoring.
Selected(listing) ==
    {p \in Property : /\ Pinned = {} \/ p \in Pinned
                      /\ listing[p] \in {"badZone", "ready"}}

Today(p) == LocalDay[p][now]

\* Mutants: the daily total is fetched once only, or on every tick.
NeedYesterdayOnce(p) == perProperty[p].seen = 0
NeedYesterdayAlways(p) == TRUE

NeedYesterday(p) == perProperty[p].seen # Today(p)

-----------------------------------------------------------------------------
(* Parts of a step                                                          *)

\* New, before Run: the expiry is already read, so that it can be shown.
Init ==
    /\ clock = 1
    /\ token \in Expiries \cup {0}
    /\ cancelled = FALSE
    /\ faults = MaxFaults
    /\ pc = "select"
    /\ timer = 1
    /\ now = 0 /\ todo = {} /\ propSnaps = NoSnaps /\ firstErr = FALSE
    /\ op = "none" /\ prop = NoProperty /\ attempt = 0 /\ doomed = FALSE
    /\ metadataLastRefresh = 0
    /\ propertyMeta = [p \in Property |-> "unlisted"]
    /\ inverters = {}
    /\ perProperty = [p \in Property |-> [seen |-> 0, yesterday |-> 0]]
    /\ sessionExpiresAt = token
    /\ authFailed = FALSE
    /\ scrapeErrors = NoErrors
    /\ snap = [ok |-> FALSE, authFailed |-> FALSE, error |-> "none",
               lastPollAt |-> 0, lastSuccessAt |-> 0, sessionExpiresAt |-> token,
               properties |-> NoSnaps, scrapeErrors |-> NoErrors]
    /\ authSeen = FALSE

\* retryAPI is entered: its first attempt is in flight.
Invoke(o, p) ==
    /\ pc' = "calling"
    /\ op' = o
    /\ prop' = p
    /\ attempt' = 1
    /\ doomed' = cancelled

\* retryAPI has returned.
EndCall ==
    /\ op' = "none"
    /\ prop' = NoProperty
    /\ attempt' = 0
    /\ doomed' = FALSE

\* pollOnce reaches its loop over the properties.
BeginProperties ==
    /\ pc' = "polling"
    /\ todo' = Selected(propertyMeta')
    /\ propSnaps' = NoSnaps
    /\ firstErr' = FALSE

\* Mutant: a tick that skipped a property counts as a success.
RecordTickResultHopeful ==
    snap' = [ok |-> ~firstErr,
             authFailed |-> authFailed,
             error |-> IF firstErr THEN "property" ELSE "none",
             lastPollAt |-> now,
             lastSuccessAt |-> now,
             sessionExpiresAt |-> sessionExpiresAt,
             properties |-> propSnaps,
             scrapeErrors |-> scrapeErrors]

RecordTickResult ==
    snap' = [ok |-> ~firstErr,
             authFailed |-> authFailed,
             error |-> IF firstErr THEN "property" ELSE "none",
             lastPollAt |-> now,
             lastSuccessAt |-> IF firstErr THEN snap.lastSuccessAt ELSE now,
             sessionExpiresAt |-> sessionExpiresAt,
             properties |-> propSnaps,
             scrapeErrors |-> scrapeErrors]

\* Mutants: the counters are not copied, or the old properties are dropped.
RecordTickFailureUncounted(t, error) ==
    snap' = [ok |-> FALSE, authFailed |-> authFailed', error |-> error,
             lastPollAt |-> t, lastSuccessAt |-> snap.lastSuccessAt,
             sessionExpiresAt |-> sessionExpiresAt', properties |-> snap.properties,
             scrapeErrors |-> snap.scrapeErrors]
RecordTickFailureEmpty(t, error) ==
    snap' = [ok |-> FALSE, authFailed |-> authFailed', error |-> error,
             lastPollAt |-> t, lastSuccessAt |-> snap.lastSuccessAt,
             sessionExpiresAt |-> sessionExpiresAt', properties |-> NoSnaps,
             scrapeErrors |-> scrapeErrors']

\* The old properties stay, for readers to show stale.
RecordTickFailure(t, error) ==
    snap' = [ok |-> FALSE,
             authFailed |-> authFailed',
             error |-> error,
             lastPollAt |-> t,
             lastSuccessAt |-> snap.lastSuccessAt,
             sessionExpiresAt |-> sessionExpiresAt',
             properties |-> snap.properties,
             scrapeErrors |-> scrapeErrors']

\* Mutants: Run does not look at authFailed, or keeps a fixed rate.
ReturnToRunRegardless ==
    /\ pc' = "select" /\ timer' = clock + Interval
    /\ now' = 0 /\ todo' = {} /\ propSnaps' = NoSnaps /\ firstErr' = FALSE
    /\ EndCall
ReturnToRunFixedRate ==
    /\ IF authFailed'
       THEN pc' = "stopped" /\ UNCHANGED timer
       ELSE pc' = "select" /\ timer' = timer + Interval
    /\ now' = 0 /\ todo' = {} /\ propSnaps' = NoSnaps /\ firstErr' = FALSE
    /\ EndCall

\* pollOnce returns to Run, which halts or rearms the timer from this instant.
ReturnToRun ==
    /\ IF authFailed'
       THEN pc' = "stopped" /\ UNCHANGED timer
       ELSE pc' = "select" /\ timer' = clock + Interval
    /\ now' = 0
    /\ todo' = {}
    /\ propSnaps' = NoSnaps
    /\ firstErr' = FALSE
    /\ EndCall

\* pollProperty returns a PropertySnapshot, having stamped the day as seen.
KeepProperty(p, yesterdayKWh) ==
    /\ perProperty' = [perProperty EXCEPT
                         ![p] = [seen |-> Today(p), yesterday |-> yesterdayKWh]]
    /\ propSnaps' = [propSnaps EXCEPT
                         ![p] = [today |-> Today(p), yesterday |-> yesterdayKWh,
                                 inverter |-> p \in inverters]]
    /\ pc' = "polling"
    /\ EndCall
    /\ UNCHANGED <<timer, now, todo, firstErr, metaVars, sessionVars, snap>>

\* Mutant: the error of a skipped property is only logged.
SkipPropertyQuietly ==
    /\ pc' = "polling"
    /\ EndCall
    /\ UNCHANGED <<timer, now, propSnaps, firstErr, metaVars, perProperty, sessionVars, snap>>

\* pollProperty returns an error that is not about the session: the tick goes on.
SkipProperty ==
    /\ firstErr' = TRUE
    /\ pc' = "polling"
    /\ EndCall
    /\ UNCHANGED <<timer, now, propSnaps, metaVars, perProperty, sessionVars, snap>>

\* Mutant: the tick ends without being recorded.
AbandonTickSilently(kind, error) ==
    /\ authFailed' = (authFailed \/ kind = "auth")
    /\ UNCHANGED <<metaVars, perProperty, sessionExpiresAt, snap>>
    /\ ReturnToRun

\* pollOnce returns early with the error of a call.
AbandonTick(kind, error) ==
    /\ authFailed' = (authFailed \/ kind = "auth")
    /\ UNCHANGED <<metaVars, perProperty, sessionExpiresAt>>
    /\ RecordTickFailure(now, error)
    /\ ReturnToRun

\* Mutant: a refusal of the hourly request is taken for any other error of it.
CallFailsLeniently(kind) ==
    \/ /\ op \in MetadataOps
       /\ AbandonTick(kind, "metadata")
    \/ /\ op = "get-production-hourly"
       /\ SkipProperty
       /\ UNCHANGED todo
    \/ /\ op = "get-production-daily"
       /\ KeepProperty(prop, perProperty[prop].yesterday)

\* What each caller of retryAPI does with an error.
CallFails(kind) ==
    \/ /\ op \in MetadataOps
       /\ AbandonTick(kind, "metadata")
    \/ /\ op = "get-production-hourly" /\ kind = "auth"
       /\ AbandonTick(kind, "property")
    \/ /\ op = "get-production-hourly" /\ kind # "auth"
       /\ SkipProperty
       /\ UNCHANGED todo
    \/ /\ op = "get-production-daily"
       /\ KeepProperty(prop, perProperty[prop].yesterday)

-----------------------------------------------------------------------------
(* A tick starts                                                            *)

\* Mutant: an expiry that cannot be read is forgotten.
StartTickForgetting ==
    /\ pc = "select"
    /\ timer <= clock
    /\ sessionExpiresAt' = token
    /\ UNCHANGED <<envVars, scrapeErrors, authSeen>>

\* Run takes timer.C; pollOnce rereads the expiry and keeps the old one when
\* the provider fails or the token cannot be parsed.
StartTick ==
    /\ pc = "select"
    /\ timer <= clock
    /\ sessionExpiresAt' = IF token # 0 THEN token ELSE sessionExpiresAt
    /\ UNCHANGED <<envVars, scrapeErrors, authSeen>>

TickExpired ==
    /\ StartTick
    /\ Expired(sessionExpiresAt', clock)
    /\ authFailed' = TRUE
    /\ UNCHANGED <<metaVars, perProperty, scrapeErrors>>
    /\ RecordTickFailure(clock, "expired")
    /\ ReturnToRun

TickRefreshing ==
    /\ StartTick
    /\ ~Expired(sessionExpiresAt', clock)
    /\ MetadataDue(clock)
    /\ now' = clock
    /\ Invoke("get-properties", NoProperty)
    /\ UNCHANGED <<timer, todo, propSnaps, firstErr, metaVars, perProperty,
                   authFailed, snap>>

TickReusing ==
    /\ StartTick
    /\ ~Expired(sessionExpiresAt', clock)
    /\ ~MetadataDue(clock)
    /\ now' = clock
    /\ UNCHANGED metaVars
    /\ BeginProperties
    /\ UNCHANGED <<timer, callVars, perProperty, authFailed, snap>>

-----------------------------------------------------------------------------
(* Upstream answers                                                         *)

\* An attempt begun on a live context is in flight for call o. One begun after
\* the context was done cannot succeed: net/http fails it.
Answers(o) ==
    /\ pc = "calling"
    /\ op = o
    /\ ~doomed
    /\ UNCHANGED <<envVars, scrapeErrors, authSeen>>

\* refreshMetadata keeps the listing whatever the next call does.
GotProperties ==
    /\ Answers("get-properties")
    /\ propertyMeta' \in Listings
    /\ Invoke("get-account-info", NoProperty)
    /\ UNCHANGED <<timer, tickVars, metadataLastRefresh, inverters, perProperty,
                   sessionVars, snap>>

\* Mutant: the inverters of the other properties are forgotten.
GotAccountInfoOnly ==
    /\ Answers("get-account-info")
    /\ \E p \in Accounts : inverters' = {p} \ {NoProperty}
    /\ metadataLastRefresh' = now
    /\ UNCHANGED propertyMeta
    /\ BeginProperties
    /\ EndCall
    /\ UNCHANGED <<timer, now, perProperty, sessionVars, snap>>

GotAccountInfo ==
    /\ Answers("get-account-info")
    /\ \E p \in Accounts : inverters' = inverters \cup ({p} \ {NoProperty})
    /\ metadataLastRefresh' = now
    /\ UNCHANGED propertyMeta
    /\ BeginProperties
    /\ EndCall
    /\ UNCHANGED <<timer, now, perProperty, sessionVars, snap>>

GotHourlySameDay ==
    /\ Answers("get-production-hourly")
    /\ ~NeedYesterday(prop)
    /\ KeepProperty(prop, perProperty[prop].yesterday)

\* Mutant: the daily request does not name the property.
GotHourlyNewDayUnnamed ==
    /\ Answers("get-production-hourly")
    /\ NeedYesterday(prop)
    /\ Invoke("get-production-daily", NoProperty)
    /\ UNCHANGED <<timer, tickVars, metaVars, perProperty, sessionVars, snap>>

GotHourlyNewDay ==
    /\ Answers("get-production-hourly")
    /\ NeedYesterday(prop)
    /\ Invoke("get-production-daily", prop)
    /\ UNCHANGED <<timer, tickVars, metaVars, perProperty, sessionVars, snap>>

\* The first daily bucket, or the previous value when the answer has none.
GotDaily ==
    /\ Answers("get-production-daily")
    /\ \E answer \in DailyAnswers :
          KeepProperty(prop, IF answer = "total" THEN Today(prop) - 1
                                                 ELSE perProperty[prop].yesterday)

-----------------------------------------------------------------------------
(* Upstream failures                                                        *)

\* An attempt returns an error: "auth" for a 401 or 403, "error" for the rest.
AttemptFails(kind) ==
    /\ pc = "calling"
    /\ doomed => kind = "error"
    /\ cancelled \/ faults > 0
    /\ faults' = IF cancelled THEN faults ELSE faults - 1
    /\ scrapeErrors' = [scrapeErrors EXCEPT ![op] = @ + 1]
    /\ authSeen' = (authSeen \/ kind = "auth")
    /\ UNCHANGED <<clock, token, cancelled>>

\* Mutant: one attempt too many.
RetryLaterOnceMore ==
    /\ AttemptFails("error")
    /\ attempt <= MaxAttempts
    /\ pc' = "backoff"
    /\ UNCHANGED <<timer, tickVars, callVars, metaVars, perProperty, sessionVars, snap>>

\* retryAPI waits before the next attempt.
RetryLater ==
    /\ AttemptFails("error")
    /\ attempt < MaxAttempts
    /\ pc' = "backoff"
    /\ UNCHANGED <<timer, tickVars, callVars, metaVars, perProperty, sessionVars, snap>>

\* Mutant: any failure may be taken for final.
GiveUpEarly(kind) == AttemptFails(kind) /\ CallFails(kind)

\* retryAPI gives up: at once on a 401 or 403, else after the last attempt.
GiveUp(kind) ==
    /\ AttemptFails(kind)
    /\ kind = "auth" \/ attempt = MaxAttempts
    /\ CallFails(kind)

BackoffElapses ==
    /\ pc = "backoff"
    /\ pc' = "calling"
    /\ attempt' = attempt + 1
    /\ doomed' = cancelled
    /\ UNCHANGED <<envVars, timer, tickVars, op, prop, metaVars, perProperty,
                   sessionVars, scrapeErrors, snap, authSeen>>

\* retryAPI returns ctx.Err() from its wait.
BackoffCancelled ==
    /\ pc = "backoff"
    /\ cancelled
    /\ UNCHANGED <<envVars, scrapeErrors, authSeen>>
    /\ CallFails("error")

-----------------------------------------------------------------------------
(* The loop over the properties                                             *)

\* The order of the listing is not modelled: any remaining property is next.
PollProperty(p) ==
    /\ pc = "polling"
    /\ p \in todo
    /\ propertyMeta[p] = "ready"
    /\ todo' = todo \ {p}
    /\ Invoke("get-production-hourly", p)
    /\ UNCHANGED <<envVars, timer, now, propSnaps, firstErr, metaVars, perProperty,
                   sessionVars, scrapeErrors, snap, authSeen>>

\* time.LoadLocation fails: no request is made.
PollBadZone(p) ==
    /\ pc = "polling"
    /\ p \in todo
    /\ propertyMeta[p] = "badZone"
    /\ todo' = todo \ {p}
    /\ SkipProperty
    /\ UNCHANGED <<envVars, scrapeErrors, authSeen>>

FinishTick ==
    /\ pc = "polling"
    /\ todo = {}
    /\ UNCHANGED <<envVars, metaVars, perProperty, sessionVars, scrapeErrors, authSeen>>
    /\ RecordTickResult
    /\ ReturnToRun

-----------------------------------------------------------------------------
(* Shutdown and the environment                                             *)

\* Mutant: Run waits for its timer only.
StopOnCancelIgnored == FALSE /\ UNCHANGED vars

\* Run takes ctx.Done(); with the timer due as well, select takes either.
StopOnCancel ==
    /\ pc = "select"
    /\ cancelled
    /\ pc' = "stopped"
    /\ UNCHANGED <<envVars, timer, tickVars, callVars, metaVars, perProperty,
                   sessionVars, scrapeErrors, snap, authSeen>>

pollerVars == <<loopVars, tickVars, callVars, metaVars, perProperty, sessionVars,
                scrapeErrors, snap, authSeen>>

Advance ==
    /\ clock < MaxClock
    /\ clock' = clock + 1
    /\ UNCHANGED <<token, cancelled, faults, pollerVars>>

\* The user installs other cookies, or the provider stops being able to read any.
Rotate ==
    /\ token' \in (Expiries \cup {0}) \ {token}
    /\ UNCHANGED <<clock, cancelled, faults, pollerVars>>

Cancel ==
    /\ ~cancelled
    /\ cancelled' = TRUE
    /\ UNCHANGED <<clock, token, faults, pollerVars>>

-----------------------------------------------------------------------------
(* The specification                                                        *)

TickStarts == TickExpired \/ TickRefreshing \/ TickReusing

CallEnds ==
    \/ GotProperties \/ GotAccountInfo
    \/ GotHourlySameDay \/ GotHourlyNewDay \/ GotDaily
    \/ RetryLater
    \/ \E kind \in {"error", "auth"} : GiveUp(kind)

BackoffEnds == BackoffElapses \/ BackoffCancelled

TickGoesOn == (\E p \in Property : PollProperty(p) \/ PollBadZone(p)) \/ FinishTick

Next ==
    \/ TickStarts \/ CallEnds \/ BackoffEnds \/ TickGoesOn \/ StopOnCancel
    \/ Advance \/ Rotate \/ Cancel

\* The goroutine is scheduled; the HTTP client's 30 s timeout ends every call;
\* time passes; select, choosing at random between two ready cases, takes
\* ctx.Done() in the end. Nothing obliges the user to rotate or to stop.
Fairness ==
    /\ WF_vars(TickStarts)
    /\ WF_vars(CallEnds)
    /\ WF_vars(BackoffEnds)
    /\ WF_vars(TickGoesOn)
    /\ SF_vars(StopOnCancel)
    /\ WF_vars(Advance)

Spec == Init /\ [][Next]_vars
LiveSpec == Spec /\ Fairness

-----------------------------------------------------------------------------
(* Types                                                                    *)

\* Every variable holds values of its Go type, and a production request is
\* always for some property.
TypeOK ==
    /\ clock \in Time /\ token \in Nat
    /\ cancelled \in BOOLEAN /\ faults \in Nat
    /\ pc \in {"select", "polling", "calling", "backoff", "stopped"}
    /\ timer \in Nat
    /\ now \in Time /\ todo \subseteq Property
    /\ propSnaps \in [Property -> PropertySnapshot \cup {Absent}]
    /\ firstErr \in BOOLEAN
    /\ op \in Op \cup {"none"} /\ prop \in Property \cup {NoProperty}
    /\ op \in ProductionOps => prop \in Property
    /\ attempt \in Nat /\ doomed \in BOOLEAN
    /\ metadataLastRefresh \in Time
    /\ propertyMeta \in [Property -> {"unlisted", "notReady", "badZone", "ready"}]
    /\ inverters \subseteq Property
    /\ perProperty \in [Property -> PropertyState]
    /\ sessionExpiresAt \in Nat /\ authFailed \in BOOLEAN
    /\ scrapeErrors \in [Op -> Nat]
    /\ snap \in Snapshot
    /\ authSeen \in BOOLEAN

-----------------------------------------------------------------------------
(* Safety                                                                   *)

BetweenTicks == pc \in {"select", "stopped"}

\* A tick that reports OK skipped nothing: between ticks, a snapshot with OK
\* holds exactly the selected properties, each with the totals of the local day
\* of that very poll (poller.go:257-288, snapshot.go:13).
OkIsComplete ==
    BetweenTicks /\ snap.ok =>
        /\ snap.lastSuccessAt = snap.lastPollAt
        /\ \A p \in Property :
              IF p \in Selected(propertyMeta)
              THEN snap.properties[p].today = LocalDay[p][snap.lastPollAt]
              ELSE snap.properties[p] = Absent

\* AuthFailed is terminal: once set, the loop has stopped and readers are told
\* so, with OK cleared (snapshot.go:15-17, poller.go:216-219).
HaltIsFinal ==
    authFailed => pc = "stopped" /\ snap.authFailed /\ ~snap.ok

\* No request is made in a tick whose session had expired when it began, the
\* instant of expiry included (poller.go:242-244, 311).
CallsUnderLiveSession ==
    pc \in {"calling", "backoff", "polling"} =>
        sessionExpiresAt = 0 \/ now < sessionExpiresAt

\* Production is asked for on metadata younger than metadataMaxAge: a failed
\* refresh leaves no tick running on the new listing (poller.go:246-254).
ProductionUnderFreshMetadata ==
    pc = "polling" \/ op \in ProductionOps =>
        metadataLastRefresh # 0 /\ now - metadataLastRefresh < MetadataMaxAge

\* Between ticks, readers see every failure counted so far and the expiry in
\* force, whichever way the tick ended (poller.go:424-426, 446-448).
CountersPublished ==
    BetweenTicks =>
        /\ snap.scrapeErrors = scrapeErrors
        /\ snap.sessionExpiresAt = sessionExpiresAt

\* When the upstream has yesterday's total, a snapshot shows another day's only
\* after a daily request failed (poller.go:386-405).
StaleYesterdayExplained ==
    "empty" \notin DailyAnswers =>
        \A p \in Property :
            LET entry == snap.properties[p] IN
            entry # Absent /\ entry.yesterday # entry.today - 1 =>
                scrapeErrors["get-production-daily"] > 0

\* The portal's refusals stop the loop, whichever call of a tick they answer and
\* whatever follows them; those it survives were answers to a daily request, and
\* are counted there (poller.go:248-252, 273-276, 394-397).
OnlyDailyRefusalsAreDropped ==
    authSeen => authFailed \/ scrapeErrors["get-production-daily"] > 0

\* One tick makes at most MaxAttempts failing attempts of each metadata call,
\* and of each production call at most that many per property it has come to
\* (poller.go:257-277, retry.go:37-49).
RetryPressureBounded ==
    LET since(o) == scrapeErrors[o] - snap.scrapeErrors[o]
        reached == Cardinality(Selected(propertyMeta) \ todo)
    IN  /\ \A o \in MetadataOps : since(o) <= MaxAttempts
        /\ pc = "polling" \/ op \in ProductionOps =>
              \A o \in ProductionOps : since(o) <= MaxAttempts * reached

\* YesterdayKWh does not change while the property's day does not, even when
\* the property was missing from the snapshots in between: the total remembered
\* for a day stays, and is what every snapshot of that day shows
\* (poller.go:386-405, snapshot.go:55-56).
YesterdayStable ==
    [][\A p \in Property :
          perProperty[p].seen # 0 =>
              /\ perProperty'[p].seen = perProperty[p].seen =>
                    perProperty'[p].yesterday = perProperty[p].yesterday
              /\ snap'.properties[p].today = perProperty[p].seen =>
                    snap'.properties[p].yesterday = perProperty[p].yesterday
      ]_<<perProperty, snap>>

\* Two polls begin at least one Interval apart, however long a tick takes and
\* whatever its outcome (poller.go:214-220).
PollSpacing ==
    [][snap.lastPollAt # 0 =>
          snap'.lastPollAt - snap.lastPollAt >= Interval]_(snap.lastPollAt)

\* A property once shown with its inverter is never shown without it, although
\* each account-info answer names one property only (poller.go:280, 344-346).
InverterSticks ==
    [][\A p \in Property :
          snap.properties[p].inverter /\ snap'.properties[p] # Absent =>
              snap'.properties[p].inverter]_snap

\* A tick that reports failure earned it: the session is gone, the context is
\* done, a zone is unknown, or some call used up all its attempts in this tick
\* (poller.go:247-279, retry.go:37-69).
FailureIsEarned ==
    [][\/ snap'.ok \/ snap'.authFailed \/ cancelled
       \/ \E p \in Selected(propertyMeta) : propertyMeta[p] = "badZone"
       \/ \E o \in Op \ {"get-production-daily"} :
              scrapeErrors'[o] - snap.scrapeErrors[o] >= MaxAttempts]_snap

-----------------------------------------------------------------------------
(* What readers are promised                                                *)

Feed == INSTANCE SnapshotFeed WITH
            feed <- [ok |-> snap.ok, authFailed |-> snap.authFailed,
                     lastPollAt |-> snap.lastPollAt,
                     lastSuccessAt |-> snap.lastSuccessAt,
                     properties |-> snap.properties,
                     scrapeErrors |-> snap.scrapeErrors]

\* The loop implements the feed its readers rely on: publications are spaced
\* and final once the session is lost, a failure keeps the last values, days
\* only go forward and counters only up (poller.go:419-450, snapshot.go:9-37).
ReadersAreServed == Feed!FeedSpec

-----------------------------------------------------------------------------
(* What the provider of the cookies is promised                             *)

Stage ==
    CASE pc = "select" -> "idle"
      [] pc = "stopped" -> IF authFailed THEN "halted" ELSE "stopped"
      [] OTHER -> "ticking"

Loop == INSTANCE TickLoop WITH stage <- Stage, expiry <- sessionExpiresAt

\* Whatever becomes of its calls, a tick goes by the expiry it read when it
\* began, halts only as expired or refused, and hands over to the next tick or
\* to a stop (poller.go:206-244, 251-279).
LoopIsATickLoop == Loop!Init /\ [][Loop!Step(clock, token)]_(Loop!vars)

-----------------------------------------------------------------------------
(* Liveness                                                                 *)

\* After SIGTERM the loop stops, whatever it was in the middle of
\* (poller.go:211-213, retry.go:61-63).
ShutdownCompletes == cancelled ~> pc = "stopped"

\* A due timer leads to a published poll that began no earlier, or to a stop:
\* no tick hangs and none ends without telling the readers (poller.go:214-220).
DuePollsArePublished ==
    \A t \in 1 .. MaxClock :
        (pc = "select" /\ timer = t /\ clock >= t)
            ~> (snap.lastPollAt >= t \/ pc = "stopped")

-----------------------------------------------------------------------------
(* Documented behaviour the loop does not have                              *)

\* "AuthFailed is true once we've seen a 401/403 from upstream"
\* (snapshot.go:15): not when the daily request was the one refused.
AuthFailureIsReported == BetweenTicks /\ authSeen => snap.authFailed

\* "YesterdayKWh is the previous calendar day's total" (snapshot.go:55), and what
\* could not be fetched is reused (poller.go:395-396). Even so, a tick in which no
\* daily request failed, and which reports OK, would show no other day's total;
\* but it may be a later tick of a day already stamped as seen, which does not
\* ask again (poller.go:387, 402). The portal's refusals are left aside here.
YesterdayIsPreviousDay ==
    [][LET failures(s) == s.scrapeErrors["get-production-daily"]
       IN  /\ "empty" \notin DailyAnswers /\ ~authSeen
           /\ snap'.ok /\ failures(snap') = failures(snap)
           => \A p \in Property :
                 LET entry == snap'.properties[p]
                 IN  entry # Absent => entry.yesterday \in {0, entry.today - 1}]_snap

=============================================================================
