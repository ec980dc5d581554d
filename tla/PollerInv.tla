----------------------------- MODULE PollerInv ------------------------------
(* The inductive invariant of Poller: what holds at every step of a tick,    *)
(* named part by part, and strong enough to imply the safety properties.     *)
EXTENDS Poller

InTick == ~BetweenTicks

\* pollOnce is past its metadata phase.
InProduction == pc = "polling" \/ op \in ProductionOps

\* Where the goroutine is and which locals it holds there agree.
ProgramShape ==
    /\ pc \in {"calling", "backoff"} <=> op # "none"
    /\ op \in ProductionOps => prop \in Selected(propertyMeta) \ todo
    /\ op \notin ProductionOps => prop = NoProperty
    /\ InProduction => todo \subseteq Selected(propertyMeta)

\* A tick began when its timer was due, and the timer was set an Interval after
\* the poll before.
TickTimes ==
    /\ snap.lastSuccessAt <= snap.lastPollAt
    /\ snap.lastPollAt <= clock
    /\ timer >= 1
    /\ InTick => now <= clock /\ timer <= now
    /\ pc # "stopped" /\ snap.lastPollAt # 0 => timer >= snap.lastPollAt + Interval

\* authFailed is set in the very step that publishes it and stops the loop.
SessionState ==
    /\ HaltIsFinal
    /\ snap.authFailed => authFailed
    /\ CallsUnderLiveSession

MetadataState ==
    /\ metadataLastRefresh <= clock
    /\ ProductionUnderFreshMetadata

\* Published counters lag behind, and a backoff follows a counted failure.
Counters ==
    /\ CountersPublished
    /\ \A o \in Op : snap.scrapeErrors[o] <= scrapeErrors[o]
    /\ pc = "backoff" => scrapeErrors[op] > 0

\* A tick's results are of its own day and in step with perProperty; while no
\* property has failed, none that the tick has dealt with is missing.
TickResults ==
    InProduction =>
        \A p \in Property :
            /\ p \notin Selected(propertyMeta) => propSnaps[p] = Absent
            /\ p \in Selected(propertyMeta) \ todo /\ p # prop /\ ~firstErr =>
                  propSnaps[p] # Absent
            /\ propSnaps[p] # Absent =>
                  /\ propSnaps[p].today = Today(p)
                  /\ perProperty[p] = [seen |-> Today(p),
                                       yesterday |-> propSnaps[p].yesterday]

\* The day last seen is no later than that of the latest poll; the published
\* entry is no later than it, and agrees with it on the same day; a daily
\* request is made on a new day only.
Days ==
    /\ op = "get-production-daily" => NeedYesterday(prop)
    /\ \A p \in Property :
           /\ perProperty[p].seen
                 <= LocalDay[p][IF BetweenTicks THEN snap.lastPollAt ELSE now]
           /\ snap.properties[p] # Absent =>
                 /\ snap.properties[p].today <= perProperty[p].seen
                 /\ snap.properties[p].today = perProperty[p].seen =>
                       snap.properties[p].yesterday = perProperty[p].yesterday

\* A remembered total of another day is the trace of a failed daily request.
StaleTotals ==
    "empty" \notin DailyAnswers =>
        \A p \in Property :
            perProperty[p].seen # 0 /\ perProperty[p].yesterday # perProperty[p].seen - 1 =>
                scrapeErrors["get-production-daily"] > 0

\* Every attempt before the present one failed and was counted in this tick.
AttemptsCounted ==
    /\ pc = "calling" =>
          scrapeErrors[op] - snap.scrapeErrors[op] >= attempt - 1
    /\ pc = "backoff" =>
          scrapeErrors[op] - snap.scrapeErrors[op] >= attempt
    /\ InProduction /\ firstErr =>
          \/ cancelled
          \/ \E p \in Selected(propertyMeta) : propertyMeta[p] = "badZone"
          \/ scrapeErrors["get-production-hourly"]
                - snap.scrapeErrors["get-production-hourly"] >= MaxAttempts

IInv ==
    /\ TypeOK
    /\ ProgramShape
    /\ TickTimes
    /\ SessionState
    /\ MetadataState
    /\ Counters
    /\ TickResults
    /\ Days
    /\ StaleTotals
    /\ StaleYesterdayExplained
    /\ AttemptsCounted
    /\ OkIsComplete

=============================================================================
