---------------------------- MODULE PollerProofs ----------------------------
(* The inductive invariant of Poller, and the safety properties it implies,  *)
(* for every account, zone, interval and bound.                              *)
EXTENDS PollerTypeProofs, FiniteSetTheorems

USE DEF PropertyAssumption, ListingsAssumption, AnswersAssumption, LocalDayAssumption,
        TimingAssumption, ExpiriesAssumption
USE DEF MetadataOps, ProductionOps, Op
USE DEF envVars, loopVars, tickVars, callVars, metaVars, sessionVars, pollerVars

-----------------------------------------------------------------------------
(* Kinds of steps                                                           *)

\* A step within a tick, seen from the loop around it.
InTickStep ==
    /\ InTick
    /\ InTick'
    /\ UNCHANGED <<clock, timer, now, sessionVars, snap>>
    /\ \A o \in Op : scrapeErrors'[o] >= scrapeErrors[o]

\* A tick that ends early, seen from the loop around it.
AbandonStep ==
    /\ InTick
    /\ UNCHANGED clock
    /\ \A o \in Op : scrapeErrors'[o] >= scrapeErrors[o]
    /\ \E kind \in {"error", "auth"} : \E error \in {"metadata", "property"} :
          AbandonTick(kind, error)

LEMMA CountsGrow ==
    ASSUME TypeOK, NEW kind, AttemptFails(kind)
    PROVE  \A o \in Op : scrapeErrors'[o] >= scrapeErrors[o]
  BY DEF TypeOK, AttemptFails

LEMMA CallFailsKinds ==
    ASSUME TypeOK, InTick, NEW kind \in {"error", "auth"}, CallFails(kind), UNCHANGED clock,
           \A o \in Op : scrapeErrors'[o] >= scrapeErrors[o]
    PROVE  InTickStep \/ AbandonStep
  <1>1. CASE \E error \in {"metadata", "property"} : AbandonTick(kind, error)
    BY <1>1 DEF AbandonStep
  <1>2. CASE SkipProperty
    BY <1>2 DEF SkipProperty, InTickStep, InTick, BetweenTicks
  <1>3. CASE KeepProperty(prop, perProperty[prop].yesterday)
    BY <1>3 DEF KeepProperty, InTickStep, InTick, BetweenTicks
  <1> QED
    BY <1>1, <1>2, <1>3 DEF CallFails

LEMMA StepKinds ==
    ASSUME IInv, Next
    PROVE  \/ TickExpired \/ TickRefreshing \/ TickReusing
           \/ InTickStep \/ AbandonStep \/ FinishTick
           \/ StopOnCancel \/ Advance \/ Rotate \/ Cancel
  <1> USE DEF InTickStep, InTick, BetweenTicks
  <1>0. TypeOK /\ \A o \in Op : scrapeErrors[o] \in Nat
    BY DEF IInv, TypeOK
  <1>1. CASE GotProperties
    BY <1>0, <1>1 DEF GotProperties, Answers, Invoke
  <1>2. CASE GotAccountInfo
    BY <1>0, <1>2 DEF GotAccountInfo, Answers, BeginProperties
  <1>3. CASE GotHourlySameDay
    BY <1>0, <1>3 DEF GotHourlySameDay, Answers, KeepProperty
  <1>4. CASE GotHourlyNewDay
    BY <1>0, <1>4 DEF GotHourlyNewDay, Answers, Invoke
  <1>5. CASE GotDaily
    BY <1>0, <1>5 DEF GotDaily, Answers, KeepProperty
  <1>6. CASE RetryLater
    BY <1>0, <1>6, CountsGrow DEF RetryLater, AttemptFails
  <1>7. ASSUME NEW kind \in {"error", "auth"}, GiveUp(kind) PROVE InTickStep \/ AbandonStep
    BY <1>0, <1>7, CountsGrow, CallFailsKinds DEF GiveUp, AttemptFails
  <1>8. CASE BackoffElapses
    BY <1>0, <1>8 DEF BackoffElapses
  <1>9. CASE BackoffCancelled
    BY <1>0, <1>9, CallFailsKinds DEF BackoffCancelled
  <1>10. ASSUME NEW p \in Property, PollProperty(p) PROVE InTickStep
    BY <1>0, <1>10 DEF PollProperty, Invoke
  <1>11. ASSUME NEW p \in Property, PollBadZone(p) PROVE InTickStep
    BY <1>0, <1>11 DEF PollBadZone, SkipProperty
  <1> QED
    BY <1>1, <1>2, <1>3, <1>4, <1>5, <1>6, <1>7, <1>8, <1>9, <1>10, <1>11
       DEF Next, TickStarts, CallEnds, BackoffEnds, TickGoesOn

-----------------------------------------------------------------------------
(* The parts of the invariant about the loop as a whole                     *)

LEMMA TickTimesStep ==
    ASSUME IInv, Next
    PROVE  TickTimes'
  <1> USE TimingAssumption, TimeFacts DEF TickTimes, InTick, BetweenTicks, TypeOK, Snapshot
  <1>0. TypeOK /\ TickTimes /\ snap.lastPollAt \in Nat /\ snap.lastSuccessAt \in Nat
    BY DEF IInv
  <1>1. CASE TickExpired
    BY <1>0, <1>1 DEF TickExpired, StartTick, RecordTickFailure, ReturnToRun
  <1>2. CASE TickRefreshing
    BY <1>0, <1>2 DEF TickRefreshing, StartTick, Invoke
  <1>3. CASE TickReusing
    BY <1>0, <1>3 DEF TickReusing, StartTick, BeginProperties
  <1>4. CASE InTickStep
    BY <1>0, <1>4 DEF InTickStep
  <1>5. CASE AbandonStep
    BY <1>0, <1>5 DEF AbandonStep, AbandonTick, RecordTickFailure, ReturnToRun
  <1>6. CASE FinishTick
    <2>1. snap'.lastPollAt = now /\ snap'.lastSuccessAt \in {snap.lastSuccessAt, now}
      BY <1>6 DEF FinishTick, RecordTickResult
    <2>2. snap.lastPollAt <= now /\ now <= clock /\ now \in Nat /\ clock \in Nat
      <3>1. /\ now <= clock /\ timer <= now
            /\ snap.lastPollAt # 0 => timer >= snap.lastPollAt + Interval
        BY <1>0, <1>6 DEF FinishTick
      <3>2. now \in Nat /\ clock \in Nat /\ timer \in Nat
        BY <1>0
      <3> QED
        BY <1>0, <3>1, <3>2
    <2>3. clock' = clock /\ pc' \in {"select", "stopped"} /\ timer' \in Nat
          /\ (pc' = "select" => timer' = clock + Interval) /\ timer' >= 1
      BY <1>0, <1>6, ReturnToRunType DEF FinishTick, ReturnToRun
    <2> QED
      BY <1>0, <2>1, <2>2, <2>3
  <1>7. CASE StopOnCancel
    BY <1>0, <1>7 DEF StopOnCancel
  <1>8. CASE Advance
    BY <1>0, <1>8 DEF Advance
  <1>9. CASE Rotate \/ Cancel
    BY <1>0, <1>9 DEF Rotate, Cancel
  <1> QED
    BY <1>1, <1>2, <1>3, <1>4, <1>5, <1>6, <1>7, <1>8, <1>9, StepKinds

\* A tick that goes on past its expiry check has a live session.
LEMMA LiveAtStart ==
    ASSUME IInv, StartTick, ~Expired(sessionExpiresAt', clock), now' = clock
    PROVE  sessionExpiresAt' = 0 \/ now' < sessionExpiresAt'
  <1>1. clock \in Nat /\ sessionExpiresAt' \in Nat
    BY TimeFacts DEF IInv, TypeOK, StartTick
  <1> QED
    BY <1>1 DEF Expired

LEMMA SessionStateStep ==
    ASSUME IInv, Next
    PROVE  SessionState'
  <1> USE DEF SessionState, HaltIsFinal, CallsUnderLiveSession, BetweenTicks, InTick
  <1>0. TypeOK /\ SessionState
    BY DEF IInv
  <1>1. CASE TickExpired
    BY <1>0, <1>1 DEF TickExpired, StartTick, RecordTickFailure, ReturnToRun
  <1>2. CASE TickRefreshing
    <2>1. sessionExpiresAt' = 0 \/ now' < sessionExpiresAt'
      BY <1>2, LiveAtStart DEF TickRefreshing
    <2> QED
      BY <1>0, <1>2, <2>1 DEF TickRefreshing, StartTick, Invoke
  <1>3. CASE TickReusing
    <2>1. sessionExpiresAt' = 0 \/ now' < sessionExpiresAt'
      BY <1>3, LiveAtStart DEF TickReusing
    <2> QED
      BY <1>0, <1>3, <2>1 DEF TickReusing, StartTick, BeginProperties
  <1>4. CASE InTickStep
    BY <1>0, <1>4 DEF InTickStep, TypeOK
  <1>5. CASE AbandonStep
    BY <1>0, <1>5 DEF AbandonStep, AbandonTick, RecordTickFailure, ReturnToRun
  <1>6. CASE FinishTick
    BY <1>0, <1>6 DEF FinishTick, RecordTickResult, ReturnToRun
  <1>7. CASE StopOnCancel
    BY <1>0, <1>7 DEF StopOnCancel
  <1>8. CASE Advance \/ Rotate \/ Cancel
    BY <1>0, <1>8 DEF Advance, Rotate, Cancel
  <1> QED
    BY <1>1, <1>2, <1>3, <1>4, <1>5, <1>6, <1>7, <1>8, StepKinds

\* Only retryAPI's own failure branch leads to a wait.
LEMMA BackoffFollowsRetry ==
    ASSUME Next, pc' = "backoff"
    PROVE  RetryLater \/ Advance \/ Rotate \/ Cancel
  <1>1. ASSUME NEW kind, CallFails(kind) PROVE FALSE
    BY <1>1 DEF CallFails, AbandonTick, ReturnToRun, SkipProperty, KeepProperty
  <1>2. ~TickStarts
    BY DEF TickStarts, TickExpired, TickRefreshing, TickReusing, Invoke, BeginProperties,
           ReturnToRun
  <1>3. CallEnds => RetryLater
    BY <1>1 DEF CallEnds, GotProperties, GotAccountInfo, GotHourlySameDay,
                GotHourlyNewDay, GotDaily, GiveUp, Invoke, BeginProperties, KeepProperty
  <1>4. ~BackoffEnds
    BY <1>1 DEF BackoffEnds, BackoffElapses, BackoffCancelled
  <1>5. ~TickGoesOn
    BY DEF TickGoesOn, PollProperty, PollBadZone, FinishTick, Invoke, SkipProperty,
           ReturnToRun
  <1>6. ~StopOnCancel
    BY DEF StopOnCancel
  <1> QED
    BY <1>2, <1>3, <1>4, <1>5, <1>6 DEF Next

LEMMA CountersStep ==
    ASSUME IInv, Next
    PROVE  Counters'
  <1> USE DEF Counters, CountersPublished, BetweenTicks
  <1>0. /\ TypeOK /\ Counters /\ ProgramShape
        /\ \A o \in Op : scrapeErrors[o] \in Nat /\ snap.scrapeErrors[o] \in Nat
    BY DEF IInv, TypeOK, Snapshot
  <1>1. TypeOK' /\ \A o \in Op : scrapeErrors'[o] \in Nat
    BY <1>0, NextType DEF TypeOK
  <1>2. CASE TickExpired
    BY <1>0, <1>2 DEF TickExpired, StartTick, RecordTickFailure, ReturnToRun
  <1>3. CASE TickRefreshing
    BY <1>0, <1>3 DEF TickRefreshing, StartTick, Invoke
  <1>4. CASE TickReusing
    BY <1>0, <1>4 DEF TickReusing, StartTick, BeginProperties
  <1>5. CASE InTickStep
    <2>1. \A o \in Op : snap'.scrapeErrors[o] <= scrapeErrors'[o]
      BY <1>0, <1>1, <1>5 DEF InTickStep
    <2>2. pc' = "backoff" => scrapeErrors'[op'] > 0
      <3>1. CASE RetryLater
        <4>1. op \in Op
          BY <1>0, <3>1 DEF TypeOK, ProgramShape, RetryLater, AttemptFails
        <4>2. op' = op /\ scrapeErrors' = [scrapeErrors EXCEPT ![op] = @ + 1]
          BY <3>1 DEF RetryLater, AttemptFails
        <4> QED
          BY <1>0, <4>1, <4>2 DEF TypeOK
      <3>2. CASE Rotate \/ Cancel
        BY <1>0, <3>2 DEF Rotate, Cancel
      <3>3. CASE Advance
        BY <1>0, <3>3 DEF Advance
      <3> QED
        BY <3>1, <3>2, <3>3, BackoffFollowsRetry
    <2> QED
      BY <1>5, <2>1, <2>2 DEF InTickStep, InTick
  <1>6. CASE AbandonStep
    BY <1>0, <1>1, <1>6 DEF AbandonStep, AbandonTick, RecordTickFailure, ReturnToRun
  <1>7. CASE FinishTick
    BY <1>0, <1>7 DEF FinishTick, RecordTickResult, ReturnToRun
  <1>8. CASE StopOnCancel
    BY <1>0, <1>8 DEF StopOnCancel
  <1>9. CASE Advance \/ Rotate \/ Cancel
    BY <1>0, <1>9 DEF Advance, Rotate, Cancel
  <1> QED
    BY <1>2, <1>3, <1>4, <1>5, <1>6, <1>7, <1>8, <1>9, StepKinds

-----------------------------------------------------------------------------
(* Kinds of steps, seen from the loop over the properties                    *)

\* pollProperty returns a snapshot with y for yesterday: the total asked for, or
\* what was remembered, because the day is the same, the answer was empty or the
\* request failed.
KeepStep ==
    /\ InTick
    /\ op \in ProductionOps
    /\ UNCHANGED <<clock, cancelled>>
    /\ \A o \in Op : scrapeErrors'[o] >= scrapeErrors[o]
    /\ \E y \in Nat :
          /\ KeepProperty(prop, y)
          /\ ~NeedYesterday(prop) => y = perProperty[prop].yesterday
          /\ y # Today(prop) - 1 =>
                /\ y = perProperty[prop].yesterday
                /\ \/ ~NeedYesterday(prop)
                   \/ "empty" \in DailyAnswers
                   \/ scrapeErrors'["get-production-daily"] > 0

\* pollProperty returns an error: the hourly request used up its attempts or was
\* cut short by a shutdown, or the zone is unknown.
SkipStep ==
    /\ InTick
    /\ UNCHANGED <<clock, cancelled>>
    /\ SkipProperty
    /\ \A o \in Op : scrapeErrors'[o] >= scrapeErrors[o]
    /\ \/ /\ op = "get-production-hourly"
          /\ UNCHANGED todo
          /\ \/ cancelled
             \/ scrapeErrors'["get-production-hourly"]
                   - snap.scrapeErrors["get-production-hourly"] >= MaxAttempts
       \/ \E p \in Property : PollBadZone(p)

\* A tick is given up for a session that is gone, for a shutdown, or for a call
\* out of attempts.
Earned ==
    \/ authFailed'
    \/ cancelled
    \/ \E o \in Op \ {"get-production-daily"} :
          scrapeErrors'[o] - snap.scrapeErrors[o] >= MaxAttempts

LEMMA CountedAttempts ==
    ASSUME IInv, NEW kind, AttemptFails(kind)
    PROVE  /\ op \in Op
           /\ scrapeErrors'[op] = scrapeErrors[op] + 1
           /\ scrapeErrors'[op] - snap.scrapeErrors[op] >= attempt
           /\ scrapeErrors'[op] > 0
  <1>1. /\ op \in Op /\ scrapeErrors \in [Op -> Nat]
        /\ scrapeErrors[op] \in Nat /\ snap.scrapeErrors[op] \in Nat /\ attempt \in Nat
    BY DEF IInv, TypeOK, Snapshot, ProgramShape, AttemptFails
  <1>2. scrapeErrors'[op] = scrapeErrors[op] + 1
    BY <1>1 DEF AttemptFails
  <1>3. scrapeErrors[op] - snap.scrapeErrors[op] >= attempt - 1
    BY DEF IInv, AttemptsCounted, AttemptFails
  <1> QED
    BY <1>1, <1>2, <1>3

LEMMA CallFailsFineKinds ==
    ASSUME IInv, InTick, NEW kind \in {"error", "auth"}, CallFails(kind),
           UNCHANGED <<clock, cancelled>>,
           op = "get-production-daily" => scrapeErrors'[op] > 0,
           kind = "error" =>
              cancelled \/ scrapeErrors'[op] - snap.scrapeErrors[op] >= MaxAttempts,
           \A o \in Op : scrapeErrors'[o] >= scrapeErrors[o]
    PROVE  (AbandonStep /\ Earned) \/ SkipStep \/ KeepStep
  <1>1. CASE /\ op \in MetadataOps \cup {"get-production-hourly"}
             /\ \E error \in {"metadata", "property"} : AbandonTick(kind, error)
    <2>1. kind = "auth" => authFailed'
      BY <1>1 DEF AbandonTick
    <2> QED
      BY <1>1, <2>1 DEF AbandonStep, Earned
  <1>2. CASE op = "get-production-hourly" /\ kind # "auth" /\ SkipProperty /\ UNCHANGED todo
    BY <1>2 DEF SkipStep
  <1>3. CASE /\ op = "get-production-daily"
             /\ KeepProperty(prop, perProperty[prop].yesterday)
    <2>1. prop \in Property /\ perProperty[prop].yesterday \in Nat
      BY <1>3 DEF IInv, TypeOK, PropertyState
    <2> QED
      BY <1>3, <2>1 DEF KeepStep
  <1> QED
    BY <1>1, <1>2, <1>3 DEF CallFails

LEMMA FineKinds ==
    ASSUME IInv, Next
    PROVE  \/ TickExpired \/ TickRefreshing \/ TickReusing
           \/ GotProperties \/ GotAccountInfo \/ GotHourlyNewDay
           \/ (\E p \in Property : PollProperty(p))
           \/ KeepStep \/ SkipStep \/ RetryLater \/ BackoffElapses
           \/ (AbandonStep /\ Earned) \/ FinishTick
           \/ StopOnCancel \/ Advance \/ Rotate \/ Cancel
  <1> USE DEF InTick, BetweenTicks
  <1>0. TypeOK /\ \A o \in Op : scrapeErrors[o] \in Nat
    BY DEF IInv, TypeOK
  <1>1. CASE GotHourlySameDay
    <2>1. prop \in Property /\ perProperty[prop].yesterday \in Nat
      BY <1>0, <1>1 DEF TypeOK, GotHourlySameDay, Answers, PropertyState
    <2> QED
      BY <1>0, <1>1, <2>1 DEF GotHourlySameDay, Answers, KeepStep
  <1>2. CASE GotDaily
    <2>1. prop \in Property /\ perProperty[prop].yesterday \in Nat /\ Today(prop) - 1 \in Nat
      BY <1>0, <1>2, TodayType DEF TypeOK, GotDaily, Answers, PropertyState, Day
    <2>2. NeedYesterday(prop)
      BY <1>2 DEF IInv, Days, GotDaily, Answers
    <2>3. PICK answer \in DailyAnswers :
             KeepProperty(prop, IF answer = "total" THEN Today(prop) - 1
                                                   ELSE perProperty[prop].yesterday)
      BY <1>2 DEF GotDaily
    <2>4. answer # "total" => "empty" \in DailyAnswers
      BY <2>3, AnswersAssumption
    <2> QED
      BY <1>0, <1>2, <2>1, <2>2, <2>3, <2>4 DEF GotDaily, Answers, KeepStep
  <1>3. ASSUME NEW kind \in {"error", "auth"}, GiveUp(kind)
        PROVE  (AbandonStep /\ Earned) \/ SkipStep \/ KeepStep
    <2>1. InTick /\ UNCHANGED <<clock, cancelled>> /\ AttemptFails(kind) /\ CallFails(kind)
      BY <1>3 DEF GiveUp, AttemptFails
    <2>2. \A o \in Op : scrapeErrors'[o] >= scrapeErrors[o]
      BY <1>0, <2>1, CountsGrow
    <2>3. kind = "error" => cancelled \/ scrapeErrors'[op] - snap.scrapeErrors[op] >= MaxAttempts
      BY <1>3, <2>1, CountedAttempts DEF GiveUp
    <2>4. scrapeErrors'[op] > 0
      BY <2>1, CountedAttempts
    <2> QED
      BY <2>1, <2>2, <2>3, <2>4, CallFailsFineKinds
  <1>4. CASE BackoffCancelled
    <2>1. op = "get-production-daily" => scrapeErrors'[op] > 0
      BY <1>4 DEF BackoffCancelled, IInv, Counters
    <2> QED
      BY <1>0, <1>4, <2>1, CallFailsFineKinds DEF BackoffCancelled
  <1>5. ASSUME NEW p \in Property, PollBadZone(p) PROVE SkipStep
    BY <1>0, <1>5 DEF PollBadZone, SkipStep
  <1> QED
    BY <1>1, <1>2, <1>3, <1>4, <1>5 DEF Next, TickStarts, CallEnds, BackoffEnds, TickGoesOn

-----------------------------------------------------------------------------
(* The parts of the invariant about a tick's properties                      *)

LEMMA ProgramShapeStep ==
    ASSUME IInv, Next
    PROVE  ProgramShape'
  <1> USE PropertyAssumption DEF ProgramShape, InProduction, Selected
  <1>0. TypeOK /\ ProgramShape
    BY DEF IInv
  <1>1. CASE TickExpired
    BY <1>0, <1>1 DEF TickExpired, ReturnToRun, EndCall
  <1>2. CASE TickRefreshing
    BY <1>0, <1>2 DEF TickRefreshing, Invoke
  <1>3. CASE TickReusing
    BY <1>0, <1>3 DEF TickReusing, StartTick, BeginProperties
  <1>4. CASE GotProperties
    BY <1>0, <1>4 DEF GotProperties, Invoke
  <1>5. CASE GotAccountInfo
    BY <1>0, <1>5 DEF GotAccountInfo, BeginProperties, EndCall
  <1>6. CASE GotHourlyNewDay
    BY <1>0, <1>6 DEF GotHourlyNewDay, Answers, Invoke
  <1>7. ASSUME NEW p \in Property, PollProperty(p) PROVE ProgramShape'
    BY <1>0, <1>7 DEF PollProperty, Invoke
  <1>8. CASE KeepStep
    BY <1>0, <1>8 DEF KeepStep, KeepProperty, EndCall
  <1>9. CASE SkipStep
    BY <1>0, <1>9 DEF SkipStep, SkipProperty, EndCall, PollBadZone
  <1>10. CASE RetryLater
    BY <1>0, <1>10 DEF RetryLater, AttemptFails
  <1>11. CASE BackoffElapses
    BY <1>0, <1>11 DEF BackoffElapses
  <1>12. CASE AbandonStep
    BY <1>0, <1>12 DEF AbandonStep, AbandonTick, ReturnToRun, EndCall
  <1>13. CASE FinishTick
    BY <1>0, <1>13 DEF FinishTick, ReturnToRun, EndCall
  <1>14. CASE StopOnCancel
    BY <1>0, <1>14 DEF StopOnCancel
  <1>15. CASE Advance \/ Rotate \/ Cancel
    BY <1>0, <1>15 DEF Advance, Rotate, Cancel
  <1> QED
    BY <1>1, <1>2, <1>3, <1>4, <1>5, <1>6, <1>7, <1>8, <1>9, <1>10, <1>11, <1>12,
       <1>13, <1>14, <1>15, FineKinds

LEMMA MetadataStateStep ==
    ASSUME IInv, Next
    PROVE  MetadataState'
  <1> USE DEF MetadataState, ProductionUnderFreshMetadata
  <1>0. /\ TypeOK /\ MetadataState
        /\ clock \in Nat /\ now \in Nat /\ metadataLastRefresh \in Nat
        /\ MetadataMaxAge \in Nat \ {0}
    BY TimeFacts, TimingAssumption DEF IInv, TypeOK
  <1>1. CASE TickExpired
    BY <1>0, <1>1 DEF TickExpired, StartTick, ReturnToRun, EndCall
  <1>2. CASE TickRefreshing
    BY <1>0, <1>2 DEF TickRefreshing, StartTick, Invoke
  <1>3. CASE TickReusing
    BY <1>0, <1>3 DEF TickReusing, StartTick, BeginProperties, MetadataDue
  <1>4. CASE GotProperties
    BY <1>0, <1>4 DEF GotProperties, Answers, Invoke
  <1>5. CASE GotAccountInfo
    <2>1. now <= clock /\ now # 0
      BY <1>5 DEF GotAccountInfo, Answers, IInv, TickTimes, InTick, BetweenTicks, TypeOK
    <2> QED
      BY <1>0, <1>5, <2>1 DEF GotAccountInfo, Answers
  <1>6. CASE GotHourlyNewDay
    BY <1>0, <1>6 DEF GotHourlyNewDay, Answers, Invoke
  <1>7. ASSUME NEW p \in Property, PollProperty(p) PROVE MetadataState'
    BY <1>0, <1>7 DEF PollProperty, Invoke
  <1>8. CASE KeepStep
    BY <1>0, <1>8 DEF KeepStep, KeepProperty
  <1>9. CASE SkipStep
    BY <1>0, <1>9 DEF SkipStep, SkipProperty, PollBadZone
  <1>10. CASE RetryLater
    BY <1>0, <1>10 DEF RetryLater, AttemptFails
  <1>11. CASE BackoffElapses
    BY <1>0, <1>11 DEF BackoffElapses
  <1>12. CASE AbandonStep
    BY <1>0, <1>12 DEF AbandonStep, AbandonTick, ReturnToRun, EndCall
  <1>13. CASE FinishTick
    BY <1>0, <1>13 DEF FinishTick, ReturnToRun, EndCall
  <1>14. CASE StopOnCancel
    BY <1>0, <1>14 DEF StopOnCancel
  <1>15. CASE Advance \/ Rotate \/ Cancel
    BY <1>0, <1>15 DEF Advance, Rotate, Cancel
  <1> QED
    BY <1>1, <1>2, <1>3, <1>4, <1>5, <1>6, <1>7, <1>8, <1>9, <1>10, <1>11, <1>12,
       <1>13, <1>14, <1>15, FineKinds

LEMMA TickResultsStep ==
    ASSUME IInv, Next
    PROVE  TickResults'
  <1> USE PropertyAssumption DEF TickResults, InProduction, Selected
  <1>0. TypeOK /\ TickResults /\ ProgramShape
    BY DEF IInv
  <1>1. CASE TickExpired
    BY <1>0, <1>1 DEF TickExpired, ReturnToRun, EndCall
  <1>2. CASE TickRefreshing
    BY <1>0, <1>2 DEF TickRefreshing, Invoke
  <1>3. CASE TickReusing
    BY <1>0, <1>3 DEF TickReusing, StartTick, BeginProperties, NoSnaps
  <1>4. CASE GotProperties
    BY <1>0, <1>4 DEF GotProperties, Invoke
  <1>5. CASE GotAccountInfo
    BY <1>0, <1>5 DEF GotAccountInfo, BeginProperties, NoSnaps
  <1>6. CASE GotHourlyNewDay
    BY <1>0, <1>6 DEF GotHourlyNewDay, Answers, Invoke, Today
  <1>7. ASSUME NEW p \in Property, PollProperty(p) PROVE TickResults'
    BY <1>0, <1>7 DEF PollProperty, Invoke, Today, ProgramShape
  <1>8. CASE KeepStep
    <2>1. PICK y \in Nat : KeepProperty(prop, y)
      BY <1>8 DEF KeepStep
    <2>2. prop \in Property /\ prop \in Selected(propertyMeta) /\ op \in ProductionOps
      BY <1>0, <1>8 DEF KeepStep, TypeOK, ProgramShape
    <2>3. /\ UNCHANGED <<now, todo, firstErr, propertyMeta>> /\ prop' = NoProperty
          /\ perProperty' = [perProperty EXCEPT
                               ![prop] = [seen |-> Today(prop), yesterday |-> y]]
          /\ propSnaps' = [propSnaps EXCEPT
                             ![prop] = [today |-> Today(prop), yesterday |-> y,
                                        inverter |-> prop \in inverters]]
      BY <2>1 DEF KeepProperty, EndCall
    <2>4. perProperty \in [Property -> PropertyState] /\ DOMAIN propSnaps = Property
      BY <1>0 DEF TypeOK
    <2>5. /\ propSnaps'[prop] = [today |-> Today(prop), yesterday |-> y,
                                 inverter |-> prop \in inverters]
          /\ perProperty'[prop] = [seen |-> Today(prop), yesterday |-> y]
      BY <2>2, <2>3, <2>4
    <2>6. Today(prop) # 0
      BY <1>0, <2>2, TodayType DEF Day
    <2>7. propSnaps'[prop] # Absent
      BY <2>5, <2>6 DEF Absent
    <2>8. \A p \in Property \ {prop} :
             propSnaps'[p] = propSnaps[p] /\ perProperty'[p] = perProperty[p]
      BY <2>2, <2>3, <2>4
    <2> QED
      BY <1>0, <2>2, <2>3, <2>5, <2>7, <2>8 DEF Today
  <1>9. CASE SkipStep
    <2>1. CASE op = "get-production-hourly"
      BY <1>0, <1>9, <2>1 DEF SkipStep, SkipProperty, Today
    <2>2. CASE \E p \in Property : PollBadZone(p)
      BY <1>0, <1>9, <2>2 DEF SkipStep, SkipProperty, PollBadZone, Today
    <2> QED
      BY <1>9, <2>1, <2>2 DEF SkipStep
  <1>10. CASE RetryLater
    BY <1>0, <1>10 DEF RetryLater, AttemptFails, Today
  <1>11. CASE BackoffElapses
    BY <1>0, <1>11 DEF BackoffElapses, Today
  <1>12. CASE AbandonStep
    BY <1>0, <1>12 DEF AbandonStep, AbandonTick, ReturnToRun, EndCall
  <1>13. CASE FinishTick
    BY <1>0, <1>13 DEF FinishTick, ReturnToRun, EndCall
  <1>14. CASE StopOnCancel
    BY <1>0, <1>14 DEF StopOnCancel, Today
  <1>15. CASE Advance \/ Rotate \/ Cancel
    BY <1>0, <1>15 DEF Advance, Rotate, Cancel, Today
  <1> QED
    BY <1>1, <1>2, <1>3, <1>4, <1>5, <1>6, <1>7, <1>8, <1>9, <1>10, <1>11, <1>12,
       <1>13, <1>14, <1>15, FineKinds

\* What a kept property leaves in perProperty; the other properties keep theirs.
LEMMA KeepStepEffect ==
    ASSUME IInv, KeepStep
    PROVE  \E y \in Nat :
              /\ prop \in Property
              /\ perProperty'[prop] = [seen |-> Today(prop), yesterday |-> y]
              /\ \A p \in Property \ {prop} : perProperty'[p] = perProperty[p]
              /\ ~NeedYesterday(prop) => y = perProperty[prop].yesterday
              /\ y # Today(prop) - 1 =>
                    /\ y = perProperty[prop].yesterday
                    /\ \/ ~NeedYesterday(prop)
                       \/ "empty" \in DailyAnswers
                       \/ scrapeErrors'["get-production-daily"] > 0
  <1>1. prop \in Property /\ perProperty \in [Property -> PropertyState]
    BY DEF IInv, TypeOK, KeepStep
  <1>2. PICK y \in Nat :
           /\ KeepProperty(prop, y)
           /\ ~NeedYesterday(prop) => y = perProperty[prop].yesterday
           /\ y # Today(prop) - 1 =>
                 /\ y = perProperty[prop].yesterday
                 /\ \/ ~NeedYesterday(prop)
                    \/ "empty" \in DailyAnswers
                    \/ scrapeErrors'["get-production-daily"] > 0
    BY DEF KeepStep
  <1>3. perProperty' = [perProperty EXCEPT
                          ![prop] = [seen |-> Today(prop), yesterday |-> y]]
    BY <1>2 DEF KeepProperty
  <1> QED
    BY <1>1, <1>2, <1>3

\* The clock of a tick is past the poll before it.
LEMMA TickIsLater ==
    ASSUME IInv
    PROVE  /\ InTick => snap.lastPollAt \in Time /\ snap.lastPollAt <= now
           /\ snap.lastPollAt \in Time /\ snap.lastPollAt <= clock
  <1>1. /\ snap.lastPollAt \in Nat /\ now \in Nat /\ timer \in Nat
        /\ snap.lastPollAt \in Time /\ Interval \in Nat
    BY TimeFacts, TimingAssumption DEF IInv, TypeOK, Snapshot
  <1>2. TickTimes
    BY DEF IInv
  <1>3. InTick => pc # "stopped"
    BY DEF InTick, BetweenTicks
  <1> QED
    BY <1>1, <1>2, <1>3 DEF TickTimes

\* Steps that leave the days seen, the entries and the poll's instant alone.
LEMMA DaysUndisturbed ==
    ASSUME IInv, UNCHANGED <<perProperty, snap, now>>, BetweenTicks <=> BetweenTicks',
           op' = "get-production-daily" => NeedYesterday(prop)'
    PROVE  Days'
  BY DEF IInv, Days, Today, NeedYesterday

LEMMA DaysStep ==
    ASSUME IInv, Next
    PROVE  Days'
  <1> USE DEF InTick, BetweenTicks
  <1>0. /\ TypeOK /\ Days /\ ProgramShape
        /\ \A p \in Property : \A s, t \in Time :
              /\ LocalDay[p][s] \in Nat
              /\ s <= t => LocalDay[p][s] <= LocalDay[p][t]
        /\ \A p \in Property : perProperty[p].seen \in Nat /\ perProperty[p].yesterday \in Nat
        /\ now \in Time /\ clock \in Time
        /\ snap.lastPollAt \in Time /\ snap.lastPollAt <= clock
        /\ InTick => snap.lastPollAt <= now
    BY LocalDayAssumption, TickIsLater DEF IInv, TypeOK, Day, PropertyState
  <1>1. CASE TickExpired
    <2>1. /\ UNCHANGED <<perProperty, snap.properties>> /\ snap'.lastPollAt = clock
          /\ pc' = "stopped" /\ op' = "none" /\ pc = "select"
      BY <1>1 DEF TickExpired, StartTick, RecordTickFailure, ReturnToRun, EndCall
    <2>2. \A p \in Property : perProperty[p].seen <= LocalDay[p][clock]
      BY <1>0, <2>1 DEF Days
    <2> QED
      BY <1>0, <2>1, <2>2 DEF Days
  <1>2. CASE TickRefreshing \/ TickReusing
    <2>1. /\ UNCHANGED <<perProperty, snap>> /\ now' = clock /\ pc = "select"
          /\ pc' \in {"calling", "polling"} /\ op' # "get-production-daily"
      BY <1>0, <1>2 DEF TickRefreshing, TickReusing, StartTick, Invoke, BeginProperties,
                        ProgramShape
    <2>2. \A p \in Property : perProperty[p].seen <= LocalDay[p][clock]
      BY <1>0, <2>1 DEF Days
    <2> QED
      BY <1>0, <2>1, <2>2 DEF Days
  <1>3. CASE GotProperties \/ GotAccountInfo
    BY <1>0, <1>3, DaysUndisturbed
       DEF GotProperties, GotAccountInfo, Answers, Invoke, BeginProperties, EndCall
  <1>4. CASE GotHourlyNewDay
    BY <1>0, <1>4, DaysUndisturbed DEF GotHourlyNewDay, Answers, Invoke, NeedYesterday, Today
  <1>5. ASSUME NEW p \in Property, PollProperty(p) PROVE Days'
    BY <1>0, <1>5, DaysUndisturbed DEF PollProperty, Invoke
  <1>6. CASE KeepStep
    <2>1. PICK y \in Nat :
             /\ prop \in Property
             /\ perProperty'[prop] = [seen |-> Today(prop), yesterday |-> y]
             /\ \A p \in Property \ {prop} : perProperty'[p] = perProperty[p]
             /\ ~NeedYesterday(prop) => y = perProperty[prop].yesterday
      BY <1>6, KeepStepEffect
    <2>2. /\ UNCHANGED <<now, snap>> /\ op' = "none" /\ pc' = "polling"
          /\ pc \notin {"select", "stopped"}
      BY <1>6 DEF KeepStep, KeepProperty, EndCall
    <2>3. Today(prop) \in Nat /\ perProperty[prop].seen <= Today(prop)
      BY <1>0, <2>1, <2>2 DEF Days, Today
    <2>4. /\ perProperty'[prop].seen <= LocalDay[prop][now]
          /\ snap.properties[prop] # Absent =>
                /\ snap.properties[prop].today <= perProperty'[prop].seen
                /\ snap.properties[prop].today = perProperty'[prop].seen =>
                      snap.properties[prop].yesterday = perProperty'[prop].yesterday
      <3>1. snap.properties[prop] # Absent => snap.properties[prop].today \in Nat
        BY <1>0, <2>1 DEF TypeOK, Snapshot, PropertySnapshot, Day
      <3>2. CASE NeedYesterday(prop)
        BY <1>0, <2>1, <2>3, <3>1, <3>2 DEF Days, NeedYesterday, Today
      <3>3. CASE ~NeedYesterday(prop)
        BY <1>0, <2>1, <2>3, <3>1, <3>3 DEF Days, NeedYesterday, Today
      <3> QED
        BY <3>2, <3>3
    <2> QED
      BY <1>0, <2>1, <2>2, <2>4 DEF Days
  <1>7. CASE SkipStep
    BY <1>0, <1>7, DaysUndisturbed DEF SkipStep, SkipProperty, EndCall
  <1>8. CASE RetryLater
    BY <1>0, <1>8, DaysUndisturbed DEF RetryLater, AttemptFails, Days, NeedYesterday, Today
  <1>9. CASE BackoffElapses
    BY <1>0, <1>9, DaysUndisturbed DEF BackoffElapses, Days, NeedYesterday, Today
  <1>10. CASE AbandonStep
    <2>1. /\ UNCHANGED <<perProperty, snap.properties>> /\ snap'.lastPollAt = now
          /\ pc' \in {"select", "stopped"} /\ op' = "none" /\ InTick
      BY <1>10 DEF AbandonStep, AbandonTick, RecordTickFailure, ReturnToRun, EndCall
    <2> QED
      BY <1>0, <2>1 DEF Days
  <1>11. CASE FinishTick
    <2>1. /\ UNCHANGED perProperty /\ snap'.lastPollAt = now
          /\ snap'.properties = propSnaps
          /\ pc' \in {"select", "stopped"} /\ op' = "none" /\ pc = "polling"
      BY <1>11 DEF FinishTick, RecordTickResult, ReturnToRun, EndCall
    <2>2. \A p \in Property : propSnaps[p] # Absent =>
             /\ propSnaps[p].today = perProperty[p].seen
             /\ propSnaps[p].yesterday = perProperty[p].yesterday
      <3> SUFFICES ASSUME NEW p \in Property, propSnaps[p] # Absent
                   PROVE  /\ propSnaps[p].today = perProperty[p].seen
                          /\ propSnaps[p].yesterday = perProperty[p].yesterday
        OBVIOUS
      <3>1. /\ propSnaps[p].today = Today(p)
            /\ perProperty[p] = [seen |-> Today(p), yesterday |-> propSnaps[p].yesterday]
        BY <2>1 DEF IInv, TickResults, InProduction
      <3> QED
        BY <3>1
    <2> QED
      BY <1>0, <2>1, <2>2 DEF Days
  <1>12. CASE StopOnCancel
    BY <1>0, <1>12, DaysUndisturbed DEF StopOnCancel, Days, NeedYesterday, Today
  <1>13. CASE Advance \/ Rotate \/ Cancel
    BY <1>0, <1>13, DaysUndisturbed DEF Advance, Rotate, Cancel, Days, NeedYesterday, Today
  <1> QED
    BY <1>1, <1>2, <1>3, <1>4, <1>5, <1>6, <1>7, <1>8, <1>9, <1>10, <1>11, <1>12,
       <1>13, FineKinds

LEMMA CountsNeverFall ==
    ASSUME IInv, Next
    PROVE  \A o \in Op : /\ scrapeErrors[o] \in Nat /\ scrapeErrors'[o] \in Nat
                         /\ scrapeErrors'[o] >= scrapeErrors[o]
  <1>0. /\ TypeOK
        /\ \A o \in Op : scrapeErrors[o] \in Nat /\ scrapeErrors'[o] \in Nat
    BY NextType DEF IInv, TypeOK
  <1>1. CASE \E kind : AttemptFails(kind)
    BY <1>0, <1>1, CountsGrow
  <1>2. CASE UNCHANGED scrapeErrors
    BY <1>0, <1>2
  <1> QED
    BY <1>0, <1>1, <1>2, FineKinds
       DEF TickExpired, TickRefreshing, TickReusing, StartTick, GotProperties,
           GotAccountInfo, GotHourlyNewDay, Answers, PollProperty, KeepStep, SkipStep,
           RetryLater, BackoffElapses, AbandonStep, FinishTick, StopOnCancel, Advance,
           Rotate, Cancel

LEMMA StaleTotalsStep ==
    ASSUME IInv, Next
    PROVE  StaleTotals'
  <1>0. /\ TypeOK /\ StaleTotals /\ TypeOK'
        /\ scrapeErrors["get-production-daily"] \in Nat
        /\ scrapeErrors'["get-production-daily"] \in Nat
    BY NextType DEF IInv, TypeOK
  <1>1. scrapeErrors'["get-production-daily"] >= scrapeErrors["get-production-daily"]
    BY CountsNeverFall
  <1>2. CASE KeepStep
    <2>1. PICK y \in Nat :
             /\ prop \in Property
             /\ perProperty'[prop] = [seen |-> Today(prop), yesterday |-> y]
             /\ \A p \in Property \ {prop} : perProperty'[p] = perProperty[p]
             /\ y # Today(prop) - 1 =>
                   /\ y = perProperty[prop].yesterday
                   /\ \/ ~NeedYesterday(prop)
                      \/ "empty" \in DailyAnswers
                      \/ scrapeErrors'["get-production-daily"] > 0
      BY <1>2, KeepStepEffect
    <2>2. Today(prop) # 0
      BY <1>0, <2>1, TodayType DEF Day
    <2> QED
      BY <1>0, <1>1, <2>1, <2>2 DEF StaleTotals, NeedYesterday
  <1>3. CASE UNCHANGED perProperty
    BY <1>0, <1>1, <1>3 DEF StaleTotals
  <1> QED
    BY <1>2, <1>3, FineKinds
       DEF TickExpired, TickRefreshing, TickReusing, GotProperties,
           GotAccountInfo, GotHourlyNewDay, PollProperty, SkipStep, SkipProperty,
           RetryLater, BackoffElapses, AbandonStep, AbandonTick, FinishTick,
           StopOnCancel, Advance, Rotate, Cancel

LEMMA StaleYesterdayExplainedStep ==
    ASSUME IInv, Next
    PROVE  StaleYesterdayExplained'
  <1>0. /\ TypeOK /\ StaleYesterdayExplained /\ StaleTotals
        /\ scrapeErrors["get-production-daily"] \in Nat
        /\ scrapeErrors'["get-production-daily"] \in Nat
        /\ scrapeErrors'["get-production-daily"] >= scrapeErrors["get-production-daily"]
    BY CountsNeverFall DEF IInv
  <1>1. CASE FinishTick
    <2>1. /\ snap'.properties = propSnaps /\ UNCHANGED scrapeErrors /\ pc = "polling"
      BY <1>1 DEF FinishTick, RecordTickResult
    <2>2. ASSUME NEW p \in Property, propSnaps[p] # Absent, "empty" \notin DailyAnswers,
                 propSnaps[p].yesterday # propSnaps[p].today - 1
          PROVE  scrapeErrors["get-production-daily"] > 0
      <3>1. /\ propSnaps[p].today = Today(p)
            /\ perProperty[p] = [seen |-> Today(p), yesterday |-> propSnaps[p].yesterday]
        BY <2>1, <2>2 DEF IInv, TickResults, InProduction
      <3>2. Today(p) # 0
        BY <1>0, TodayType DEF Day
      <3>3. /\ perProperty[p].seen = Today(p)
            /\ perProperty[p].yesterday = propSnaps[p].yesterday
        BY <3>1
      <3> QED
        BY <1>0, <2>2, <3>1, <3>2, <3>3 DEF StaleTotals
    <2> QED
      BY <2>1, <2>2 DEF StaleYesterdayExplained
  <1>2. CASE UNCHANGED snap.properties
    BY <1>0, <1>2 DEF StaleYesterdayExplained
  <1>3. TickExpired \/ AbandonStep => UNCHANGED snap.properties
    BY DEF TickExpired, AbandonStep, AbandonTick, RecordTickFailure
  <1>4. TickRefreshing \/ TickReusing \/ InTickStep => UNCHANGED snap.properties
    BY DEF TickRefreshing, TickReusing, InTickStep
  <1>5. StopOnCancel \/ Advance \/ Rotate \/ Cancel => UNCHANGED snap.properties
    BY DEF StopOnCancel, Advance, Rotate, Cancel
  <1> QED
    BY <1>1, <1>2, <1>3, <1>4, <1>5, StepKinds

LEMMA OkIsCompleteStep ==
    ASSUME IInv, Next
    PROVE  OkIsComplete'
  <1> USE DEF OkIsComplete, BetweenTicks
  <1>1. CASE FinishTick
    <2>1. /\ snap'.properties = propSnaps /\ snap'.ok = ~firstErr
          /\ snap'.lastPollAt = now
          /\ firstErr = FALSE => snap'.lastSuccessAt = now
          /\ UNCHANGED propertyMeta /\ pc = "polling" /\ todo = {}
      BY <1>1 DEF FinishTick, RecordTickResult
    <2>2. prop = NoProperty
      BY <2>1 DEF IInv, ProgramShape
    <2>3. \A p \in Property :
             /\ p \notin Selected(propertyMeta) => propSnaps[p] = Absent
             /\ p \in Selected(propertyMeta) /\ ~firstErr =>
                   propSnaps[p].today = LocalDay[p][now]
      BY <2>1, <2>2, PropertyAssumption DEF IInv, TickResults, InProduction, Today
    <2> QED
      BY <2>1, <2>3 DEF Selected, IInv, TypeOK
  <1>2. CASE TickExpired \/ AbandonStep
    BY <1>2 DEF TickExpired, AbandonStep, AbandonTick, RecordTickFailure
  <1>3. CASE InTickStep \/ TickRefreshing \/ TickReusing
    BY <1>3 DEF InTickStep, InTick, TickRefreshing, TickReusing, Invoke, BeginProperties
  <1>4. CASE StopOnCancel \/ Advance \/ Rotate \/ Cancel
    BY <1>4 DEF StopOnCancel, Advance, Rotate, Cancel, IInv, Selected
  <1> QED
    BY <1>1, <1>2, <1>3, <1>4, StepKinds

LEMMA AttemptsCountedStep ==
    ASSUME IInv, Next
    PROVE  AttemptsCounted'
  <1> USE DEF AttemptsCounted, InProduction
  <1>0. /\ TypeOK /\ AttemptsCounted /\ ProgramShape
        /\ \A o \in Op : /\ scrapeErrors[o] \in Nat /\ snap.scrapeErrors[o] \in Nat
                         /\ scrapeErrors'[o] \in Nat
                         /\ scrapeErrors'[o] >= scrapeErrors[o]
                         /\ snap.scrapeErrors[o] <= scrapeErrors[o]
        /\ attempt \in Nat /\ MaxAttempts \in Nat
    BY CountsNeverFall, TimingAssumption DEF IInv, TypeOK, Snapshot, Counters
  <1>1. CASE TickExpired
    BY <1>0, <1>1 DEF TickExpired, ReturnToRun, EndCall
  <1>2. CASE TickRefreshing
    BY <1>0, <1>2 DEF TickRefreshing, StartTick, Invoke
  <1>3. CASE TickReusing
    BY <1>0, <1>3 DEF TickReusing, StartTick, BeginProperties
  <1>4. CASE GotProperties
    BY <1>0, <1>4 DEF GotProperties, Answers, Invoke
  <1>5. CASE GotAccountInfo
    BY <1>0, <1>5 DEF GotAccountInfo, Answers, BeginProperties, EndCall
  <1>6. CASE GotHourlyNewDay
    BY <1>0, <1>6 DEF GotHourlyNewDay, Answers, Invoke, Selected
  <1>7. ASSUME NEW p \in Property, PollProperty(p) PROVE AttemptsCounted'
    BY <1>0, <1>7 DEF PollProperty, Invoke, Selected
  <1>8. CASE KeepStep
    BY <1>0, <1>8 DEF KeepStep, KeepProperty, EndCall, Selected
  <1>9. CASE SkipStep
    <2>1. /\ pc' = "polling" /\ UNCHANGED <<snap, propertyMeta, cancelled>>
      BY <1>9 DEF SkipStep, SkipProperty
    <2>2. CASE \E p \in Property : PollBadZone(p)
      BY <1>0, <2>1, <2>2 DEF PollBadZone, IInv, ProgramShape, Selected
    <2> QED
      BY <1>0, <1>9, <2>1, <2>2 DEF SkipStep
  <1>10. CASE RetryLater
    <2>1. /\ op \in Op /\ UNCHANGED <<op, attempt, snap, propertyMeta, cancelled, firstErr>>
          /\ scrapeErrors'[op] - snap.scrapeErrors[op] >= attempt
      BY <1>10, CountedAttempts DEF RetryLater, AttemptFails
    <2> QED
      BY <1>0, <1>10, <2>1 DEF RetryLater, AttemptFails, Selected
  <1>11. CASE BackoffElapses
    BY <1>0, <1>11 DEF BackoffElapses, Selected
  <1>12. CASE AbandonStep
    BY <1>0, <1>12 DEF AbandonStep, AbandonTick, ReturnToRun, EndCall
  <1>13. CASE FinishTick
    BY <1>0, <1>13 DEF FinishTick, ReturnToRun, EndCall
  <1>14. CASE StopOnCancel
    BY <1>0, <1>14 DEF StopOnCancel, Selected
  <1>15. CASE Advance \/ Rotate \/ Cancel
    BY <1>0, <1>15 DEF Advance, Rotate, Cancel, Selected
  <1> QED
    BY <1>1, <1>2, <1>3, <1>4, <1>5, <1>6, <1>7, <1>8, <1>9, <1>10, <1>11, <1>12,
       <1>13, <1>14, <1>15, FineKinds

-----------------------------------------------------------------------------
(* The invariant                                                            *)

LEMMA InitInv == Init => IInv
  <1> SUFFICES ASSUME Init PROVE IInv
    OBVIOUS
  <1>0. /\ TypeOK
        /\ Interval \in Nat /\ MaxAttempts \in Nat \ {0}
        /\ \A p \in Property : LocalDay[p][0] \in Nat
    BY InitType, TimingAssumption, LocalDayAssumption, TimeFacts DEF Day
  <1> USE DEF Init, BetweenTicks, InTick, InProduction
  <1>1. ProgramShape /\ TickTimes
    BY DEF ProgramShape, TickTimes
  <1>2. SessionState /\ MetadataState
    BY DEF SessionState, HaltIsFinal, CallsUnderLiveSession, MetadataState,
           ProductionUnderFreshMetadata
  <1>3. Counters /\ AttemptsCounted
    BY DEF Counters, CountersPublished, NoErrors, AttemptsCounted
  <1>4. TickResults /\ OkIsComplete
    BY DEF TickResults, OkIsComplete
  <1>5. Days /\ StaleTotals /\ StaleYesterdayExplained
    BY <1>0 DEF Days, StaleTotals, StaleYesterdayExplained, NoSnaps
  <1> QED
    BY <1>0, <1>1, <1>2, <1>3, <1>4, <1>5 DEF IInv

LEMMA NextInv == IInv /\ [Next]_vars => IInv'
  <1>1. ASSUME IInv, Next PROVE IInv'
    <2>1. TypeOK'
      BY <1>1, NextType DEF IInv
    <2> QED
      BY <1>1, <2>1, ProgramShapeStep, TickTimesStep, SessionStateStep, MetadataStateStep,
         CountersStep, TickResultsStep, DaysStep, StaleTotalsStep,
         StaleYesterdayExplainedStep, AttemptsCountedStep, OkIsCompleteStep DEF IInv
  <1>2. ASSUME IInv, UNCHANGED vars PROVE IInv'
    <2> USE <1>2 DEF IInv, vars, BetweenTicks, InTick, InProduction, Selected, Today, NeedYesterday
    <2>1. TypeOK' /\ ProgramShape' /\ TickTimes' /\ SessionState' /\ MetadataState'
      BY DEF TypeOK, ProgramShape, TickTimes, SessionState, HaltIsFinal,
             CallsUnderLiveSession, MetadataState, ProductionUnderFreshMetadata
    <2>2. Counters' /\ AttemptsCounted'
      BY DEF Counters, CountersPublished, AttemptsCounted
    <2>3. TickResults' /\ Days' /\ OkIsComplete'
      BY DEF TickResults, Days, OkIsComplete
    <2>4. StaleTotals' /\ StaleYesterdayExplained'
      BY DEF StaleTotals, StaleYesterdayExplained
    <2> QED
      BY <2>1, <2>2, <2>3, <2>4 DEF IInv
  <1> QED
    BY <1>1, <1>2

\* The invariant the properties below follow from.
THEOREM Invariance == Spec => []IInv
  BY InitInv, NextInv, PTL DEF Spec

-----------------------------------------------------------------------------
(* What follows from it                                                     *)

\* A 401, a 403 or an expired session stops the loop for good and is published
\* in the same step.
THEOREM HaltIsFinalHolds == Spec => []HaltIsFinal
  <1>1. IInv => HaltIsFinal
    BY DEF IInv, SessionState
  <1> QED
    BY <1>1, Invariance, PTL

\* No request is made in a tick whose session had expired when it began.
THEOREM CallsUnderLiveSessionHolds == Spec => []CallsUnderLiveSession
  <1>1. IInv => CallsUnderLiveSession
    BY DEF IInv, SessionState
  <1> QED
    BY <1>1, Invariance, PTL

\* Production is never asked for on metadata older than metadataMaxAge.
THEOREM ProductionUnderFreshMetadataHolds == Spec => []ProductionUnderFreshMetadata
  <1>1. IInv => ProductionUnderFreshMetadata
    BY DEF IInv, MetadataState
  <1> QED
    BY <1>1, Invariance, PTL

\* Between ticks readers see every failure counted and the expiry in force.
THEOREM CountersPublishedHolds == Spec => []CountersPublished
  <1>1. IInv => CountersPublished
    BY DEF IInv, Counters
  <1> QED
    BY <1>1, Invariance, PTL

\* OK means complete: every selected property, with the totals of that poll's day.
THEOREM OkIsCompleteHolds == Spec => []OkIsComplete
  <1>1. IInv => OkIsComplete
    BY DEF IInv
  <1> QED
    BY <1>1, Invariance, PTL

\* Another day's total is shown only after a daily request failed.
THEOREM StaleYesterdayExplainedHolds == Spec => []StaleYesterdayExplained
  <1>1. IInv => StaleYesterdayExplained
    BY DEF IInv
  <1> QED
    BY <1>1, Invariance, PTL

-----------------------------------------------------------------------------
(* The portal's refusals                                                    *)

\* The loop never forgets that the session was lost.
LEMMA HaltIsKept ==
    ASSUME IInv, Next
    PROVE  authFailed => authFailed'
  BY StepKinds
     DEF TickExpired, TickRefreshing, TickReusing, InTickStep, AbandonStep, AbandonTick,
         FinishTick, StopOnCancel, Advance, Rotate, Cancel, sessionVars, pollerVars

\* A refusal that ends the call ends the tick, unless the call was the daily one,
\* which has been counted.
LEMMA RefusalEffect ==
    ASSUME IInv, NEW kind \in {"error", "auth"}, GiveUp(kind), kind = "auth"
    PROVE  authFailed' \/ scrapeErrors'["get-production-daily"] > 0
  <1>1. CASE op = "get-production-daily"
    <2>1. scrapeErrors["get-production-daily"] \in Nat
      BY DEF IInv, TypeOK, Op, ProductionOps
    <2>2. scrapeErrors'["get-production-daily"] = scrapeErrors["get-production-daily"] + 1
      BY <1>1 DEF GiveUp, AttemptFails, IInv, TypeOK, Op, ProductionOps
    <2> QED
      BY <2>1, <2>2
  <1>2. CASE op # "get-production-daily"
    BY <1>2 DEF GiveUp, CallFails, AbandonTick
  <1> QED
    BY <1>1, <1>2

LEMMA OnlyDailyRefusalsAreDroppedStep ==
    ASSUME IInv, OnlyDailyRefusalsAreDropped, Next
    PROVE  OnlyDailyRefusalsAreDropped'
  <1>0. scrapeErrors["get-production-daily"] > 0 => scrapeErrors'["get-production-daily"] > 0
    BY CountsNeverFall DEF Op, ProductionOps
  <1>1. CASE UNCHANGED authSeen
    BY <1>0, <1>1, HaltIsKept DEF OnlyDailyRefusalsAreDropped
  <1>2. ASSUME NEW kind \in {"error", "auth"}, GiveUp(kind)
        PROVE  OnlyDailyRefusalsAreDropped'
    <2>1. CASE kind = "auth"
      BY <1>2, <2>1, RefusalEffect DEF OnlyDailyRefusalsAreDropped
    <2>2. CASE kind = "error"
      <3>1. authSeen' = (authSeen \/ kind = "auth")
        BY <1>2, Zenon DEF GiveUp, AttemptFails
      <3> QED
        BY <1>0, <2>2, <3>1, HaltIsKept DEF OnlyDailyRefusalsAreDropped
    <2> QED
      BY <2>1, <2>2
  <1>3. CASE RetryLater
    <2>1. authSeen' = (authSeen \/ "error" = "auth")
      BY <1>3, Zenon DEF RetryLater, AttemptFails
    <2> QED
      BY <1>0, <2>1, HaltIsKept DEF OnlyDailyRefusalsAreDropped
  <1>4. CASE TickStarts \/ TickGoesOn \/ BackoffEnds
    <2>1. UNCHANGED authSeen
      BY <1>4 DEF TickStarts, TickExpired, TickRefreshing, TickReusing, StartTick,
                  TickGoesOn, PollProperty, PollBadZone, FinishTick,
                  BackoffEnds, BackoffElapses, BackoffCancelled
    <2> QED
      BY <1>1, <2>1
  <1>5. CASE \/ GotProperties \/ GotAccountInfo
             \/ GotHourlySameDay \/ GotHourlyNewDay \/ GotDaily
    <2>1. UNCHANGED authSeen
      BY <1>5 DEF GotProperties, GotAccountInfo, GotHourlySameDay, GotHourlyNewDay, GotDaily,
                  Answers
    <2> QED
      BY <1>1, <2>1
  <1>6. CASE StopOnCancel \/ Advance \/ Rotate \/ Cancel
    <2>1. UNCHANGED authSeen
      BY <1>6 DEF StopOnCancel, Advance, Rotate, Cancel, pollerVars
    <2> QED
      BY <1>1, <2>1
  <1> QED
    BY <1>2, <1>3, <1>4, <1>5, <1>6 DEF Next, CallEnds

\* A refusal that does not stop the loop was one of a daily request, and counted.
THEOREM OnlyDailyRefusalsAreDroppedHolds == Spec => []OnlyDailyRefusalsAreDropped
  <1>1. Init => OnlyDailyRefusalsAreDropped
    BY DEF Init, OnlyDailyRefusalsAreDropped
  <1>2. IInv /\ OnlyDailyRefusalsAreDropped /\ [Next]_vars => OnlyDailyRefusalsAreDropped'
    <2>1. ASSUME OnlyDailyRefusalsAreDropped, UNCHANGED vars
          PROVE  OnlyDailyRefusalsAreDropped'
      BY <2>1 DEF vars, sessionVars, OnlyDailyRefusalsAreDropped
    <2> QED
      BY <2>1, OnlyDailyRefusalsAreDroppedStep
  <1> QED
    BY <1>1, <1>2, Invariance, PTL DEF Spec

-----------------------------------------------------------------------------
(* What a step does to the snapshot                                         *)

\* Every publication comes from a loop that has not halted, and begins an
\* Interval after the one before.
LEMMA PublicationTimes ==
    ASSUME IInv, TickExpired \/ AbandonStep \/ FinishTick
    PROVE  /\ ~snap.authFailed
           /\ snap.lastPollAt \in Nat /\ snap'.lastPollAt \in Nat
           /\ snap.lastPollAt # 0 => snap'.lastPollAt >= snap.lastPollAt + Interval
           /\ snap'.lastPollAt > snap.lastPollAt
  <1>1. /\ pc \notin {"stopped"}
        /\ \/ snap'.lastPollAt = clock /\ timer <= clock
           \/ snap'.lastPollAt = now /\ timer <= now
    BY DEF TickExpired, StartTick, AbandonStep, AbandonTick, RecordTickFailure,
           FinishTick, RecordTickResult, InTick, BetweenTicks, IInv, TickTimes
  <1>2. /\ snap.lastPollAt \in Nat /\ now \in Nat /\ timer \in Nat /\ clock \in Nat
        /\ Interval \in Nat \ {0}
    BY TimeFacts, TimingAssumption DEF IInv, TypeOK, Snapshot
  <1>3. /\ timer >= 1
        /\ snap.lastPollAt # 0 => timer >= snap.lastPollAt + Interval
    BY <1>1 DEF IInv, TickTimes
  <1>4. ~snap.authFailed
    BY <1>1 DEF IInv, SessionState, HaltIsFinal
  <1> QED
    BY <1>1, <1>2, <1>3, <1>4

\* No other step touches it.
LEMMA SnapshotSteps ==
    ASSUME IInv, Next
    PROVE  TickExpired \/ (AbandonStep /\ Earned) \/ FinishTick \/ UNCHANGED snap
  <1>1. TickRefreshing \/ TickReusing \/ GotProperties \/ GotAccountInfo => UNCHANGED snap
    BY DEF TickRefreshing, TickReusing, GotProperties, GotAccountInfo
  <1>2. GotHourlyNewDay \/ (\E p \in Property : PollProperty(p)) => UNCHANGED snap
    BY DEF GotHourlyNewDay, PollProperty
  <1>3. KeepStep \/ SkipStep \/ RetryLater \/ BackoffElapses => UNCHANGED snap
    BY DEF KeepStep, KeepProperty, SkipStep, SkipProperty, RetryLater, BackoffElapses
  <1>4. StopOnCancel \/ Advance \/ Rotate \/ Cancel => UNCHANGED snap
    BY DEF StopOnCancel, Advance, Rotate, Cancel
  <1> QED
    BY <1>1, <1>2, <1>3, <1>4, FineKinds

\* Two polls begin at least one Interval apart, whatever their outcomes.
THEOREM PollSpacingHolds == Spec => PollSpacing
  <1>1. ASSUME IInv, [Next]_vars
        PROVE  [snap.lastPollAt # 0 =>
                  snap'.lastPollAt - snap.lastPollAt >= Interval]_(snap.lastPollAt)
    <2>1. CASE TickExpired \/ AbandonStep \/ FinishTick
      BY <1>1, <2>1, PublicationTimes, TimingAssumption
    <2>2. CASE UNCHANGED snap
      BY <2>2
    <2> QED
      BY <1>1, <2>1, <2>2, SnapshotSteps DEF vars
  <1> QED
    BY <1>1, Invariance, PTL DEF Spec, PollSpacing

\* Only a property that is kept changes what is remembered of it, and then the
\* snapshot stays as it is.
LEMMA MemorySteps ==
    ASSUME IInv, Next
    PROVE  (KeepStep /\ UNCHANGED snap) \/ UNCHANGED perProperty
  <1>1. TickExpired \/ TickRefreshing \/ TickReusing => UNCHANGED perProperty
    BY DEF TickExpired, TickRefreshing, TickReusing
  <1>2. GotProperties \/ GotAccountInfo \/ GotHourlyNewDay => UNCHANGED perProperty
    BY DEF GotProperties, GotAccountInfo, GotHourlyNewDay
  <1>3. (\E p \in Property : PollProperty(p)) \/ SkipStep \/ FinishTick
           => UNCHANGED perProperty
    BY DEF PollProperty, SkipStep, SkipProperty, FinishTick
  <1>4. RetryLater \/ BackoffElapses \/ AbandonStep => UNCHANGED perProperty
    BY DEF RetryLater, BackoffElapses, AbandonStep, AbandonTick
  <1>5. StopOnCancel \/ Advance \/ Rotate \/ Cancel => UNCHANGED perProperty
    BY DEF StopOnCancel, Advance, Rotate, Cancel, pollerVars
  <1>6. KeepStep => UNCHANGED snap
    BY DEF KeepStep, KeepProperty
  <1> QED
    BY <1>1, <1>2, <1>3, <1>4, <1>5, <1>6, FineKinds

\* YesterdayKWh does not change within a property's day.
THEOREM YesterdayStableHolds == Spec => YesterdayStable
  <1> DEFINE Remembered(p) ==
                perProperty'[p].seen = perProperty[p].seen =>
                    perProperty'[p].yesterday = perProperty[p].yesterday
             Shown(p) ==
                snap'.properties[p].today = perProperty[p].seen =>
                    snap'.properties[p].yesterday = perProperty[p].yesterday
  <1>1. ASSUME IInv, [Next]_vars
        PROVE  [\A p \in Property :
                  perProperty[p].seen # 0 =>
                      /\ perProperty'[p].seen = perProperty[p].seen =>
                            perProperty'[p].yesterday = perProperty[p].yesterday
                      /\ snap'.properties[p].today = perProperty[p].seen =>
                            snap'.properties[p].yesterday = perProperty[p].yesterday
               ]_<<perProperty, snap>>
    <2> SUFFICES ASSUME Next, NEW p \in Property, perProperty[p].seen # 0
                 PROVE  Remembered(p) /\ Shown(p)
      BY <1>1 DEF vars
    <2>1. Remembered(p)
      <3>1. CASE KeepStep
        <4>1. PICK y \in Nat :
                 /\ prop \in Property
                 /\ perProperty'[prop] = [seen |-> Today(prop), yesterday |-> y]
                 /\ \A q \in Property \ {prop} : perProperty'[q] = perProperty[q]
                 /\ ~NeedYesterday(prop) => y = perProperty[prop].yesterday
          BY <1>1, <3>1, KeepStepEffect
        <4>2. perProperty[prop].seen = Today(prop) => y = perProperty[prop].yesterday
          BY <4>1 DEF NeedYesterday
        <4> QED
          BY <4>1, <4>2
      <3>2. CASE UNCHANGED perProperty
        BY <3>2
      <3> QED
        BY <1>1, <3>1, <3>2, MemorySteps
    <2>2. Shown(p)
      <3>0. snap.properties[p].today = perProperty[p].seen =>
               snap.properties[p].yesterday = perProperty[p].yesterday
        <4>1. snap.properties[p] = Absent => snap.properties[p].today = 0
          BY DEF Absent
        <4> QED
          BY <1>1, <4>1 DEF IInv, Days
      <3>1. CASE TickExpired \/ AbandonStep
        <4>1. snap'.properties = snap.properties
          BY <3>1 DEF TickExpired, AbandonStep, AbandonTick, RecordTickFailure
        <4> QED
          BY <3>0, <4>1
      <3>2. CASE FinishTick
        <4>1. snap'.properties = propSnaps /\ pc = "polling"
          BY <3>2 DEF FinishTick, RecordTickResult
        <4>2. ASSUME propSnaps[p].today = perProperty[p].seen
              PROVE  propSnaps[p].yesterday = perProperty[p].yesterday
          <5>1. propSnaps[p] # Absent
            BY <4>2 DEF Absent
          <5>2. perProperty[p] = [seen |-> Today(p), yesterday |-> propSnaps[p].yesterday]
            BY <1>1, <4>1, <5>1 DEF IInv, TickResults, InProduction
          <5> QED
            BY <5>2
        <4> QED
          BY <4>1, <4>2
      <3>3. CASE UNCHANGED snap
        BY <3>0, <3>3
      <3> QED
        BY <1>1, <3>1, <3>2, <3>3, SnapshotSteps
    <2> QED
      BY <2>1, <2>2
  <1> QED
    BY <1>1, Invariance, PTL DEF Spec, YesterdayStable

\* A tick that reports failure earned it.
THEOREM FailureIsEarnedHolds == Spec => FailureIsEarned
  <1> DEFINE Deserved ==
        \/ snap'.ok \/ snap'.authFailed \/ cancelled
        \/ \E p \in Selected(propertyMeta) : propertyMeta[p] = "badZone"
        \/ \E o \in Op \ {"get-production-daily"} :
              scrapeErrors'[o] - snap.scrapeErrors[o] >= MaxAttempts
  <1>1. ASSUME IInv, [Next]_vars PROVE [Deserved]_snap
    <2>1. CASE TickExpired
      BY <2>1 DEF TickExpired, RecordTickFailure
    <2>2. CASE AbandonStep /\ Earned
      BY <2>2 DEF AbandonStep, AbandonTick, RecordTickFailure, Earned
    <2>3. CASE FinishTick
      <3>1. /\ snap'.ok = ~firstErr /\ pc = "polling" /\ UNCHANGED scrapeErrors
            /\ firstErr \in BOOLEAN
        BY <1>1, <2>3 DEF FinishTick, RecordTickResult, IInv, TypeOK
      <3>2. CASE firstErr
        BY <1>1, <3>1, <3>2 DEF IInv, AttemptsCounted, InProduction
      <3> QED
        BY <3>1, <3>2
    <2>4. CASE UNCHANGED snap
      BY <2>4
    <2> QED
      BY <1>1, <2>1, <2>2, <2>3, <2>4, SnapshotSteps DEF vars
  <1> QED
    BY <1>1, Invariance, PTL DEF Spec, FailureIsEarned

\* The loop implements the feed its readers rely on.
THEOREM Refinement == Spec => ReadersAreServed
  <1>1. Init => Feed!FeedInit
    BY DEF Init, Feed!FeedInit, NoErrors, NoSnaps
  <1>2. ASSUME IInv, [Next]_vars
        PROVE  [Feed!FeedNext]_([ok |-> snap.ok, authFailed |-> snap.authFailed,
                                 lastPollAt |-> snap.lastPollAt,
                                 lastSuccessAt |-> snap.lastSuccessAt,
                                 properties |-> snap.properties,
                                 scrapeErrors |-> snap.scrapeErrors])
    <2>0. /\ snap.scrapeErrors \in [Op -> Nat] /\ scrapeErrors \in [Op -> Nat]
          /\ \A o \in Op : /\ snap.scrapeErrors[o] \in Nat /\ scrapeErrors[o] \in Nat
                           /\ snap.scrapeErrors[o] <= scrapeErrors[o]
      BY <1>2 DEF IInv, TypeOK, Snapshot, Counters
    <2>1. CASE TickExpired \/ AbandonStep
      <3>1. /\ snap'.properties = snap.properties /\ ~snap'.ok
            /\ snap'.lastSuccessAt = snap.lastSuccessAt
            /\ \A o \in Op : snap'.scrapeErrors[o] >= snap.scrapeErrors[o]
        <4>1. CASE TickExpired
          BY <2>0, <4>1 DEF TickExpired, RecordTickFailure
        <4>2. CASE AbandonStep
          <5>1. /\ snap'.scrapeErrors = scrapeErrors'
                /\ snap'.properties = snap.properties /\ ~snap'.ok
                /\ snap'.lastSuccessAt = snap.lastSuccessAt
            BY <4>2 DEF AbandonStep, AbandonTick, RecordTickFailure
          <5>2. \A o \in Op : scrapeErrors'[o] \in Nat /\ scrapeErrors'[o] >= scrapeErrors[o]
            BY <1>2, <4>2, NextType DEF AbandonStep, IInv, TypeOK
          <5> QED
            BY <2>0, <5>1, <5>2
        <4> QED
          BY <2>1, <4>1, <4>2
      <3>2. Feed!Publish
        BY <1>2, <2>0, <2>1, <3>1, PublicationTimes DEF Feed!Publish
      <3> QED
        BY <3>1, <3>2 DEF Feed!FeedNext, Feed!PublishFailure
    <2>2. CASE FinishTick
      <3>1. /\ snap'.properties = propSnaps /\ pc = "polling"
            /\ snap'.ok = ~firstErr /\ snap'.authFailed = authFailed
            /\ snap'.lastPollAt = now
            /\ snap'.lastSuccessAt = IF firstErr THEN snap.lastSuccessAt ELSE now
            /\ snap'.scrapeErrors = scrapeErrors
        BY <2>2 DEF FinishTick, RecordTickResult
      <3>2. ~snap'.authFailed
        BY <1>2, <3>1 DEF IInv, SessionState, HaltIsFinal
      <3>3. Feed!Publish
        BY <1>2, <2>0, <2>2, <3>1, PublicationTimes DEF Feed!Publish
      <3>4. ASSUME NEW p \in Property PROVE Feed!Follows(snap.properties[p], propSnaps[p])
        <4>1. CASE propSnaps[p] # Absent /\ snap.properties[p] # Absent
          <5>1. /\ propSnaps[p].today = perProperty[p].seen
                /\ propSnaps[p].yesterday = perProperty[p].yesterday
            <6>1. /\ propSnaps[p].today = Today(p)
                  /\ perProperty[p] = [seen |-> Today(p), yesterday |-> propSnaps[p].yesterday]
              BY <1>2, <3>1, <4>1 DEF IInv, TickResults, InProduction
            <6> QED
              BY <6>1
          <5>2. snap.properties[p].today \in Nat /\ perProperty[p].seen \in Nat
            BY <1>2, <4>1 DEF IInv, TypeOK, Snapshot, PropertySnapshot, PropertyState, Day
          <5>3. /\ snap.properties[p].today <= perProperty[p].seen
                /\ snap.properties[p].today = perProperty[p].seen =>
                      snap.properties[p].yesterday = perProperty[p].yesterday
            BY <1>2, <4>1 DEF IInv, Days
          <5> QED
            BY <5>1, <5>2, <5>3 DEF Feed!Follows
        <4> QED
          BY <4>1 DEF Feed!Follows
      <3>5. snap'.lastSuccessAt = IF snap'.ok THEN snap'.lastPollAt ELSE snap.lastSuccessAt
        BY <1>2, <3>1 DEF IInv, TypeOK
      <3> QED
        BY <3>1, <3>2, <3>3, <3>4, <3>5 DEF Feed!FeedNext, Feed!PublishResult
    <2>3. CASE UNCHANGED snap
      BY <2>3
    <2> QED
      BY <1>2, <2>1, <2>2, <2>3, SnapshotSteps DEF vars
  <1> QED
    BY <1>1, <1>2, Invariance, PTL DEF Spec, ReadersAreServed, Feed!FeedSpec

-----------------------------------------------------------------------------
(* What the provider of the cookies is promised                             *)

\* The loop implements TickLoop, whatever becomes of the calls of its ticks.
THEOREM LoopRefinement == Spec => LoopIsATickLoop
  <1> USE DEF Stage
  <1>1. Init => Loop!Init
    BY ExpiriesAssumption DEF Init, Loop!Init
  <1>2. ASSUME IInv, [Next]_vars
        PROVE  [Loop!Step(clock, token)]_(Loop!vars)
    <2> USE DEF InTick, BetweenTicks
    <2>0. TypeOK /\ HaltIsFinal
      BY <1>2 DEF IInv, SessionState
    <2>1. CASE TickExpired
      <3>1. Loop!Expired(sessionExpiresAt', clock)
        BY <2>1 DEF TickExpired, Expired, Loop!Expired
      <3> QED
        BY <2>1, <3>1 DEF TickExpired, StartTick, ReturnToRun, Loop!Step, Loop!BeginTick
    <2>2. CASE TickRefreshing
      <3>1. ~Loop!Expired(sessionExpiresAt', clock)
        BY <2>2 DEF TickRefreshing, Expired, Loop!Expired
      <3> QED
        BY <2>2, <3>1 DEF TickRefreshing, StartTick, Invoke, Loop!Step, Loop!BeginTick
    <2>3. CASE TickReusing
      <3>1. ~Loop!Expired(sessionExpiresAt', clock)
        BY <2>3 DEF TickReusing, Expired, Loop!Expired
      <3> QED
        BY <2>3, <3>1 DEF TickReusing, StartTick, BeginProperties, Loop!Step, Loop!BeginTick
    <2>4. CASE InTickStep
      BY <2>4 DEF InTickStep, Loop!vars
    <2>5. CASE AbandonStep
      BY <2>0, <2>5
         DEF AbandonStep, AbandonTick, ReturnToRun, Loop!Step, Loop!EndTick, Loop!Refused
    <2>6. CASE FinishTick
      BY <2>0, <2>6 DEF HaltIsFinal, FinishTick, ReturnToRun, Loop!Step, Loop!EndTick
    <2>7. CASE StopOnCancel
      BY <2>0, <2>7 DEF HaltIsFinal, StopOnCancel, Loop!Step, Loop!Stop
    <2>8. CASE Advance \/ Rotate \/ Cancel
      BY <2>8 DEF Advance, Rotate, Cancel, Loop!vars
    <2>9. CASE UNCHANGED vars
      BY <2>9 DEF vars, Loop!vars
    <2> QED
      BY <1>2, <2>1, <2>2, <2>3, <2>4, <2>5, <2>6, <2>7, <2>8, <2>9, StepKinds
  <1> QED
    BY <1>1, <1>2, Invariance, PTL DEF Spec, LoopIsATickLoop

-----------------------------------------------------------------------------
(* Inverters                                                                *)

\* What a tick has gathered shows an inverter exactly where one is known, and
\* what is published never more.
GatheredInverters ==
    InProduction =>
        \A p \in Property :
            propSnaps[p] # Absent => propSnaps[p].inverter = (p \in inverters)
PublishedInverters == \A p \in Property : snap.properties[p].inverter => p \in inverters

\* No step forgets an inverter, and none learns of one while it polls.
LEMMA InvertersKept ==
    ASSUME IInv, Next
    PROVE  /\ inverters \subseteq inverters'
           /\ InProduction /\ InProduction' => inverters' = inverters
  <1>1. GotAccountInfo => inverters \subseteq inverters' /\ ~InProduction
    BY DEF GotAccountInfo, Answers, InProduction
  <1>2. TickExpired \/ TickRefreshing \/ TickReusing => inverters' = inverters
    BY DEF TickExpired, TickRefreshing, TickReusing
  <1>3. GotProperties \/ GotHourlyNewDay => inverters' = inverters
    BY DEF GotProperties, GotHourlyNewDay
  <1>4. (\E p \in Property : PollProperty(p)) \/ SkipStep \/ KeepStep => inverters' = inverters
    BY DEF PollProperty, SkipStep, SkipProperty, KeepStep, KeepProperty
  <1>5. RetryLater \/ BackoffElapses \/ AbandonStep \/ FinishTick => inverters' = inverters
    BY DEF RetryLater, BackoffElapses, AbandonStep, AbandonTick, FinishTick
  <1>6. StopOnCancel \/ Advance \/ Rotate \/ Cancel => inverters' = inverters
    BY DEF StopOnCancel, Advance, Rotate, Cancel
  <1> QED
    BY <1>1, <1>2, <1>3, <1>4, <1>5, <1>6, FineKinds

\* What has been gathered changes by a kept property only.
LEMMA GatheringSteps ==
    ASSUME IInv, Next, InProduction'
    PROVE  \/ propSnaps' = NoSnaps
           \/ InProduction /\ propSnaps' = propSnaps
           \/ InProduction /\ KeepStep
  <1> USE DEF InProduction
  <1>0. TypeOK
    BY DEF IInv
  <1>1. CASE TickExpired
    BY <1>1 DEF TickExpired, ReturnToRun, EndCall
  <1>2. CASE TickRefreshing
    BY <1>2 DEF TickRefreshing, Invoke
  <1>3. CASE TickReusing \/ GotAccountInfo
    BY <1>3 DEF TickReusing, GotAccountInfo, BeginProperties
  <1>4. CASE GotProperties
    BY <1>4 DEF GotProperties, Invoke
  <1>5. CASE GotHourlyNewDay
    BY <1>5 DEF GotHourlyNewDay, Answers
  <1>6. ASSUME NEW p \in Property, PollProperty(p) PROVE InProduction /\ propSnaps' = propSnaps
    BY <1>6 DEF PollProperty
  <1>7. CASE KeepStep
    BY <1>7 DEF KeepStep
  <1>8. CASE SkipStep
    BY <1>8 DEF SkipStep, SkipProperty, PollBadZone
  <1>9. CASE RetryLater \/ BackoffElapses
    BY <1>0, <1>9 DEF RetryLater, AttemptFails, BackoffElapses, TypeOK
  <1>10. CASE AbandonStep \/ FinishTick
    BY <1>10 DEF AbandonStep, AbandonTick, FinishTick, ReturnToRun, EndCall
  <1>11. CASE StopOnCancel
    BY <1>11 DEF StopOnCancel
  <1>12. CASE Advance \/ Rotate \/ Cancel
    BY <1>12 DEF Advance, Rotate, Cancel
  <1> QED
    BY <1>1, <1>2, <1>3, <1>4, <1>5, <1>6, <1>7, <1>8, <1>9, <1>10, <1>11, <1>12, FineKinds

LEMMA GatheredInvertersStep ==
    ASSUME IInv, GatheredInverters, Next
    PROVE  GatheredInverters'
  <1> SUFFICES ASSUME InProduction', NEW p \in Property, propSnaps'[p] # Absent
               PROVE  propSnaps'[p].inverter = (p \in inverters')
    BY DEF GatheredInverters
  <1>1. CASE propSnaps' = NoSnaps
    BY <1>1 DEF NoSnaps
  <1>2. CASE InProduction /\ propSnaps' = propSnaps
    <2>1. inverters' = inverters
      BY <1>2, InvertersKept
    <2> QED
      BY <1>2, <2>1, Zenon DEF GatheredInverters
  <1>3. CASE InProduction /\ KeepStep
    <2>1. inverters' = inverters
      BY <1>3, InvertersKept
    <2>2. PICK y \in Nat : KeepProperty(prop, y)
      BY <1>3 DEF KeepStep
    <2>3. propSnaps' = [propSnaps EXCEPT
                          ![prop] = [today |-> Today(prop), yesterday |-> y,
                                     inverter |-> prop \in inverters]]
      BY <2>2 DEF KeepProperty
    <2>4. DOMAIN propSnaps = Property
      BY DEF IInv, TypeOK
    <2>5. CASE p = prop
      <3>1. propSnaps'[p] = [today |-> Today(prop), yesterday |-> y,
                             inverter |-> prop \in inverters]
        BY <2>3, <2>4, <2>5, Zenon
      <3>2. propSnaps'[p].inverter = (prop \in inverters)
        BY <3>1
      <3> QED
        BY <2>1, <2>5, <3>2, Zenon
    <2>6. CASE p # prop
      <3>1. propSnaps'[p] = propSnaps[p]
        BY <2>3, <2>4, <2>6
      <3> QED
        BY <1>3, <2>1, <3>1, Zenon DEF GatheredInverters
    <2> QED
      BY <2>5, <2>6
  <1> QED
    BY <1>1, <1>2, <1>3, GatheringSteps

\* What a step publishes is what was gathered or what was there before.
LEMMA PublishedProperties ==
    ASSUME IInv, Next
    PROVE  \/ FinishTick /\ snap'.properties = propSnaps
           \/ snap'.properties = snap.properties
  <1>1. TickExpired => snap'.properties = snap.properties
    BY DEF TickExpired, RecordTickFailure
  <1>2. AbandonStep => snap'.properties = snap.properties
    BY DEF AbandonStep, AbandonTick, RecordTickFailure
  <1>3. FinishTick => snap'.properties = propSnaps
    BY DEF FinishTick, RecordTickResult
  <1> QED
    BY <1>1, <1>2, <1>3, SnapshotSteps

\* A tick that finishes shows an inverter exactly where one is known.
LEMMA FinishedInverters ==
    ASSUME IInv, GatheredInverters, FinishTick, NEW p \in Property,
           snap'.properties = propSnaps
    PROVE  /\ snap'.properties[p] # Absent =>
                  snap'.properties[p].inverter = (p \in inverters)
           /\ snap'.properties[p].inverter => p \in inverters
  <1>1. InProduction
    BY DEF FinishTick, InProduction
  <1>2. propSnaps[p] # Absent => propSnaps[p].inverter = (p \in inverters)
    BY <1>1, Zenon DEF GatheredInverters
  <1>3. propSnaps[p] = Absent => ~propSnaps[p].inverter
    BY DEF Absent
  <1> QED
    BY <1>2, <1>3, Zenon

LEMMA PublishedInvertersStep ==
    ASSUME IInv, GatheredInverters, PublishedInverters, Next
    PROVE  PublishedInverters'
  <1> SUFFICES ASSUME NEW p \in Property, snap'.properties[p].inverter
               PROVE  p \in inverters'
    BY DEF PublishedInverters
  <1>1. inverters \subseteq inverters'
    BY InvertersKept
  <1>2. CASE FinishTick /\ snap'.properties = propSnaps
    BY <1>1, <1>2, FinishedInverters
  <1>3. CASE snap'.properties = snap.properties
    BY <1>1, <1>3 DEF PublishedInverters
  <1> QED
    BY <1>2, <1>3, PublishedProperties

\* A property once shown with its inverter is never shown without it.
THEOREM InverterSticksHolds == Spec => InverterSticks
  <1> DEFINE Known == GatheredInverters /\ PublishedInverters
  <1>1. Init => Known
    BY DEF Init, GatheredInverters, PublishedInverters, InProduction, NoSnaps, Absent
  <1>2. ASSUME IInv, Known, [Next]_vars PROVE Known'
    <2>1. CASE Next
      BY <1>2, <2>1, GatheredInvertersStep, PublishedInvertersStep
    <2>2. CASE UNCHANGED vars
      BY <1>2, <2>2 DEF vars, GatheredInverters, PublishedInverters, InProduction
    <2> QED
      BY <1>2, <2>1, <2>2
  <1>3. ASSUME IInv, Known, [Next]_vars
        PROVE  [\A p \in Property :
                  snap.properties[p].inverter /\ snap'.properties[p] # Absent =>
                      snap'.properties[p].inverter]_snap
    <2> SUFFICES ASSUME snap' # snap, NEW p \in Property, snap.properties[p].inverter,
                        snap'.properties[p] # Absent
                 PROVE  snap'.properties[p].inverter
      OBVIOUS
    <2>1. Next
      BY <1>3 DEF vars
    <2>2. p \in inverters
      BY <1>3 DEF PublishedInverters
    <2>3. CASE FinishTick /\ snap'.properties = propSnaps
      BY <1>3, <2>2, <2>3, FinishedInverters, Zenon
    <2>4. CASE snap'.properties = snap.properties
      BY <2>4
    <2> QED
      BY <1>3, <2>1, <2>3, <2>4, PublishedProperties
  <1> QED
    BY <1>1, <1>2, <1>3, Invariance, PTL DEF Spec, InverterSticks

-----------------------------------------------------------------------------
(* Retries                                                                  *)

\* Failures of a call counted since the last tick was published.
Spent(o) == scrapeErrors[o] - snap.scrapeErrors[o]

\* Attempts of the call under way that have failed.
Failed == IF pc = "calling" THEN attempt - 1 ELSE attempt

\* The properties the tick is done with, and what they may have cost.
Dealt == (Selected(propertyMeta) \ todo) \ {prop}
Allowed == MaxAttempts * Cardinality(Dealt)

AttemptBudget ==
    /\ pc = "calling" => attempt \in 1 .. MaxAttempts
    /\ pc = "backoff" => attempt \in 1 .. MaxAttempts - 1

MetadataBudget ==
    /\ \A o \in MetadataOps : Spent(o) <= IF op = o THEN Failed ELSE MaxAttempts
    /\ op = "get-properties" => Spent("get-account-info") <= 0
    /\ op \in MetadataOps => \A o \in ProductionOps : Spent(o) <= 0

\* The daily request of a property comes after its hourly one has answered.
ProductionBudget ==
    InProduction =>
        /\ op = "get-production-hourly" =>
              /\ Spent("get-production-hourly") <= Allowed + Failed
              /\ Spent("get-production-daily") <= Allowed
        /\ op = "get-production-daily" =>
              /\ Spent("get-production-hourly") <= Allowed + MaxAttempts
              /\ Spent("get-production-daily") <= Allowed + Failed
        /\ op \notin ProductionOps => \A o \in ProductionOps : Spent(o) <= Allowed

Budget == AttemptBudget /\ MetadataBudget /\ ProductionBudget

LEMMA OneMore ==
    ASSUME NEW S \in SUBSET Property, NEW p, p \notin S
    PROVE  /\ Cardinality(S) \in Nat
           /\ MaxAttempts * Cardinality(S) \in Nat
           /\ MaxAttempts * Cardinality(S \cup {p}) = MaxAttempts * Cardinality(S) + MaxAttempts
  <1>1. IsFiniteSet(S)
    BY FinitePropertyAssumption, FS_Subset
  <1>2. Cardinality(S) \in Nat /\ Cardinality(S \cup {p}) = Cardinality(S) + 1
    BY <1>1, FS_CardinalityType, FS_AddElement
  <1>3. \A n \in Nat : MaxAttempts * n \in Nat /\ MaxAttempts * (n + 1) = MaxAttempts * n + MaxAttempts
    BY TimingAssumption
  <1> QED
    BY <1>2, <1>3

\* What a step in a tick changes is seen by the budget through these.
LEMMA BudgetFacts ==
    ASSUME IInv
    PROVE  /\ \A o \in Op : scrapeErrors[o] \in Nat /\ snap.scrapeErrors[o] \in Nat
           /\ attempt \in Nat /\ MaxAttempts \in Nat \ {0}
           /\ Dealt \in SUBSET Property /\ Allowed \in Nat
           /\ prop \notin Dealt
           /\ BetweenTicks => op = "none" /\ \A o \in Op : Spent(o) = 0
  <1>1. /\ \A o \in Op : scrapeErrors[o] \in Nat /\ snap.scrapeErrors[o] \in Nat
        /\ attempt \in Nat /\ MaxAttempts \in Nat \ {0}
    BY TimingAssumption DEF IInv, TypeOK, Snapshot
  <1>2. Dealt \in SUBSET Property /\ prop \notin Dealt
    BY DEF Dealt, Selected
  <1>3. Allowed \in Nat
    BY <1>2, OneMore DEF Allowed
  <1>4. BetweenTicks => op = "none" /\ \A o \in Op : Spent(o) = 0
    BY <1>1 DEF IInv, ProgramShape, Counters, CountersPublished, BetweenTicks, Spent
  <1> QED
    BY <1>1, <1>2, <1>3, <1>4

\* Between ticks nothing has been spent.
LEMMA BudgetBetweenTicks == IInv /\ BetweenTicks => Budget
  BY BudgetFacts DEF Budget, AttemptBudget, MetadataBudget, ProductionBudget, InProduction,
                     BetweenTicks

\* A tick begins, with or without a refresh.
LEMMA BudgetAtStart ==
    ASSUME IInv, TickRefreshing \/ TickReusing
    PROVE  Budget'
  <1>1. /\ BetweenTicks /\ UNCHANGED <<scrapeErrors, snap>>
        /\ \A o \in Op : Spent(o)' = 0
    <2>1. BetweenTicks /\ UNCHANGED <<scrapeErrors, snap>>
      BY DEF TickRefreshing, TickReusing, StartTick, BetweenTicks
    <2> QED
      BY <2>1, BudgetFacts DEF Spent
  <1>2. CASE TickRefreshing
    BY <1>1, <1>2, BudgetFacts DEF TickRefreshing, Invoke, Budget, AttemptBudget,
       MetadataBudget, ProductionBudget, InProduction, Failed
  <1>3. CASE TickReusing
    <2>1. op' = "none" /\ pc' = "polling"
      BY <1>1, <1>3, BudgetFacts DEF TickReusing, BeginProperties
    <2>2. Allowed' \in Nat
      <3>1. Dealt' \in SUBSET Property /\ prop' \notin Dealt'
        BY DEF Dealt, Selected
      <3> QED
        BY <3>1, OneMore DEF Allowed
    <2> QED
      BY <1>1, <2>1, <2>2, BudgetFacts DEF Budget, AttemptBudget, MetadataBudget,
         ProductionBudget, InProduction
  <1> QED
    BY <1>2, <1>3

\* refreshMetadata goes on to its second call, or returns.
LEMMA BudgetOfMetadata ==
    ASSUME IInv, Budget, GotProperties \/ GotAccountInfo
    PROVE  Budget'
  <1>1. /\ op \in MetadataOps /\ pc = "calling"
        /\ UNCHANGED <<scrapeErrors, snap>>
        /\ \A o \in Op : Spent(o)' = Spent(o) /\ Spent(o) \in Int
        /\ Failed \in Int /\ Failed <= MaxAttempts
    <2>1. op \in MetadataOps /\ pc = "calling" /\ UNCHANGED <<scrapeErrors, snap>>
      BY DEF GotProperties, GotAccountInfo, Answers
    <2> QED
      BY <2>1, BudgetFacts DEF Spent, Failed, Budget, AttemptBudget
  <1>2. CASE GotProperties
    <2>1. op = "get-properties" /\ op' = "get-account-info" /\ pc' = "calling" /\ attempt' = 1
      BY <1>2 DEF GotProperties, Answers, Invoke
    <2> QED
      BY <1>1, <2>1, BudgetFacts DEF Budget, AttemptBudget, MetadataBudget, ProductionBudget,
         InProduction, Failed
  <1>3. CASE GotAccountInfo
    <2>1. op = "get-account-info" /\ op' = "none" /\ pc' = "polling"
      BY <1>3 DEF GotAccountInfo, Answers, BeginProperties, EndCall
    <2>2. Allowed' \in Nat
      <3>1. Dealt' \in SUBSET Property /\ prop' \notin Dealt'
        BY DEF Dealt, Selected
      <3> QED
        BY <3>1, OneMore DEF Allowed
    <2> QED
      BY <1>1, <2>1, <2>2, BudgetFacts DEF Budget, AttemptBudget, MetadataBudget,
         ProductionBudget, InProduction
  <1> QED
    BY <1>2, <1>3

LEMMA BudgetOfAnother ==
    ASSUME IInv, NEW p \in Property, p \notin Dealt, Dealt' = Dealt \cup {p}
    PROVE  Allowed' = Allowed + MaxAttempts
  BY BudgetFacts, OneMore DEF Allowed

\* pollProperty returns, whether its last call has answered or failed.
LEMMA BudgetOfProperty ==
    ASSUME IInv, Budget, op \in ProductionOps, pc' = "polling", EndCall,
           UNCHANGED <<todo, propertyMeta, snap>>,
           \/ UNCHANGED scrapeErrors
           \/ pc = "calling" /\ scrapeErrors' = [scrapeErrors EXCEPT ![op] = @ + 1]
    PROVE  Budget'
  <1>1. prop \in Property /\ prop \notin Dealt /\ Dealt' = Dealt \cup {prop}
    <2>1. prop \in Selected(propertyMeta) \ todo
      BY DEF IInv, ProgramShape
    <2>2. prop' = NoProperty /\ NoProperty \notin Selected(propertyMeta)
      BY PropertyAssumption DEF EndCall, Selected
    <2>3. Selected(propertyMeta)' = Selected(propertyMeta)
      BY DEF Selected
    <2> QED
      BY <2>1, <2>2, <2>3 DEF Dealt, Selected
  <1>2. Allowed' = Allowed + MaxAttempts
    BY <1>1, BudgetOfAnother
  <1>3. /\ Failed \in Int /\ Failed <= MaxAttempts
        /\ pc = "calling" => Failed + 1 <= MaxAttempts
    <2>1. pc \in {"calling", "backoff"}
      BY DEF IInv, ProgramShape
    <2> QED
      BY <2>1, BudgetFacts DEF Failed, Budget, AttemptBudget
  <1>4. \A o \in Op : /\ Spent(o) \in Int /\ Spent(o)' \in Int
                      /\ Spent(o)' = Spent(o)
                            \/ (o = op /\ pc = "calling" /\ Spent(o)' = Spent(o) + 1)
    <2>1. scrapeErrors \in [Op -> Nat]
      BY DEF IInv, TypeOK
    <2> QED
      BY <2>1, BudgetFacts DEF Spent
  <1>5. op' = "none" /\ InProduction /\ InProduction'
    BY DEF EndCall, InProduction
  <1>6. MetadataBudget'
    BY <1>4, <1>5, BudgetFacts DEF Budget, MetadataBudget
  <1>7. ProductionBudget'
    <2>1. Allowed \in Nat /\ MaxAttempts \in Nat
      BY BudgetFacts
    <2> QED
      BY <1>2, <1>3, <1>4, <1>5, <2>1 DEF Budget, ProductionBudget
  <1> QED
    BY <1>6, <1>7 DEF Budget, AttemptBudget

LEMMA BudgetOfRetry ==
    ASSUME IInv, Budget, RetryLater \/ BackoffElapses
    PROVE  Budget'
  <1>1. CASE RetryLater
    <2>1. /\ op \in Op /\ pc = "calling" /\ pc' = "backoff" /\ attempt < MaxAttempts
          /\ UNCHANGED <<op, prop, attempt, todo, propertyMeta, snap>>
          /\ scrapeErrors' = [scrapeErrors EXCEPT ![op] = @ + 1]
      BY <1>1 DEF RetryLater, AttemptFails, IInv, ProgramShape, TypeOK
    <2>2. /\ Failed \in Int /\ Failed' = Failed + 1
          /\ Dealt' = Dealt /\ Allowed' = Allowed /\ (InProduction' <=> InProduction)
      BY <2>1, BudgetFacts DEF Failed, Dealt, Allowed, Selected, InProduction
    <2>3. \A o \in Op : /\ Spent(o) \in Int /\ Spent(o)' \in Int
                        /\ Spent(o)' = IF o = op THEN Spent(o) + 1 ELSE Spent(o)
      <3>1. scrapeErrors \in [Op -> Nat]
        BY DEF IInv, TypeOK
      <3> QED
        BY <2>1, <3>1, BudgetFacts DEF Spent
    <2>4. AttemptBudget'
      BY <2>1, BudgetFacts DEF Budget, AttemptBudget
    <2>5. MetadataBudget'
      BY <2>1, <2>2, <2>3 DEF Budget, MetadataBudget
    <2>6. ProductionBudget'
      <3>1. Allowed \in Nat /\ MaxAttempts \in Nat
        BY BudgetFacts
      <3> QED
        BY <2>1, <2>2, <2>3, <3>1 DEF Budget, ProductionBudget
    <2> QED
      BY <2>4, <2>5, <2>6 DEF Budget
  <1>2. CASE BackoffElapses
    <2>1. /\ pc = "backoff" /\ pc' = "calling" /\ attempt' = attempt + 1
          /\ UNCHANGED <<op, prop, todo, propertyMeta, snap, scrapeErrors>>
      BY <1>2 DEF BackoffElapses
    <2>2. /\ Failed' = Failed /\ Dealt' = Dealt /\ Allowed' = Allowed
          /\ (InProduction' <=> InProduction)
          /\ \A o \in Op : Spent(o)' = Spent(o)
      BY <2>1, BudgetFacts DEF Failed, Dealt, Allowed, Selected, InProduction, Spent
    <2> QED
      BY <2>1, <2>2, BudgetFacts DEF Budget, AttemptBudget, MetadataBudget, ProductionBudget
  <1> QED
    BY <1>1, <1>2

\* pollProperty makes its next call, the first or the second.
LEMMA BudgetOfNextCall ==
    ASSUME IInv, Budget, GotHourlyNewDay \/ \E p \in Property : PollProperty(p)
    PROVE  Budget'
  <1>1. CASE GotHourlyNewDay
    <2>1. /\ op = "get-production-hourly" /\ op' = "get-production-daily"
          /\ pc = "calling" /\ pc' = "calling" /\ attempt' = 1
          /\ UNCHANGED <<prop, todo, propertyMeta, snap, scrapeErrors>>
      BY <1>1 DEF GotHourlyNewDay, Answers, Invoke
    <2>2. /\ Failed' = 0 /\ Failed \in Int /\ Failed <= MaxAttempts
          /\ Dealt' = Dealt /\ Allowed' = Allowed
          /\ \A o \in Op : Spent(o)' = Spent(o) /\ Spent(o) \in Int
      BY <2>1, BudgetFacts DEF Failed, Dealt, Allowed, Selected, Spent, Budget, AttemptBudget
    <2> QED
      BY <2>1, <2>2, BudgetFacts DEF Budget, AttemptBudget, MetadataBudget, ProductionBudget,
         InProduction
  <1>2. ASSUME NEW p \in Property, PollProperty(p) PROVE Budget'
    <2>1. /\ pc = "polling" /\ pc' = "calling" /\ op' = "get-production-hourly" /\ attempt' = 1
          /\ prop' = p /\ p \in todo /\ todo' = todo \ {p}
          /\ UNCHANGED <<propertyMeta, snap, scrapeErrors>>
      BY <1>2 DEF PollProperty, Invoke
    <2>2. op = "none" /\ prop = NoProperty /\ InProduction
      BY <2>1 DEF IInv, ProgramShape, InProduction
    <2>3. Dealt' = Dealt
      <3>1. NoProperty \notin Selected(propertyMeta) /\ Selected(propertyMeta)' = Selected(propertyMeta)
        BY <2>1, PropertyAssumption DEF Selected
      <3> QED
        BY <2>1, <2>2, <3>1 DEF Dealt
    <2>4. Failed' = 0 /\ Allowed' = Allowed /\ \A o \in Op : Spent(o)' = Spent(o)
      BY <2>1, <2>3 DEF Failed, Allowed, Spent
    <2> QED
      BY <2>1, <2>2, <2>4, BudgetFacts DEF Budget, AttemptBudget, MetadataBudget,
         ProductionBudget
  <1> QED
    BY <1>1, <1>2

\* A zone that is unknown costs nothing.
LEMMA BudgetOfBadZone ==
    ASSUME IInv, Budget, NEW p \in Property, PollBadZone(p)
    PROVE  Budget'
  <1>1. /\ pc = "polling" /\ pc' = "polling" /\ op' = "none" /\ prop' = NoProperty
        /\ p \in todo /\ todo' = todo \ {p}
        /\ UNCHANGED <<propertyMeta, snap, scrapeErrors>>
    BY DEF PollBadZone, SkipProperty, EndCall
  <1>2. op = "none" /\ prop = NoProperty /\ InProduction /\ todo \subseteq Selected(propertyMeta)
    BY <1>1 DEF IInv, ProgramShape, InProduction
  <1>3. p \notin Dealt /\ Dealt' = Dealt \cup {p}
    <2>1. NoProperty \notin Selected(propertyMeta) /\ Selected(propertyMeta)' = Selected(propertyMeta)
      BY <1>1, PropertyAssumption DEF Selected
    <2> QED
      BY <1>1, <1>2, <2>1 DEF Dealt
  <1>4. Allowed' = Allowed + MaxAttempts /\ \A o \in Op : Spent(o)' = Spent(o) /\ Spent(o) \in Int
    BY <1>1, <1>3, BudgetOfAnother, BudgetFacts DEF Spent
  <1> QED
    BY <1>1, <1>2, <1>4, BudgetFacts DEF Budget, AttemptBudget, MetadataBudget, ProductionBudget

\* A call has failed for good: the tick is over, or goes on to another property.
LEMMA BudgetOfFailure ==
    ASSUME IInv, Budget, NEW kind \in {"error", "auth"}, CallFails(kind), ~BetweenTicks',
           \/ UNCHANGED scrapeErrors
           \/ pc = "calling" /\ scrapeErrors' = [scrapeErrors EXCEPT ![op] = @ + 1]
    PROVE  Budget'
  <1>1. CASE \E error \in {"metadata", "property"} : AbandonTick(kind, error)
    BY <1>1 DEF AbandonTick, ReturnToRun, BetweenTicks
  <1>2. CASE op = "get-production-hourly" /\ SkipProperty /\ UNCHANGED todo
    BY <1>2, BudgetOfProperty DEF SkipProperty
  <1>3. CASE op = "get-production-daily" /\ KeepProperty(prop, perProperty[prop].yesterday)
    BY <1>3, BudgetOfProperty DEF KeepProperty
  <1> QED
    BY <1>1, <1>2, <1>3 DEF CallFails

LEMMA BudgetStep ==
    ASSUME IInv, Budget, Next, ~BetweenTicks'
    PROVE  Budget'
  <1>1. CASE TickStarts
    <2>1. ~TickExpired
      BY DEF TickExpired, ReturnToRun, BetweenTicks
    <2> QED
      BY <1>1, <2>1, BudgetAtStart DEF TickStarts
  <1>2. CASE GotProperties \/ GotAccountInfo
    BY <1>2, BudgetOfMetadata
  <1>3. CASE GotHourlySameDay \/ GotDaily
    <2>1. /\ op \in ProductionOps /\ UNCHANGED scrapeErrors
          /\ \E y : KeepProperty(prop, y)
      BY <1>3 DEF GotHourlySameDay, GotDaily, Answers
    <2> QED
      BY <2>1, BudgetOfProperty DEF KeepProperty
  <1>4. CASE GotHourlyNewDay \/ \E p \in Property : PollProperty(p)
    BY <1>4, BudgetOfNextCall
  <1>5. CASE RetryLater \/ BackoffElapses
    BY <1>5, BudgetOfRetry
  <1>6. ASSUME NEW kind \in {"error", "auth"}, GiveUp(kind) PROVE Budget'
    BY <1>6, BudgetOfFailure DEF GiveUp, AttemptFails
  <1>7. CASE BackoffCancelled
    BY <1>7, BudgetOfFailure DEF BackoffCancelled
  <1>8. CASE \E p \in Property : PollBadZone(p)
    BY <1>8, BudgetOfBadZone
  <1>9. CASE FinishTick \/ StopOnCancel
    BY <1>9 DEF FinishTick, StopOnCancel, ReturnToRun, BetweenTicks
  <1>10. CASE Advance \/ Rotate \/ Cancel
    BY <1>10 DEF Advance, Rotate, Cancel, Budget, AttemptBudget, MetadataBudget,
       ProductionBudget, InProduction, Spent, Failed, Allowed, Dealt, Selected
  <1> QED
    BY <1>1, <1>2, <1>3, <1>4, <1>5, <1>6, <1>7, <1>8, <1>9, <1>10
       DEF Next, CallEnds, BackoffEnds, TickGoesOn

LEMMA BudgetSuffices ==
    ASSUME IInv, Budget
    PROVE  RetryPressureBounded
  <1> DEFINE reached == Selected(propertyMeta) \ todo
  <1>1. Failed \in Int /\ (op # "none" => Failed <= MaxAttempts)
    BY BudgetFacts DEF Failed, Budget, AttemptBudget, IInv, ProgramShape
  <1>2. \A o \in Op : Spent(o) \in Int
    BY BudgetFacts DEF Spent
  <1>3. ASSUME NEW o \in MetadataOps PROVE Spent(o) <= MaxAttempts
    BY <1>1, <1>2, BudgetFacts DEF Budget, MetadataBudget
  <1>4. ASSUME InProduction, NEW o \in ProductionOps
        PROVE  Spent(o) <= MaxAttempts * Cardinality(reached)
    <2>1. CASE op \in ProductionOps
      <3>1. reached = Dealt \cup {prop}
        BY <2>1 DEF IInv, ProgramShape, Dealt
      <3>2. MaxAttempts * Cardinality(reached) = Allowed + MaxAttempts
        BY <3>1, BudgetFacts, OneMore DEF Allowed
      <3> QED
        BY <1>1, <1>2, <1>4, <2>1, <3>2, BudgetFacts DEF Budget, ProductionBudget
    <2>2. CASE op \notin ProductionOps
      <3>1. reached = Dealt
        BY <2>2, PropertyAssumption DEF IInv, ProgramShape, Dealt, Selected
      <3> QED
        BY <1>4, <2>2, <3>1 DEF Budget, ProductionBudget, Allowed
    <2> QED
      BY <2>1, <2>2
  <1> QED
    BY <1>3, <1>4 DEF RetryPressureBounded, InProduction, Spent

\* No tick fails more often than its retries allow, for any number of
\* properties and attempts (poller.go:257-277, retry.go:37-49).
THEOREM RetryPressureBoundedHolds == Spec => []RetryPressureBounded
  <1>1. Init => BetweenTicks
    BY DEF Init, BetweenTicks
  <1>2. IInv /\ Budget /\ [Next]_vars /\ ~BetweenTicks' => Budget'
    <2>1. ASSUME IInv, Budget, UNCHANGED vars PROVE Budget'
      BY <2>1 DEF vars, Budget, AttemptBudget, MetadataBudget, ProductionBudget, InProduction,
         Spent, Failed, Allowed, Dealt, Selected
    <2> QED
      BY <2>1, BudgetStep
  <1>3. IInv /\ Budget => RetryPressureBounded
    BY BudgetSuffices
  <1> QED
    BY <1>1, <1>2, <1>3, BudgetBetweenTicks, Invariance, PTL DEF Spec

=============================================================================
