------------------------- MODULE PollerTypeProofs --------------------------
(* The types of Poller's variables, for every account, zone, interval and    *)
(* bound, and the lemmas about the parts of a step they rest on.             *)
EXTENDS PollerInv, TLAPS

USE DEF PropertyAssumption, ListingsAssumption, AnswersAssumption, LocalDayAssumption,
        TimingAssumption, ExpiriesAssumption
USE DEF MetadataOps, ProductionOps, Op

-----------------------------------------------------------------------------
(* Types                                                                    *)

LEMMA TimeFacts ==
    /\ 0 \in Time
    /\ \A t \in Time : t \in Nat /\ (t < MaxClock => t + 1 \in Time)
  BY TimingAssumption DEF Time

LEMMA ReturnToRunType ==
    ASSUME TypeOK, ReturnToRun
    PROVE  /\ pc' \in {"select", "stopped"} /\ timer' \in Nat
           /\ now' \in Time /\ todo' \subseteq Property
           /\ propSnaps' \in [Property -> PropertySnapshot \cup {Absent}]
           /\ firstErr' \in BOOLEAN
           /\ op' \in Op \cup {"none"} /\ prop' \in Property \cup {NoProperty}
           /\ op' \in ProductionOps => prop' \in Property
           /\ attempt' \in Nat /\ doomed' \in BOOLEAN
  <1>1. pc' \in {"select", "stopped"} /\ timer' \in Nat
    BY TimingAssumption, TimeFacts DEF TypeOK, ReturnToRun
  <1>2. now' \in Time /\ todo' \subseteq Property /\ firstErr' \in BOOLEAN
    BY TimeFacts DEF ReturnToRun
  <1>3. propSnaps' \in [Property -> PropertySnapshot \cup {Absent}]
    BY DEF ReturnToRun, NoSnaps
  <1>4. /\ op' \in Op \cup {"none"} /\ prop' \in Property \cup {NoProperty}
        /\ op' \in ProductionOps => prop' \in Property
        /\ attempt' \in Nat /\ doomed' \in BOOLEAN
    BY DEF ReturnToRun, EndCall
  <1> QED
    BY <1>1, <1>2, <1>3, <1>4

LEMMA RecordTickFailureType ==
    ASSUME TypeOK, NEW t \in Time, NEW error \in {"expired", "metadata", "property"},
           RecordTickFailure(t, error),
           authFailed' \in BOOLEAN, sessionExpiresAt' \in Nat,
           scrapeErrors' \in [Op -> Nat]
    PROVE  snap' \in Snapshot
  BY DEF TypeOK, RecordTickFailure, Snapshot

LEMMA RecordTickResultType ==
    ASSUME TypeOK, RecordTickResult
    PROVE  snap' \in Snapshot
  BY DEF TypeOK, RecordTickResult, Snapshot

LEMMA TodayType ==
    ASSUME TypeOK, NEW p \in Property
    PROVE  Today(p) \in Day
  BY LocalDayAssumption DEF TypeOK, Today

LEMMA KeepPropertyType ==
    ASSUME TypeOK, NEW p \in Property, NEW y \in Nat, KeepProperty(p, y)
    PROVE  /\ perProperty' \in [Property -> PropertyState]
           /\ propSnaps' \in [Property -> PropertySnapshot \cup {Absent}]
  <1>1. Today(p) \in Day
    BY TodayType
  <1>2. [seen |-> Today(p), yesterday |-> y] \in PropertyState
    BY <1>1 DEF PropertyState
  <1>3. [today |-> Today(p), yesterday |-> y, inverter |-> p \in inverters]
          \in PropertySnapshot
    BY <1>1 DEF PropertySnapshot
  <1> QED
    BY <1>2, <1>3 DEF KeepProperty, TypeOK

LEMMA InvokeType ==
    ASSUME TypeOK, NEW o \in Op, NEW p \in Property \cup {NoProperty}, Invoke(o, p),
           o \in ProductionOps => p \in Property
    PROVE  /\ pc' = "calling"
           /\ op' \in Op \cup {"none"} /\ prop' \in Property \cup {NoProperty}
           /\ op' \in ProductionOps => prop' \in Property
           /\ attempt' \in Nat /\ doomed' \in BOOLEAN
  BY DEF TypeOK, Invoke

LEMMA BeginPropertiesType ==
    ASSUME TypeOK, BeginProperties
    PROVE  /\ pc' = "polling" /\ todo' \subseteq Property /\ firstErr' \in BOOLEAN
           /\ propSnaps' \in [Property -> PropertySnapshot \cup {Absent}]
  BY DEF TypeOK, BeginProperties, Selected, NoSnaps

LEMMA EndCallType ==
    ASSUME EndCall
    PROVE  /\ op' \in Op \cup {"none"} /\ prop' \in Property \cup {NoProperty}
           /\ op' \in ProductionOps => prop' \in Property
           /\ attempt' \in Nat /\ doomed' \in BOOLEAN
  BY DEF EndCall

LEMMA AbandonTickType ==
    ASSUME TypeOK, NEW kind, NEW error \in {"metadata", "property"},
           AbandonTick(kind, error), scrapeErrors' \in [Op -> Nat],
           authSeen' \in BOOLEAN, UNCHANGED <<clock, token, cancelled>>, faults' \in Nat
    PROVE  TypeOK'
  <1>1. authFailed' \in BOOLEAN /\ sessionExpiresAt' \in Nat
    BY DEF TypeOK, AbandonTick
  <1>2. snap' \in Snapshot
    BY <1>1, RecordTickFailureType DEF TypeOK, AbandonTick
  <1> QED
    BY <1>1, <1>2, ReturnToRunType DEF TypeOK, AbandonTick, metaVars

LEMMA SkipPropertyType ==
    ASSUME TypeOK, SkipProperty, todo' \subseteq Property, scrapeErrors' \in [Op -> Nat],
           authSeen' \in BOOLEAN, UNCHANGED <<clock, token, cancelled>>, faults' \in Nat
    PROVE  TypeOK'
  BY EndCallType DEF TypeOK, SkipProperty, metaVars, sessionVars

LEMMA KeepPropertyKeepsTypes ==
    ASSUME TypeOK, NEW p \in Property, NEW y \in Nat, KeepProperty(p, y),
           scrapeErrors' \in [Op -> Nat],
           authSeen' \in BOOLEAN, UNCHANGED <<clock, token, cancelled>>, faults' \in Nat
    PROVE  TypeOK'
  BY EndCallType, KeepPropertyType DEF TypeOK, KeepProperty, metaVars, sessionVars

\* The types a caller of retryAPI leaves behind when the call fails.
LEMMA CallFailsType ==
    ASSUME TypeOK, NEW kind, CallFails(kind), scrapeErrors' \in [Op -> Nat],
           authSeen' \in BOOLEAN, UNCHANGED <<clock, token, cancelled>>, faults' \in Nat
    PROVE  TypeOK'
  <1>1. CASE op \in MetadataOps /\ AbandonTick(kind, "metadata")
    BY <1>1, AbandonTickType
  <1>2. CASE AbandonTick(kind, "property")
    BY <1>2, AbandonTickType
  <1>3. CASE SkipProperty /\ UNCHANGED todo
    BY <1>3, SkipPropertyType DEF TypeOK
  <1>4. CASE /\ op = "get-production-daily"
             /\ KeepProperty(prop, perProperty[prop].yesterday)
    <2>1. prop \in Property
      BY <1>4 DEF TypeOK
    <2>2. perProperty[prop].yesterday \in Nat
      BY <2>1 DEF TypeOK, PropertyState
    <2> QED
      BY <1>4, <2>1, <2>2, KeepPropertyKeepsTypes
  <1> QED
    BY <1>1, <1>2, <1>3, <1>4 DEF CallFails

LEMMA AttemptFailsType ==
    ASSUME TypeOK, NEW kind, AttemptFails(kind)
    PROVE  /\ scrapeErrors' \in [Op -> Nat] /\ authSeen' \in BOOLEAN
           /\ UNCHANGED <<clock, token, cancelled>> /\ faults' \in Nat
  <1>1. faults' \in Nat /\ authSeen' \in BOOLEAN
    BY DEF TypeOK, AttemptFails
  <1>2. scrapeErrors' \in [Op -> Nat]
    <2>1. /\ scrapeErrors \in [Op -> Nat]
          /\ scrapeErrors' = [scrapeErrors EXCEPT ![op] = @ + 1]
      BY DEF TypeOK, AttemptFails
    <2>2. \A o \in Op : scrapeErrors[o] \in Nat /\ scrapeErrors[o] + 1 \in Nat
      BY <2>1
    <2> QED
      BY <2>1, <2>2
  <1> QED
    BY <1>1, <1>2 DEF AttemptFails

LEMMA InitType == Init => TypeOK
  <1> SUFFICES ASSUME Init PROVE TypeOK
    OBVIOUS
  <1>1. clock \in Time /\ token \in Nat /\ timer \in Nat /\ now \in Time
    BY TimingAssumption, TimeFacts, ExpiriesAssumption DEF Init, Time
  <1>2. propSnaps \in [Property -> PropertySnapshot \cup {Absent}]
    BY DEF Init, NoSnaps
  <1>3. perProperty \in [Property -> PropertyState]
    BY DEF Init, PropertyState
  <1>4. snap \in Snapshot
    BY <1>1, <1>2, TimeFacts DEF Init, Snapshot, NoErrors
  <1> QED
    BY <1>1, <1>2, <1>3, <1>4, TimeFacts, TimingAssumption DEF Init, TypeOK, NoErrors

LEMMA NextType == TypeOK /\ [Next]_vars => TypeOK'
  <1> SUFFICES ASSUME TypeOK, [Next]_vars PROVE TypeOK'
    OBVIOUS
  <1> USE DEF envVars, loopVars, tickVars, callVars, metaVars, sessionVars
  <1>1. CASE TickExpired
    <2>1. sessionExpiresAt' \in Nat /\ authFailed' \in BOOLEAN
      BY <1>1 DEF TypeOK, TickExpired, StartTick
    <2>2. snap' \in Snapshot
      BY <1>1, <2>1, RecordTickFailureType DEF TypeOK, TickExpired, StartTick
    <2> QED
      BY <1>1, <2>1, <2>2, ReturnToRunType DEF TypeOK, TickExpired, StartTick
  <1>2. CASE TickRefreshing
    BY <1>2, InvokeType DEF TypeOK, TickRefreshing, StartTick
  <1>3. CASE TickReusing
    BY <1>3, BeginPropertiesType DEF TypeOK, TickReusing, StartTick
  <1>4. CASE GotProperties
    BY <1>4, InvokeType, ListingsAssumption DEF TypeOK, GotProperties, Answers
  <1>5. CASE GotAccountInfo
    <2>1. inverters' \subseteq Property
      BY <1>5, AnswersAssumption, PropertyAssumption DEF TypeOK, GotAccountInfo
    <2> QED
      BY <1>5, <2>1, BeginPropertiesType, EndCallType DEF TypeOK, GotAccountInfo, Answers
  <1>6. CASE GotHourlySameDay
    <2>1. prop \in Property /\ perProperty[prop].yesterday \in Nat
      BY <1>6 DEF TypeOK, GotHourlySameDay, Answers, PropertyState
    <2> QED
      BY <1>6, <2>1, KeepPropertyKeepsTypes DEF TypeOK, GotHourlySameDay, Answers
  <1>7. CASE GotHourlyNewDay
    <2>1. prop \in Property
      BY <1>7 DEF TypeOK, GotHourlyNewDay, Answers
    <2> QED
      BY <1>7, <2>1, InvokeType DEF TypeOK, GotHourlyNewDay, Answers
  <1>8. CASE GotDaily
    <2>1. prop \in Property /\ perProperty[prop].yesterday \in Nat
      BY <1>8 DEF TypeOK, GotDaily, Answers, PropertyState
    <2>2. Today(prop) - 1 \in Nat
      BY <2>1, TodayType DEF Day
    <2>3. PICK y \in Nat : KeepProperty(prop, y)
      BY <1>8, <2>1, <2>2 DEF GotDaily
    <2> QED
      BY <1>8, <2>1, <2>3, KeepPropertyKeepsTypes DEF TypeOK, GotDaily, Answers
  <1>9. CASE RetryLater
    BY <1>9, AttemptFailsType DEF TypeOK, RetryLater
  <1>10. ASSUME NEW kind, GiveUp(kind) PROVE TypeOK'
    BY <1>10, AttemptFailsType, CallFailsType DEF GiveUp
  <1>11. CASE BackoffElapses
    BY <1>11 DEF TypeOK, BackoffElapses
  <1>12. CASE BackoffCancelled
    BY <1>12, CallFailsType DEF TypeOK, BackoffCancelled
  <1>13. ASSUME NEW p \in Property, PollProperty(p) PROVE TypeOK'
    BY <1>13, InvokeType DEF TypeOK, PollProperty
  <1>14. ASSUME NEW p \in Property, PollBadZone(p) PROVE TypeOK'
    BY <1>14, SkipPropertyType DEF TypeOK, PollBadZone
  <1>15. CASE FinishTick
    BY <1>15, RecordTickResultType, ReturnToRunType DEF TypeOK, FinishTick
  <1>16. CASE StopOnCancel
    BY <1>16 DEF TypeOK, StopOnCancel
  <1>17. CASE Advance
    BY <1>17, TimeFacts DEF TypeOK, Advance, pollerVars
  <1>18. CASE Rotate
    BY <1>18, ExpiriesAssumption DEF TypeOK, Rotate, pollerVars
  <1>19. CASE Cancel
    BY <1>19 DEF TypeOK, Cancel, pollerVars
  <1>20. CASE UNCHANGED vars
    BY <1>20 DEF TypeOK, vars
  <1> QED
    BY <1>1, <1>2, <1>3, <1>4, <1>5, <1>6, <1>7, <1>8, <1>9, <1>10, <1>11, <1>12,
       <1>13, <1>14, <1>15, <1>16, <1>17, <1>18, <1>19, <1>20
       DEF Next, TickStarts, CallEnds, BackoffEnds, TickGoesOn

\* Every reachable state has the types of the Go program, for every account,
\* zone, interval and bound.
THEOREM TypeCorrect == Spec => []TypeOK
  BY InitType, NextType, PTL DEF Spec

=============================================================================
