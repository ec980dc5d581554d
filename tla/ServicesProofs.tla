--------------------------- MODULE ServicesProofs ---------------------------
(* How the daemon starts and ends, for any number of clients and any        *)
(* configuration: the type invariant and the safety properties of module    *)
(* Services, from one inductive invariant about the address that is bound,  *)
(* who has stopped, why, and what has been recorded of it.                  *)
EXTENDS Services, TLAPS

Outcomes == {<<>>, <<"listen">>, <<"deadline">>}

\* Nothing runs before StartServices, nothing listens before Server.Run.
StartOrder ==
    /\ main \in {"loading", "building"} => server = "none" /\ poller = "none"
    /\ server \in {"none", "starting"} => listener = "none" /\ errCh = "empty" /\ busy = {}

\* Whatever runs has been given the address of the flag, or else of the file.
Configured ==
    main \in {"building", "waiting"} \/ server # "none"
        => listen = BindAddress(inputs.file, inputs.override)

\* Only the server reports errors, one at most, and only when it is done.
Reported ==
    /\ errs \in Outcomes
    /\ cancelled <=> errs # <<>>
    /\ cancelled => server = "done"

\* Why the server is where it is.
Stopping ==
    /\ ShutdownCalled /\ ~signalled => errs = <<"listen">>
    /\ server = "awaiting" \/ (server = "done" /\ errs = <<>>) => busy = {}

\* What the listener has said, and that until a shutdown it can only be an error.
Listening ==
    /\ errCh # "empty" => listener = "done"
    /\ ~ShutdownCalled => listener # "closed" /\ (listener = "done" => errCh = "failed")

\* What run has returned is what has happened.
Returned ==
    /\ main # "exited" => result = "none"
    /\ main = "exited" =>
          \/ result = "config" /\ server = "none" /\ poller = "none"
          \/ /\ ServicesDone
             /\ result = IF errs = <<>> THEN "ok" ELSE Head(errs)

IInv ==
    TypeOK /\ StartOrder /\ Configured /\ Reported /\ Stopping /\ Listening /\ Returned

LEMMA SingletonErrors ==
    /\ Append(<<>>, "listen") = <<"listen">>
    /\ Append(<<>>, "deadline") = <<"deadline">>
    /\ <<"listen">> # <<>> /\ <<"deadline">> # <<>>
    /\ Head(<<"listen">>) = "listen" /\ Head(<<"deadline">>) = "deadline"
    /\ Outcomes \subseteq Seq({"listen", "deadline"})
    /\ \A outcome \in Outcomes : Len(outcome) <= 2
  BY DEF Outcomes

\* What a server may be told to bind is an address.
LEMMA AddressType ==
    ASSUME NEW file \in ConfigFile, NEW override \in Address
    PROVE  BindAddress(file, override) \in Address \cup {DefaultListen}
  <1>1. file.listen \subseteq Address
    BY DEF ConfigFile
  <1>2. FileListen(file) \in Address \cup {DefaultListen}
    BY <1>1 DEF FileListen
  <1> QED
    BY <1>2 DEF BindAddress

\* What the probe makes of an address reaches a listener bound to it.
LEMMA ProbeReaches ==
    ASSUME NEW address, address # NoAddress
    PROVE  Reaches(ProbeAddress(address), address)
  <1>1. /\ ProbeAddress(address).host =
              IF address.host = "" THEN "127.0.0.1" ELSE address.host
        /\ ProbeAddress(address).port = address.port
    BY DEF ProbeAddress
  <1>2. CASE address.host = ""
    BY <1>1, <1>2 DEF Reaches
  <1>3. CASE address.host # ""
    BY <1>1, <1>3 DEF Reaches
  <1> QED
    BY <1>2, <1>3

\* The invariant holds before anything is started.
LEMMA InitHolds == Init => IInv
  <1> SUFFICES ASSUME Init PROVE IInv
    OBVIOUS
  <1>1. TypeOK
    <2>1. NoAddress \in Address
      BY DEF Address
    <2> QED
      BY <2>1, SingletonErrors DEF Init, TypeOK, Outcomes
  <1>2. StartOrder /\ Configured /\ Stopping /\ Listening /\ Returned
    BY DEF Init, StartOrder, Configured, Stopping, Listening, Returned, ShutdownCalled
  <1>3. Reported
    BY DEF Init, Reported, Outcomes
  <1> QED
    BY <1>1, <1>2, <1>3 DEF IInv

LEMMA StepHolds == IInv /\ [Next]_vars => IInv'
  <1> SUFFICES ASSUME IInv, [Next]_vars PROVE IInv'
    OBVIOUS
  <1> USE SingletonErrors
  <1> USE DEF IInv, TypeOK, StartOrder, Configured, Reported, Outcomes, Stopping,
              Listening, Returned, ShutdownCalled, ContextDone, ServicesDone,
              envVars, mainVars, stopVars, httpVars
  <1>1. CASE LoadConfig
    <2>1. inputs.file \in ConfigFile /\ inputs.override \in Address
      BY InputsAssumption
    <2>2. listen' \in Address \cup {DefaultListen}
      BY <1>1, <2>1, AddressType DEF LoadConfig
    <2> QED
      BY <1>1, <2>2 DEF LoadConfig
  <1>2. CASE LoadFails
    BY <1>2 DEF LoadFails
  <1>3. CASE StartServices
    BY <1>3 DEF StartServices
  <1>4. CASE ReturnFromRun
    BY <1>4 DEF ReturnFromRun
  <1>5. CASE PollerHalts \/ PollerStops
    BY <1>5 DEF PollerHalts, PollerStops, PollerReturns
  <1>6. CASE ServerStarts
    BY <1>6 DEF ServerStarts
  <1>7. CASE BeginShutdown
    BY <1>7 DEF BeginShutdown
  <1>8. CASE Drain
    BY <1>8 DEF Drain
  <1>9. CASE DrainTimesOut
    BY <1>9 DEF DrainTimesOut, ServerFails
  <1>10. CASE ShutdownDone
    BY <1>10 DEF ShutdownDone
  <1>11. CASE ListenerLost
    BY <1>11 DEF ListenerLost, ServerFails
  <1>12. CASE Listen
    BY <1>12 DEF Listen
  <1>13. CASE ListenFails
    BY <1>13 DEF ListenFails
  <1>14. CASE ListenEnds
    BY <1>14 DEF ListenEnds
  <1>15. CASE SendOutcome
    BY <1>15 DEF SendOutcome
  <1>16. CASE \E c \in Client : RequestBegins(c) \/ RequestEnds(c)
    BY <1>16 DEF RequestBegins, RequestEnds
  <1>17. CASE Signal
    BY <1>17 DEF Signal
  <1>19. CASE EditCookies
    <2>1. cookies' \in BOOLEAN
      BY <1>19, Zenon DEF EditCookies
    <2> QED
      BY <1>19, <2>1 DEF EditCookies
  <1>18. CASE UNCHANGED vars
    BY <1>18 DEF vars
  <1> HIDE DEF IInv, TypeOK, StartOrder, Configured, Reported, Stopping, Listening, Returned
  <1> QED
    BY <1>1, <1>2, <1>3, <1>4, <1>5, <1>6, <1>7, <1>8, <1>9, <1>10, <1>11, <1>12,
       <1>13, <1>14, <1>15, <1>16, <1>17, <1>18, <1>19
       DEF Next, MainStep, PollerStep, ServerStep, ListenerStep

\* Every goroutine and channel is where its type allows, and the records of how
\* things ended agree with how they did.
THEOREM ServicesInvariance == Spec => []IInv
  BY InitHolds, StepHolds, PTL DEF Spec

\* The daemon's variables keep their types; errs never holds more than its
\* channel has room for.
THEOREM TypeCorrect == Spec => []TypeOK
  <1>1. IInv => TypeOK
    BY DEF IInv
  <1> QED
    BY <1>1, ServicesInvariance, PTL

HaltKeepsServing ==
    ShutdownCalled /\ ~signalled => errs = <<"listen">>

\* Only a signal or the listener's own failure shuts the server down: a poller
\* that halts leaves /healthz up (main.go:150-151).
THEOREM HaltKeepsServingHolds == Spec => []HaltKeepsServing
  <1>1. IInv => HaltKeepsServing
    BY DEF IInv, Stopping, HaltKeepsServing
  <1> QED
    BY <1>1, ServicesInvariance, PTL

\* A nil from run means that it was told to stop and lost nothing.
THEOREM CleanExitIsCleanHolds == Spec => []CleanExitIsClean
  <1>1. IInv => CleanExitIsClean
    BY SingletonErrors
       DEF IInv, TypeOK, Reported, Outcomes, Stopping, Returned, ServicesDone,
           ShutdownCalled, CleanExitIsClean
  <1> QED
    BY <1>1, ServicesInvariance, PTL

ListenFailureIsReported ==
    main = "exited" /\ ~signalled => result \in {"config", "listen"}

\* A failure to listen is lost only to a signal (main.go:182-191,
\* server.go:70-84).
THEOREM ListenFailureIsReportedHolds == Spec => []ListenFailureIsReported
  <1>1. IInv => ListenFailureIsReported
    BY SingletonErrors
       DEF IInv, TypeOK, Reported, Outcomes, Stopping, Returned, ServicesDone,
           ShutdownCalled, ListenFailureIsReported
  <1> QED
    BY <1>1, ServicesInvariance, PTL

\* A probe with the daemon's own flag reaches it, whatever hosts and ports the
\* file and the command line name.
THEOREM ProbeFindsTheServerHolds == Spec => []ProbeFindsTheServer
  <1>1. IInv => ProbeFindsTheServer
    <2> SUFFICES ASSUME IInv, listener = "serving", ~ShutdownCalled,
                        inputs.override # NoAddress \/ FileListen(inputs.file) = DefaultListen
                 PROVE  ProbeSucceeds(inputs.override)
      BY DEF ProbeFindsTheServer
    <2>1. listen = BindAddress(inputs.file, inputs.override)
      BY DEF IInv, StartOrder, Configured
    <2>2. "/healthz" \in Paths
      BY DEF Paths
    <2>3. CASE inputs.override = NoAddress
      <3>1. /\ ProbeAddress(inputs.override).host = "127.0.0.1"
            /\ ProbeAddress(inputs.override).port = "9876"
        BY <2>3 DEF ProbeAddress
      <3>2. listen.host = "" /\ listen.port = "9876"
        <4>1. listen = DefaultListen
          BY <2>1, <2>3 DEF BindAddress
        <4> QED
          BY <4>1 DEF DefaultListen
      <3>3. Reaches(ProbeAddress(inputs.override), listen)
        BY <3>1, <3>2 DEF Reaches
      <3> QED
        BY <2>2, <3>3, Zenon DEF ProbeSucceeds
    <2>4. CASE inputs.override # NoAddress
      <3>1. listen = inputs.override
        BY <2>1, <2>4 DEF BindAddress
      <3>2. Reaches(ProbeAddress(inputs.override), listen)
        BY <2>4, <3>1, ProbeReaches, Zenon
      <3> QED
        BY <2>2, <3>2, Zenon DEF ProbeSucceeds
    <2> QED
      BY <2>3, <2>4
  <1> QED
    BY <1>1, ServicesInvariance, PTL

-----------------------------------------------------------------------------
(* The daemon from outside                                                  *)

LEMMA LifeStarts == Init => Life!LifeInit
  BY SingletonErrors
     DEF Init, Life!LifeInit, Phase, Serving, Failed, ShutdownCalled

\* Where the server says that the daemon is up, and what it is then.
LEMMA LifePhases ==
    ASSUME IInv
    PROVE  /\ server \notin {"none", "done"} => main = "waiting" /\ errs = <<>>
           /\ main = "waiting" => Phase = "up"
           /\ main \in {"loading", "building"} => Phase = "starting"
           /\ ~ShutdownCalled => ~cancelled /\ errs = <<>>
  BY SingletonErrors
     DEF IInv, TypeOK, StartOrder, Reported, Outcomes, Returned, ServicesDone,
         ShutdownCalled, Phase

LEMMA LifeSteps == IInv /\ IInv' /\ [Next]_vars => [Life!LifeNext]_Life!lifeVars
  <1> SUFFICES ASSUME IInv, IInv', [Next]_vars
               PROVE  Life!LifeNext \/ UNCHANGED Life!lifeVars
    OBVIOUS
  <1> USE SingletonErrors
      DEF Life!lifeVars, Life!LifeNext, Failed, Serving, ShutdownCalled,
          envVars, mainVars, stopVars, httpVars
  <1>0. /\ server \notin {"none", "done"} => main = "waiting" /\ errs = <<>>
        /\ main = "waiting" => Phase = "up"
        /\ main \in {"loading", "building"} => Phase = "starting"
        /\ ~ShutdownCalled => ~cancelled /\ errs = <<>>
    BY LifePhases
  <1>1. CASE LoadConfig
    BY <1>1 DEF LoadConfig, Phase
  <1>2. CASE LoadFails
    BY <1>2 DEF LoadFails, Phase, Life!RejectConfig
  <1>3. CASE StartServices
    BY <1>3 DEF StartServices, Phase, Life!ComeUp, IInv, StartOrder
  <1>4. CASE ReturnFromRun
    <2>1. /\ main = "waiting" /\ server = "done" /\ poller # "running"
          /\ main' = "exited" /\ result' = IF errs = <<>> THEN "ok" ELSE Head(errs)
          /\ UNCHANGED <<signalled, poller, Serving>>
      BY <1>4 DEF ReturnFromRun, ServicesDone
    <2>2. errs \in Outcomes
      BY DEF IInv, Reported
    <2>3. \/ Serving = "failed" /\ result' = "listen"
          \/ Serving = "ended" /\ result' \in {"ok", "deadline"}
      BY <2>1, <2>2 DEF Outcomes
    <2>4. Phase = "up" /\ Phase' = "exited"
      BY <2>1 DEF Phase
    <2> QED
      BY <2>1, <2>3, <2>4 DEF Life!Exit
  <1>5. CASE PollerHalts
    BY <1>5 DEF PollerHalts, PollerReturns, Phase, Life!PollingEnds
  <1>6. CASE PollerStops
    <2>1. /\ poller = "running" /\ poller' = "stopped"
          /\ UNCHANGED <<Phase, signalled, Serving, result>>
      BY <1>6 DEF PollerStops, PollerReturns, Phase
    <2>2. signalled \/ Serving = "failed"
      BY <1>0, <1>6 DEF PollerStops, ContextDone, IInv, Reported, Stopping
    <2> QED
      BY <2>1, <2>2 DEF Life!PollingEnds
  <1>7. CASE ServerStarts
    BY <1>7 DEF ServerStarts, Phase, IInv, StartOrder
  <1>8. CASE BeginShutdown
    <2>1. /\ server = "selecting" /\ server' = "closing"
          /\ UNCHANGED <<signalled, poller, result, Phase, errs>>
      BY <1>8 DEF BeginShutdown, Phase
    <2>2. signalled /\ Phase = "up" /\ errs = <<>>
      BY <1>0, <1>8, <2>1 DEF BeginShutdown, ContextDone
    <2>3. Serving # "ended" /\ Serving' = "ended"
      BY <2>1, <2>2
    <2> QED
      BY <2>1, <2>2, <2>3 DEF Life!Withdraw
  <1>9. CASE Drain
    BY <1>9 DEF Drain, Phase
  <1>10. CASE DrainTimesOut
    BY <1>0, <1>10 DEF DrainTimesOut, ServerFails, Phase
  <1>11. CASE ShutdownDone
    BY <1>11 DEF ShutdownDone, Phase
  <1>12. CASE ListenerLost
    BY <1>0, <1>12 DEF ListenerLost, ServerFails, Phase
  <1>13. CASE Listen
    <2>1. /\ ~ShutdownCalled /\ listener = "starting" /\ listener' = "serving"
          /\ UNCHANGED <<signalled, poller, result, Phase, errs, server, errCh>>
      BY <1>13 DEF Listen, Phase
    <2>2. errCh = "empty" /\ server = "selecting"
      BY <2>1 DEF IInv, Listening, StartOrder
    <2>3. Serving = "notYet" /\ Serving' = "yes" /\ Phase = "up"
      BY <1>0, <2>1, <2>2
    <2> QED
      BY <2>1, <2>3 DEF Life!Serve
  <1>14. CASE ListenFails
    <2>1. /\ listener \in {"starting", "serving"} /\ listener' = "failed"
          /\ UNCHANGED <<signalled, poller, result, Phase, errs, server, errCh>>
      BY <1>14 DEF ListenFails, Phase
    <2>2. errCh = "empty" /\ server \notin {"none", "starting"}
      BY <2>1 DEF IInv, Listening, StartOrder
    <2>3. CASE ShutdownCalled
      BY <2>1, <2>3
    <2>4. CASE ~ShutdownCalled
      <3>1. Phase = "up" /\ Serving \in {"notYet", "yes"} /\ Serving' = "failed"
        BY <1>0, <2>1, <2>2, <2>4
      <3> QED
        BY <2>1, <3>1 DEF Life!Fail
    <2> QED
      BY <2>3, <2>4
  <1>15. CASE ListenEnds
    BY <1>15 DEF ListenEnds, Phase
  <1>16. CASE SendOutcome
    BY <1>16 DEF SendOutcome, Phase, IInv, Listening
  <1>17. CASE \E c \in Client : RequestBegins(c) \/ RequestEnds(c)
    BY <1>17 DEF RequestBegins, RequestEnds, Phase
  <1>18. CASE Signal
    <2>1. Phase # "exited"
      BY <1>18 DEF Signal, Phase, IInv, TypeOK
    <2> QED
      BY <1>18, <2>1 DEF Signal, Phase, Life!Tell
  <1>19. CASE EditCookies
    BY <1>19 DEF EditCookies, Phase
  <1>20. CASE UNCHANGED vars
    BY <1>20 DEF vars, Phase
  <1> QED
    BY <1>1, <1>2, <1>3, <1>4, <1>5, <1>6, <1>7, <1>8, <1>9, <1>10, <1>11, <1>12, <1>13,
       <1>14, <1>15, <1>16, <1>17, <1>18, <1>19, <1>20
       DEF Next, MainStep, PollerStep, ServerStep, ListenerStep

\* The goroutines and channels of Services make a daemon that lives as Lifecycle
\* describes, for any clients, files and flags.
THEOREM LifecycleRefinement == Spec => DaemonIsALifecycle
  BY ServicesInvariance, LifeStarts, LifeSteps, PTL
     DEF Spec, DaemonIsALifecycle, Life!LifeSpec

=============================================================================
