-------------------------- MODULE DirTokensProofs ---------------------------
(* The order of the cookies DirTokenProvider gives out, for any number of    *)
(* updates of the Secret and any keys it may have: versions flow from the    *)
(* Secret to the mount, to the call in progress and to its answer, so each   *)
(* is at least as new as the next. And why the loop over such a Secret does  *)
(* not give up on cookies that are good, whatever the updates and expiries.  *)
EXTENDS DirRotation, TLAPS

USE DEF KeysAssumption, UpdatesAssumption

Flow ==
    /\ mounted.version <= secret.version
    /\ session <= mounted.version
    /\ given.csrf <= mounted.version
    /\ session # 0 => given.session <= session
    /\ given.session <= given.csrf

DirInv == TypeOK /\ Flow

LEMMA InitFlow == Init => DirInv
  <1> SUFFICES ASSUME Init PROVE DirInv
    OBVIOUS
  <1>1. PICK keys \in FirstKeys : secret = [version |-> 1, keys |-> keys]
    BY DEF Init
  <1>2. secret \in Version /\ secret.version = 1
    BY <1>1, KeysAssumption DEF Version
  <1> QED
    BY <1>2 DEF Init, DirInv, TypeOK, Flow, Error, Answers, Cookie

LEMMA StepFlow == DirInv /\ [Next]_vars => DirInv' /\ [given'.session >= given.session
                                                       /\ given'.csrf >= given.csrf]_given
  <1> SUFFICES ASSUME DirInv, [Next]_vars
               PROVE  DirInv' /\ (given' = given \/ (/\ given'.session >= given.session
                                                     /\ given'.csrf >= given.csrf))
    OBVIOUS
  <1> USE DEF DirInv, TypeOK, Flow, Cookie, Answers, Error
  <1>1. mounted.version \in Nat \ {0} /\ secret.version \in Nat \ {0}
    BY DEF Version
  <1>2. CASE ReadSession
    BY <1>1, <1>2 DEF ReadSession
  <1>3. CASE ReadCSRF
    BY <1>1, <1>3 DEF ReadCSRF
  <1>4. CASE ReadFails
    BY <1>1, <1>4 DEF ReadFails, Error
  <1>5. CASE Apply
    <2>1. PICK keys \in LaterKeys : secret' = [version |-> secret.version + 1, keys |-> keys]
      BY <1>5 DEF Apply
    <2>2. secret' \in Version /\ secret'.version = secret.version + 1
      BY <1>1, <2>1, KeysAssumption DEF Version
    <2> QED
      BY <1>1, <1>5, <2>2 DEF Apply
  <1>6. CASE Sync
    BY <1>1, <1>6 DEF Sync
  <1>7. CASE UNCHANGED vars
    BY <1>7 DEF vars
  <1> QED
    BY <1>2, <1>3, <1>4, <1>5, <1>6, <1>7 DEF Next, Tokens

\* Versions only flow forward, from the Secret to the answers.
THEOREM FlowInvariance == Spec => []DirInv
  BY InitFlow, StepFlow, PTL DEF Spec

\* Every answer is an error or a pair of cookies of some version.
THEOREM TypeCorrect == Spec => []TypeOK
  <1>1. DirInv => TypeOK
    BY DEF DirInv
  <1> QED
    BY <1>1, FlowInvariance, PTL

\* A torn pair is an old session with a newer CSRF token, never the reverse.
THEOREM TornOneWayHolds == Spec => []TornOneWay
  <1>1. DirInv => TornOneWay
    BY DEF DirInv, Flow, TornOneWay
  <1> QED
    BY <1>1, FlowInvariance, PTL

\* No call gives out an older cookie than an earlier call did.
THEOREM NeverGoesBackHolds == Spec => NeverGoesBack
  BY FlowInvariance, StepFlow, PTL DEF Spec, NeverGoesBack

-----------------------------------------------------------------------------
(* The loop over the provider                                               *)

\* What a call reads is of the session the directory holds, or held earlier in
\* that call.
Causes ==
    /\ secret.version \in Session
    /\ "session-token" \in mounted.keys => mounted.version = latest
    /\ Lapsing(latest) => lapsed
    /\ session \in Session \cup {0}
    /\ session # 0 =>
          \/ call = "expiry" /\ (lapsed \/ Expiry[session] > now)
          \/ call = "tokens" /\ (lapsed \/ Expiry[session] > since + Timeout)
    /\ call = "sent" =>
          carried \in Session /\ (lapsed \/ Expiry[carried] > since + Timeout)
    /\ DirHaltsOnlyOnLapse

RotationInv == DirInv /\ RotationTypeOK /\ Causes

LEMMA RotationStarts == RotationInit => RotationInv
  <1> SUFFICES ASSUME RotationInit PROVE RotationInv
    OBVIOUS
  <1> USE UseAssumption, DirRotationAssumption DEF UseAssumption, DirRotationAssumption
  <1>1. DirInv
    BY InitFlow DEF RotationInit
  <1>2. /\ secret.version = 1 /\ mounted = secret /\ session = 0 /\ latest = 1
        /\ call = "none" /\ stage = "idle" /\ clock = 1 /\ now = 0
        /\ carried = 0 /\ since = 0 /\ expiry = Expiry[1]
    BY DEF RotationInit, Init, UseInit
  <1>3. 1 \in Session
    BY UpdatesAssumption
  <1>4. lapsed = Lapsing(latest) /\ lapsed \in BOOLEAN
    <2>1. Lapsing(1) \in BOOLEAN
      BY DEF Lapsing
    <2> QED
      BY <1>2, <2>1, Zenon DEF RotationInit
  <1>5. RotationTypeOK
    BY <1>2, <1>3, <1>4 DEF RotationTypeOK, UseTypeOK
  <1>6. Causes
    BY <1>2, <1>3, <1>4 DEF Causes, DirHaltsOnlyOnLapse
  <1> QED
    BY <1>1, <1>5, <1>6 DEF RotationInv

\* A call of the provider returns an error, or the session it has read.
LEMMA AnswersOfProvider ==
    ASSUME RotationInv, Returns
    PROVE  /\ DirInv' /\ session' = 0
           /\ UNCHANGED <<secret, mounted, latest, lapsed>>
           /\ \/ result' = Error /\ result'.session = 0
              \/ result' # Error /\ session # 0 /\ result'.session = session
  <1>1. DirInv'
    BY StepFlow DEF RotationInv, Returns, Next, Tokens
  <1> QED
    BY <1>1 DEF Returns, ReadCSRF, ReadFails, Error, historyVars

LEMMA RotationSteps == RotationInv /\ [RotationNext]_rotationVars => RotationInv'
  <1> SUFFICES ASSUME RotationInv, [RotationNext]_rotationVars PROVE RotationInv'
    OBVIOUS
  <1> USE UseAssumption, DirRotationAssumption
      DEF UseAssumption, DirRotationAssumption, useVars, loopVars, requestVars, historyVars,
          DirHaltsOnlyOnLapse, Lapsing, UseTypeOK
  <1>0. /\ DirInv /\ RotationTypeOK /\ Causes
        /\ latest \in Session /\ Session \subseteq Nat \ {0}
        /\ clock \in Nat /\ Expiry[latest] \in Nat /\ Timeout \in Nat
    BY DEF RotationInv, RotationTypeOK
  <1>1. UNCHANGED vars => DirInv'
    BY <1>0, StepFlow
  <1>2. CASE StartTick
    BY <1>0, <1>1, <1>2 DEF StartTick, TickStarts, RotationInv, RotationTypeOK, Causes, vars
  <1>3. CASE Reading
    <2>1. DirInv'
      BY <1>0, <1>3, StepFlow DEF Reading, Next, Tokens
    <2>2. /\ session' = latest
          /\ call \in {"expiry", "tokens"}
          /\ UNCHANGED <<secret, mounted, result, useVars, historyVars>>
      BY <1>0, <1>3 DEF Reading, ReadSession, Readable, Causes
    <2>3. lapsed \/ Expiry[latest] > clock + Timeout
      BY <1>0 DEF Causes
    <2>4. /\ now \in Nat /\ now <= clock
          /\ call = "tokens" => since \in Nat /\ since <= clock
      BY <1>0 DEF RotationTypeOK
    <2> QED
      BY <1>0, <2>1, <2>2, <2>3, <2>4 DEF RotationInv, RotationTypeOK, Causes
  <1>4. CASE GotExpiry
    <2>1. /\ DirInv' /\ session' = 0
          /\ UNCHANGED <<secret, mounted, latest, lapsed>>
          /\ \/ result' = Error /\ result'.session = 0
             \/ result' # Error /\ session # 0 /\ result'.session = session
      BY <1>4, AnswersOfProvider DEF GotExpiry
    <2>2. /\ stage = "idle" /\ call = "expiry" /\ call' = "none" /\ now' = 0
          /\ expiry' = IF ReadExpiry(result'.session) = 0 THEN expiry ELSE ReadExpiry(result'.session)
          /\ stage' = IF Loop!Expired(expiry', now) THEN "halted" ELSE "ticking"
          /\ UNCHANGED <<clock, requestVars>>
      BY <1>4 DEF GotExpiry, ExpiryRead, Loop!BeginTick
    <2>3. CASE result' = Error
      <3>1. ReadExpiry(result'.session) = 0
        BY <2>1, <2>3 DEF ReadExpiry, Error
      <3> QED
        BY <1>0, <2>1, <2>2, <2>3, <3>1 DEF RotationInv, RotationTypeOK, Causes
    <2>4. CASE result' # Error
      <3>1. /\ session \in Session /\ Expiry[session] \in Nat \ {0}
            /\ lapsed \/ Expiry[session] > now
        BY <1>0, <2>1, <2>2, <2>4 DEF Causes
      <3>2. ReadExpiry(result'.session) = Expiry[session]
        BY <2>1, <2>4, <3>1 DEF ReadExpiry
      <3>3. expiry' = Expiry[session] /\ now \in Nat
        BY <1>0, <2>2, <3>1, <3>2 DEF RotationTypeOK
      <3>4. stage' = "halted" => lapsed
        BY <2>2, <3>1, <3>3 DEF Loop!Expired
      <3> QED
        BY <1>0, <2>1, <2>2, <3>1, <3>3, <3>4 DEF RotationInv, RotationTypeOK, Causes
    <2> QED
      BY <2>3, <2>4
  <1>5. CASE TokensLacking
    <2>1. /\ DirInv' /\ session' = 0
          /\ UNCHANGED <<secret, mounted, latest, lapsed>>
      BY <1>5, AnswersOfProvider DEF TokensLacking
    <2> QED
      BY <1>0, <1>5, <2>1
         DEF TokensLacking, TokensMissing, RequestOver, RotationInv, RotationTypeOK, Causes
  <1>6. CASE Send
    <2>1. /\ DirInv' /\ session' = 0
          /\ UNCHANGED <<secret, mounted, latest, lapsed>>
          /\ session # 0 /\ result'.session = session
      BY <1>6, AnswersOfProvider DEF Send
    <2>2. /\ call = "tokens" /\ call' = "sent" /\ carried' = session
          /\ UNCHANGED <<clock, loopVars, now, since>>
      BY <1>6, <2>1 DEF Send, RequestSent
    <2> QED
      BY <1>0, <2>1, <2>2 DEF RotationInv, RotationTypeOK, Causes
  <1>7. CASE AskTokens
    BY <1>0, <1>1, <1>7 DEF AskTokens, TokensAsked, RotationInv, RotationTypeOK, Causes, vars
  <1>8. CASE Answered
    BY <1>0, <1>1, <1>8
       DEF Answered, RequestAnswered, RequestOver, RotationInv, RotationTypeOK, Causes, vars
  <1>9. CASE Refused
    <2>1. /\ call = "sent" /\ Expiry[carried] <= clock /\ stage' = "halted"
          /\ call' = "none" /\ carried' = 0 /\ since' = 0
          /\ UNCHANGED <<clock, now, expiry, historyVars, vars>>
      BY <1>9 DEF Refused, RequestRefused, RequestOver, Loop!Refused
    <2>2. clock <= since + Timeout /\ since \in Nat /\ Expiry[carried] \in Nat
      BY <1>0, <2>1 DEF RotationTypeOK, Causes
    <2>3. lapsed
      BY <1>0, <2>1, <2>2 DEF Causes
    <2> QED
      BY <1>0, <1>1, <2>1, <2>3 DEF RotationInv, RotationTypeOK, Causes, vars
  <1>10. CASE EndTick
    BY <1>0, <1>1, <1>10 DEF EndTick, TickEnds, Loop!EndTick, RotationInv, RotationTypeOK, Causes, vars
  <1>11. CASE Stop
    BY <1>0, <1>1, <1>11 DEF Stop, LoopStops, Loop!Stop, RotationInv, RotationTypeOK, Causes, vars
  <1>12. CASE Update
    <2>1. DirInv'
      BY <1>0, <1>12, StepFlow DEF Update, Next
    <2>2. /\ latest' = IF "session-token" \in mounted'.keys THEN mounted'.version ELSE latest
          /\ lapsed' = (lapsed \/ Lapsing(latest'))
          /\ UNCHANGED <<clock, loopVars, now, call, requestVars, session, result>>
      BY <1>12 DEF Update, Apply, Sync
    <2>3. secret'.version \in Session
      <3>1. CASE Apply
        <4>1. secret'.version = secret.version + 1 /\ secret.version <= MaxUpdates
          BY <3>1 DEF Apply
        <4> QED
          BY <1>0, <4>1, UpdatesAssumption DEF Causes
      <3>2. CASE Sync
        BY <1>0, <3>2 DEF Sync, Causes
      <3> QED
        BY <1>12, <3>1, <3>2 DEF Update
    <2>4. mounted'.version \in Session
      <3>1. CASE Apply
        BY <1>0, <3>1, UpdatesAssumption DEF Apply, Causes, DirInv, Flow, TypeOK, Version
      <3>2. CASE Sync
        BY <2>3, <3>2 DEF Sync
      <3> QED
        BY <1>12, <3>1, <3>2 DEF Update
    <2>5. latest' \in Session
      BY <1>0, <2>2, <2>4
    <2>6. Lapsing(latest)' = Lapsing(latest')
      BY <2>2
    <2>7. RotationTypeOK'
      BY <1>0, <2>2, <2>5 DEF RotationTypeOK
    <2> QED
      BY <1>0, <2>1, <2>2, <2>3, <2>5, <2>6, <2>7 DEF RotationInv, Causes
  <1>13. CASE Advance
    <2>1. /\ lapsed' = (lapsed \/ Lapsing(latest)') /\ clock' = clock + 1
          /\ call \in {"tokens", "sent"} => clock < since + Timeout
          /\ UNCHANGED <<loopVars, now, call, requestVars, latest, vars>>
      BY <1>13 DEF Advance, TimePasses
    <2>2. RotationTypeOK'
      BY <1>0, <2>1 DEF RotationTypeOK
    <2> QED
      BY <1>0, <1>1, <2>1, <2>2 DEF RotationInv, Causes, vars
  <1>14. CASE UNCHANGED rotationVars
    BY <1>0, <1>1, <1>14 DEF rotationVars, RotationInv, RotationTypeOK, Causes, vars
  <1> QED
    BY <1>2, <1>3, <1>4, <1>5, <1>6, <1>7, <1>8, <1>9, <1>10, <1>11, <1>12, <1>13, <1>14
       DEF RotationNext, ProviderStep

LEMMA RotationInvariance == RotationSpec => []RotationInv
  BY RotationStarts, RotationSteps, PTL DEF RotationSpec

\* A halt goes back to a session left until a request's time before its expiry,
\* or to a tick that could not read the Secret.
THEOREM DirHaltsOnlyOnLapseHolds == RotationSpec => []DirHaltsOnlyOnLapse
  <1>1. RotationInv => DirHaltsOnlyOnLapse
    BY DEF RotationInv, Causes
  <1> QED
    BY <1>1, RotationInvariance, PTL

\* While every version has both keys, no call fails.
CompleteInv ==
    LaterKeys \subseteq {Key} =>
        /\ secret.keys = Key /\ mounted.keys = Key
        /\ stage \in {"ticking", "halted"} => result # Error

LEMMA CompleteSteps == CompleteInv /\ RotationInv /\ [RotationNext]_rotationVars => CompleteInv'
  <1> SUFFICES ASSUME LaterKeys \subseteq {Key}, CompleteInv, RotationInv,
                      [RotationNext]_rotationVars
               PROVE  /\ secret'.keys = Key /\ mounted'.keys = Key
                      /\ stage' \in {"ticking", "halted"} => result' # Error
    BY DEF CompleteInv
  <1> USE DEF useVars, loopVars, historyVars
  <1>0. /\ secret.keys = Key /\ mounted.keys = Key
        /\ stage \in {"ticking", "halted"} => result # Error
    BY DEF CompleteInv
  <1>1. ASSUME Returns PROVE UNCHANGED <<secret, mounted>> /\ result' # Error
    <2>1. ~ReadFails
      BY <1>0 DEF ReadFails, Readable, Key
    <2>2. ReadCSRF
      BY <1>1, <2>1 DEF Returns
    <2>3. result'.session # 0 /\ UNCHANGED <<secret, mounted>>
      BY <2>2 DEF ReadCSRF
    <2> QED
      BY <2>3 DEF Error
  <1>2. CASE GotExpiry \/ TokensLacking \/ Send
    BY <1>0, <1>1, <1>2 DEF GotExpiry, TokensLacking, Send
  <1>3. CASE Reading
    BY <1>0, <1>3 DEF Reading, ReadSession
  <1>4. CASE Update
    <2>1. UNCHANGED <<stage, result>> /\ (Apply \/ Sync)
      BY <1>4 DEF Update, Apply, Sync
    <2>2. Apply => secret'.keys = Key /\ UNCHANGED mounted
      BY DEF Apply
    <2>3. Sync => mounted'.keys = Key /\ UNCHANGED secret
      BY <1>0 DEF Sync
    <2> QED
      BY <1>0, <2>1, <2>2, <2>3
  <1>5. CASE StartTick \/ AskTokens \/ Answered \/ Refused \/ EndTick \/ Advance
    BY <1>0, <1>5
       DEF StartTick, TickStarts, AskTokens, TokensAsked, Answered, RequestAnswered,
           Refused, RequestRefused, Loop!Refused, EndTick, TickEnds, Loop!EndTick,
           Advance, TimePasses, vars
  <1>6. CASE Stop
    BY <1>0, <1>6 DEF Stop, LoopStops, Loop!Stop, vars
  <1>7. CASE UNCHANGED rotationVars
    BY <1>0, <1>7 DEF rotationVars, vars
  <1> QED
    BY <1>2, <1>3, <1>4, <1>5, <1>6, <1>7 DEF RotationNext, ProviderStep

UpdatesNeedNoRestart ==
    LaterKeys \subseteq {Key} => (stage = "halted" => lapsed)

\* As long as every version of the Secret has both keys, updates in good time are
\* the whole of a rotation: none of them ever needs a restart
\* (dir_token_provider.go:16-18).
THEOREM UpdatesNeedNoRestartHolds == RotationSpec => []UpdatesNeedNoRestart
  <1>1. RotationInit => CompleteInv
    BY DEF RotationInit, Init, UseInit, CompleteInv
  <1>2. DirHaltsOnlyOnLapse /\ CompleteInv => UpdatesNeedNoRestart
    BY DEF DirHaltsOnlyOnLapse, CompleteInv, UpdatesNeedNoRestart
  <1>3. RotationSpec => []CompleteInv
    BY <1>1, CompleteSteps, RotationInvariance, PTL DEF RotationSpec
  <1> QED
    BY <1>2, <1>3, DirHaltsOnlyOnLapseHolds, PTL

\* The order of versions holds of the provider in the loop's hands as well.
THEOREM RotationImplementsProvider == RotationSpec => Spec
  <1>1. RotationInit => Init
    BY DEF RotationInit
  <1>2. ASSUME [RotationNext]_rotationVars PROVE [Next]_vars
    <2>1. CASE Reading \/ GotExpiry \/ TokensLacking \/ Send
      BY <2>1 DEF Reading, GotExpiry, TokensLacking, Send, Returns, Next, Tokens
    <2>2. CASE Update
      BY <2>2 DEF Update, Next
    <2>3. CASE StartTick \/ AskTokens \/ Answered \/ Refused \/ EndTick \/ Stop \/ Advance
      BY <2>3 DEF StartTick, AskTokens, Answered, Refused, EndTick, Stop, Advance
    <2>4. CASE UNCHANGED rotationVars
      BY <2>4 DEF rotationVars
    <2> QED
      BY <1>2, <2>1, <2>2, <2>3, <2>4 DEF RotationNext, ProviderStep
  <1> QED
    BY <1>1, <1>2, PTL DEF RotationSpec, Spec

=============================================================================
