--------------------------- MODULE RotationProofs ---------------------------
(* Why the loop does not give up on cookies that are good: for every number *)
(* of saves, every expiry of every session, every timeout and any number of *)
(* requests. The file provider's own invariant is taken from                *)
(* FileTokensProofs; what is added is which save each session comes from.   *)
EXTENDS Rotation, FileTokensProofs

USE RotationAssumption, UseAssumption, SavesAssumption DEF RotationAssumption, UseAssumption

\* Every cookie in sight was brought by a save already begun, and between saves
\* config.yaml holds those of the latest.
Files ==
    /\ saves \in Session /\ (saving => saves # 1)
    /\ fallback = [session |-> 1, csrf |-> 1]
    /\ ~saving => file.exists /\ file.content = Saved(saves)
    /\ file.content.session \in 0 .. saves
    /\ cache.session \in 0 .. saves
    /\ result.session \in 0 .. saves

\* What a refusal or a halt goes back to.
Causes ==
    /\ Lapsing(Installed) => lapsed
    /\ call = "sent" =>
          /\ carried \in Session
          /\ MtimeAdvances => lapsed \/ disturbed \/ Expiry[carried] > since + Timeout
    /\ HaltsOnlyOnLapse

RotationInv == FileInv /\ Files /\ RotationTypeOK /\ Causes

-----------------------------------------------------------------------------
(* The provider, as Rotation uses it                                        *)

LEMMA ErrorIsNoPair ==
    /\ \A pair \in Answers : pair # Error => pair.session # 0 /\ pair.csrf # 0
    /\ Error.session = 0
  BY DEF Answers, Error, Whole

LEMMA FileInvSteps ==
    ASSUME FileInv, [Next]_vars
    PROVE  FileInv'
  BY NextType, NextKnowledge, NextProvenance DEF FileInv

LEMMA ResolvedSession ==
    ASSUME Files
    PROVE  Resolve(file).session \in 0 .. saves
  <1> saves \in Nat /\ saves >= 1
    BY DEF Files
  <1> QED
    BY DEF Files, Resolve, OrError, Overlay, Error

\* An answer is of a save begun; one given between saves is of the latest.
LEMMA AnswersOfProvider ==
    ASSUME FileInv, Files, Returns
    PROVE  /\ FileInv' /\ Files'
           /\ result' # Error => result'.session \in Session
           /\ MtimeAdvances /\ ~saving => result' = [session |-> saves, csrf |-> saves]
           /\ UNCHANGED <<file, saves, saving>>
  <1> USE DEF editorVars
  <1>1. TypeOK /\ Knowledge /\ saves \in Nat /\ saves >= 1
    BY DEF FileInv, Files
  <1>2. FileInv'
    BY FileInvSteps DEF Returns, Next, Tokens
  <1>3. UNCHANGED <<file, saves, saving, fallback>>
    BY DEF Returns, StatMissing, StatUnchanged, ReadFails, ReadPair, Return
  <1>4. result' \in Answers
    BY <1>2 DEF FileInv, TypeOK
  <1>5. ~saving => Resolve(file) = [session |-> saves, csrf |-> saves]
    BY <1>1 DEF Files, Resolve, OrError, Overlay, Whole, Saved
  <1>6. /\ result'.session \in 0 .. saves
        /\ cache'.session \in 0 .. saves
        /\ MtimeAdvances /\ ~saving => result' = [session |-> saves, csrf |-> saves]
    <2>1. CASE StatMissing
      BY <1>1, <2>1 DEF StatMissing, Return, OrError, Error, Files
    <2>2. CASE StatUnchanged
      BY <1>1, <1>5, <2>2 DEF StatUnchanged, Return, CachedPair, Files, Knowledge, CacheCoherent
    <2>3. CASE ReadFails
      BY <1>1, <1>5, <2>3 DEF ReadFails, Return, Error, Files
    <2>4. CASE ReadPair
      BY <1>1, <1>5, <2>4, ResolvedSession DEF ReadPair, Return, Files
    <2> QED
      BY <2>1, <2>2, <2>3, <2>4 DEF Returns
  <1>7. Files'
    BY <1>3, <1>6 DEF Files
  <1>8. ASSUME result' # Error PROVE result'.session \in Session
    <2>1. result'.session # 0
      BY <1>4, <1>8, ErrorIsNoPair
    <2> QED
      BY <1>1, <1>6, <2>1 DEF Files
  <1> QED
    BY <1>2, <1>3, <1>6, <1>7, <1>8

LEMMA EditKeepsFiles ==
    ASSUME FileInv, Files, Saves
    PROVE  /\ FileInv' /\ Files'
           /\ UNCHANGED result
  <1>1. FileInv'
    BY FileInvSteps DEF Next
  <1>2. TypeOK /\ saves \in Nat /\ saves >= 1 /\ saves <= MaxSaves + 1 /\ MaxSaves \in Nat
    BY SavesAssumption DEF FileInv, Files
  <1>3. /\ UNCHANGED <<fallback, cache, result>>
        /\ saves' \in Session /\ saves' >= saves
        /\ saving' => saves' # 1
        /\ ~saving' => file'.exists /\ file'.content = Saved(saves')
        /\ file'.content.session \in 0 .. saves'
    <2>1. \A k \in Nat : Saved(k).session = k /\ \A part \in Partial(k) : part.session \in 0 .. k
      BY DEF Saved, Partial
    <2>2. CASE SaveByRename
      BY <1>2, <2>1, <2>2 DEF SaveByRename, Becomes, Files
    <2>3. CASE BeginSave
      BY <1>2, <2>1, <2>3 DEF BeginSave, Becomes, Files
    <2>4. CASE FinishSave
      BY <1>2, <2>1, <2>4 DEF FinishSave, Becomes, Files
    <2> QED
      BY <2>2, <2>3, <2>4 DEF Saves
  <1> QED
    BY <1>1, <1>2, <1>3 DEF Files

-----------------------------------------------------------------------------
(* The invariant                                                            *)

LEMMA RotationStarts == RotationInit => RotationInv
  <1> SUFFICES ASSUME RotationInit PROVE RotationInv
    OBVIOUS
  <1>1. FileInv
    BY InitType, InitKnowledge, InitProvenance DEF RotationInit, FileInv
  <1>2. /\ fallback = [session |-> 1, csrf |-> 1] /\ file.exists /\ file.content = Saved(1)
        /\ saves = 1 /\ saving = FALSE /\ cache.session = 0 /\ result = Error
    BY DEF RotationInit, Init, Saved, Overlay, Error
  <1>3. 1 \in Session /\ Expiry[1] \in Nat
    BY SavesAssumption
  <1>4. Files
    BY <1>2, <1>3 DEF Files, Saved, Error
  <1>5. RotationTypeOK
    <2>1. Lapsing(1) \in BOOLEAN
      BY DEF Lapsing
    <2>2. lapsed \in BOOLEAN /\ disturbed \in BOOLEAN
      BY <2>1, Zenon DEF RotationInit
    <2>3. /\ clock = 1 /\ stage = "idle" /\ expiry = Expiry[1]
          /\ now = 0 /\ call = "none" /\ carried = 0 /\ since = 0
      BY Zenon DEF RotationInit, UseInit
    <2> QED
      BY <1>3, <2>2, <2>3 DEF RotationTypeOK, UseTypeOK
  <1>6. Causes
    <2>1. Installed = 1 /\ call = "none" /\ stage = "idle"
      BY <1>2 DEF RotationInit, UseInit, Installed
    <2>2. lapsed = Lapsing(1)
      BY Zenon DEF RotationInit
    <2> QED
      BY <2>1, <2>2 DEF Causes, HaltsOnlyOnLapse
  <1> QED
    BY <1>1, <1>4, <1>5, <1>6 DEF RotationInv

LEMMA RotationSteps == RotationInv /\ [RotationNext]_rotationVars => RotationInv'
  <1> SUFFICES ASSUME RotationInv, [RotationNext]_rotationVars PROVE RotationInv'
    OBVIOUS
  <1> USE DEF useVars, loopVars, requestVars, historyVars, HaltsOnlyOnLapse, Lapsing,
              Installed, UseTypeOK
  <1>0. /\ FileInv /\ Files /\ RotationTypeOK /\ Causes
        /\ saves \in Session /\ Installed \in Session /\ Session \subseteq Nat
        /\ clock \in Nat /\ Expiry[Installed] \in Nat /\ Expiry[saves] \in Nat \ {0}
        /\ Timeout \in Nat
    BY DEF RotationInv, Files, RotationTypeOK
  <1>1. UNCHANGED vars => FileInv' /\ Files'
    BY <1>0, FileInvSteps DEF vars, Files
  <1>2. CASE StartTick
    BY <1>0, <1>1, <1>2 DEF StartTick, TickStarts, RotationInv, RotationTypeOK, Causes, vars
  <1>3. CASE GotExpiry
    <2>1. /\ FileInv' /\ Files'
          /\ result' # Error => result'.session \in Session
          /\ MtimeAdvances /\ ~saving => result' = [session |-> saves, csrf |-> saves]
          /\ UNCHANGED <<file, saves, saving>>
      BY <1>0, <1>3, AnswersOfProvider DEF GotExpiry
    <2>2. /\ stage = "idle" /\ call' = "none" /\ now' = 0
          /\ expiry' = IF ReadExpiry(result'.session) = 0 THEN expiry ELSE ReadExpiry(result'.session)
          /\ stage' = IF Loop!Expired(expiry', now) THEN "halted" ELSE "ticking"
          /\ lapsed' = lapsed /\ disturbed' = (disturbed \/ saving)
          /\ UNCHANGED <<clock, requestVars>>
      BY <1>3 DEF GotExpiry, ExpiryRead, Returns, Loop!BeginTick
    <2>3. ReadExpiry(result'.session) \in Nat
      <3>1. CASE result' = Error
        <4>1. result'.session = 0
          BY <3>1 DEF Error
        <4> QED
          BY <4>1 DEF ReadExpiry
      <3>2. CASE result' # Error
        BY <1>0, <2>1, <3>2, UseAssumption DEF ReadExpiry
      <3> QED
        BY <3>1, <3>2
    <2>4. RotationTypeOK'
      BY <1>0, <2>2, <2>3 DEF RotationTypeOK
    <2>5. HaltsOnlyOnLapse'
      <3> SUFFICES ASSUME MtimeAdvances, stage' = "halted", ~disturbed' PROVE lapsed'
        OBVIOUS
      <3>1. ~saving
        BY <2>2
      <3>2. result' = [session |-> saves, csrf |-> saves] /\ saves # 0
        BY <1>0, <2>1, <3>1
      <3>3. expiry' = Expiry[saves]
        BY <1>0, <2>2, <3>2, ErrorIsNoPair DEF ReadExpiry
      <3>4. Expiry[saves] <= now /\ now <= clock /\ now \in Nat
        BY <1>0, <2>2, <3>3 DEF Loop!Expired, RotationTypeOK
      <3> QED
        BY <1>0, <2>2, <3>1, <3>4 DEF Causes
    <2> QED
      BY <1>0, <2>1, <2>2, <2>4, <2>5 DEF RotationInv, Causes
  <1>4. CASE TokensLacking
    <2>1. FileInv' /\ Files' /\ UNCHANGED <<saves, saving>>
      BY <1>0, <1>4, AnswersOfProvider DEF TokensLacking
    <2> QED
      BY <1>0, <1>4, <2>1
         DEF TokensLacking, TokensMissing, RequestOver, Returns, RotationInv, RotationTypeOK, Causes
  <1>5. CASE Send
    <2>1. /\ FileInv' /\ Files'
          /\ result'.session \in Session
          /\ MtimeAdvances /\ ~saving => result' = [session |-> saves, csrf |-> saves]
          /\ UNCHANGED <<saves, saving>>
      BY <1>0, <1>5, AnswersOfProvider DEF Send
    <2>2. /\ call = "tokens" /\ call' = "sent" /\ carried' = result'.session
          /\ lapsed' = lapsed /\ disturbed' = (disturbed \/ saving)
          /\ UNCHANGED <<clock, loopVars, now, since>>
      BY <1>5 DEF Send, RequestSent, Returns
    <2>3. clock \in since .. since + Timeout /\ since \in Nat
      BY <1>0, <2>2 DEF RotationTypeOK
    <2>4. MtimeAdvances => lapsed \/ disturbed' \/ Expiry[carried'] > since + Timeout
      <3> SUFFICES ASSUME MtimeAdvances, ~saving, ~lapsed
                   PROVE  Expiry[carried'] > since + Timeout
        BY <2>2
      <3>1. carried' = saves
        BY <2>1, <2>2
      <3>2. ~(Expiry[saves] <= clock + Timeout)
        BY <1>0 DEF Causes
      <3> QED
        BY <1>0, <2>3, <3>1, <3>2
    <2> QED
      BY <1>0, <2>1, <2>2, <2>4 DEF RotationInv, RotationTypeOK, Causes
  <1>6. CASE Reading
    <2>1. FileInv'
      BY <1>0, <1>6, FileInvSteps DEF Reading, Next, Tokens
    <2> QED
      BY <1>0, <1>6, <2>1
         DEF Reading, StatChanged, editorVars, RotationInv, RotationTypeOK, Causes, Files
  <1>7. CASE AskTokens
    BY <1>0, <1>1, <1>7 DEF AskTokens, TokensAsked, RotationInv, RotationTypeOK, Causes, vars
  <1>8. CASE Answered
    BY <1>0, <1>1, <1>8 DEF Answered, RequestAnswered, RequestOver, RotationInv, RotationTypeOK, Causes, vars
  <1>9. CASE Refused
    <2>1. /\ call = "sent" /\ Expiry[carried] <= clock /\ stage' = "halted"
          /\ call' = "none" /\ carried' = 0 /\ since' = 0
          /\ UNCHANGED <<clock, now, expiry, lapsed, disturbed, vars>>
      BY <1>9 DEF Refused, RequestRefused, RequestOver, Loop!Refused
    <2>2. clock <= since + Timeout /\ since \in Nat /\ Expiry[carried] \in Nat
      BY <1>0, <2>1 DEF RotationTypeOK, Causes
    <2>3. HaltsOnlyOnLapse'
      BY <1>0, <2>1, <2>2 DEF Causes
    <2> QED
      BY <1>0, <1>1, <2>1, <2>3 DEF RotationInv, RotationTypeOK, Causes, vars
  <1>10. CASE EndTick
    BY <1>0, <1>1, <1>10 DEF EndTick, TickEnds, Loop!EndTick, RotationInv, RotationTypeOK, Causes, vars
  <1>11. CASE Stop
    BY <1>0, <1>1, <1>11 DEF Stop, LoopStops, Loop!Stop, RotationInv, RotationTypeOK, Causes, vars
  <1>12. CASE Edit
    <2>1. FileInv' /\ Files'
      BY <1>0, <1>12, EditKeepsFiles DEF Edit
    <2>2. /\ lapsed' = (lapsed \/ Lapsing(Installed)')
          /\ UNCHANGED <<clock, loopVars, now, call, requestVars, disturbed>>
      BY <1>12 DEF Edit
    <2>3. RotationTypeOK'
      BY <1>0, <2>2 DEF RotationTypeOK
    <2> QED
      BY <1>0, <2>1, <2>2, <2>3 DEF RotationInv, Causes
  <1>13. CASE Advance
    <2>1. /\ lapsed' = (lapsed \/ Lapsing(Installed)') /\ clock' = clock + 1
          /\ call \in {"tokens", "sent"} => clock < since + Timeout
          /\ UNCHANGED <<loopVars, now, call, requestVars, disturbed, vars>>
      BY <1>13 DEF Advance, TimePasses
    <2>2. RotationTypeOK'
      BY <1>0, <2>1 DEF RotationTypeOK
    <2> QED
      BY <1>0, <1>1, <2>1, <2>2 DEF RotationInv, Causes
  <1>14. CASE UNCHANGED rotationVars
    BY <1>0, <1>1, <1>14 DEF rotationVars, RotationInv, RotationTypeOK, Causes, vars
  <1> QED
    BY <1>2, <1>3, <1>4, <1>5, <1>6, <1>7, <1>8, <1>9, <1>10, <1>11, <1>12, <1>13, <1>14
       DEF RotationNext, ProviderStep

LEMMA RotationInvariance == RotationSpec => []RotationInv
  BY RotationStarts, RotationSteps, PTL DEF RotationSpec

\* Types; no request is under way outside a tick or beyond its timeout.
THEOREM RotationTypeCorrect == RotationSpec => []RotationTypeOK
  <1>1. RotationInv => RotationTypeOK
    BY DEF RotationInv
  <1> QED
    BY <1>1, RotationInvariance, PTL

\* A halt goes back to cookies left until a request's time before their expiry,
\* or to a config.yaml read half written.
THEOREM HaltsOnlyOnLapseHolds == RotationSpec => []HaltsOnlyOnLapse
  <1>1. RotationInv => HaltsOnlyOnLapse
    BY DEF RotationInv, Causes
  <1> QED
    BY <1>1, RotationInvariance, PTL

\* Where the editor saves by rename, nothing is read half written.
RenameInv ==
    SaveModes \subseteq {"rename"} => ~saving /\ ~disturbed

LEMMA RenameSteps == RenameInv /\ [RotationNext]_rotationVars => RenameInv'
  <1> SUFFICES ASSUME SaveModes \subseteq {"rename"}, ~saving, ~disturbed,
                      [RotationNext]_rotationVars
               PROVE  ~saving' /\ ~disturbed'
    BY DEF RenameInv
  <1>1. Saves => ~saving'
    BY DEF Saves, SaveByRename, BeginSave, FinishSave
  <1>2. ASSUME Returns PROVE ~saving' /\ ~disturbed'
    <2>1. UNCHANGED saving
      BY <1>2 DEF Returns, StatMissing, StatUnchanged, ReadFails, ReadPair, Return, editorVars
    <2>2. disturbed' = (disturbed \/ saving)
      BY <1>2, Zenon DEF Returns
    <2> QED
      BY <2>1, <2>2
  <1>3. CASE GotExpiry \/ TokensLacking \/ Send
    BY <1>2, <1>3 DEF GotExpiry, TokensLacking, Send
  <1>4. CASE Reading
    BY <1>4 DEF Reading, StatChanged, editorVars, historyVars
  <1>5. CASE Edit
    BY <1>1, <1>5 DEF Edit
  <1>6. CASE StartTick \/ AskTokens \/ Answered \/ Refused \/ EndTick \/ Stop \/ Advance
    BY <1>6 DEF StartTick, AskTokens, Answered, Refused, EndTick, Stop, Advance,
                historyVars, vars
  <1>7. CASE UNCHANGED rotationVars
    BY <1>7 DEF rotationVars, historyVars, vars
  <1> QED
    BY <1>3, <1>4, <1>5, <1>6, <1>7 DEF RotationNext, ProviderStep

RenamesNeedNoRestart ==
    SaveModes \subseteq {"rename"} /\ MtimeAdvances => (stage = "halted" => lapsed)

\* Saved by rename, config.yaml is never found half written, and new cookies saved
\* in good time never cost a restart: neither the expiry a tick began with, nor
\* the cookies a request has taken from the cache, outlive them
\* (token_provider.go:17-19, 66, poller.go:232-244).
THEOREM RenamesNeedNoRestartHolds == RotationSpec => []RenamesNeedNoRestart
  <1>1. RotationInit => RenameInv
    BY DEF RotationInit, Init, RenameInv
  <1>2. HaltsOnlyOnLapse /\ RenameInv => RenamesNeedNoRestart
    BY DEF HaltsOnlyOnLapse, RenameInv, RenamesNeedNoRestart
  <1>3. RotationSpec => []RenameInv
    BY <1>1, RenameSteps, PTL DEF RotationSpec
  <1> QED
    BY <1>2, <1>3, HaltsOnlyOnLapseHolds, PTL

\* The provider in the loop's hands is the one FileTokensProofs speaks of.
THEOREM RotationImplementsProvider == RotationSpec => Spec
  <1>1. RotationInit => Init
    BY DEF RotationInit
  <1>2. ASSUME [RotationNext]_rotationVars PROVE [Next]_vars
    <2>1. CASE Reading \/ GotExpiry \/ TokensLacking \/ Send
      BY <2>1 DEF Reading, GotExpiry, TokensLacking, Send, Returns, Next, Tokens
    <2>2. CASE Edit
      BY <2>2 DEF Edit, Next
    <2>3. CASE StartTick \/ AskTokens \/ Answered \/ Refused \/ EndTick \/ Stop \/ Advance
      BY <2>3 DEF StartTick, AskTokens, Answered, Refused, EndTick, Stop, Advance
    <2>4. CASE UNCHANGED rotationVars
      BY <2>4 DEF rotationVars
    <2> QED
      BY <1>2, <2>1, <2>2, <2>3, <2>4 DEF RotationNext, ProviderStep
  <1> QED
    BY <1>1, <1>2, PTL DEF RotationSpec, Spec

=============================================================================
