------------------------------ MODULE Rotation ------------------------------
(* How new cookies get from config.yaml to the portal: the loop and the      *)
(* client (CookieUse) over the file provider (FileTokens), while the user    *)
(* may save new cookies at any moment.                                       *)
EXTENDS FileTokens, CookieUse

\* The cookies are in config.yaml alone, as in docs/setup.md.
ASSUME RotationAssumption ==
    /\ EnvPair = Error /\ StartContents = {Saved(1)}
    /\ Session = 1 .. MaxSaves + 1

VARIABLES
    lapsed,         \* history: the cookies installed had less than Timeout to live
    disturbed       \* history: the provider has answered while a save was under way

historyVars == <<lapsed, disturbed>>
rotationVars == <<useVars, historyVars, vars>>

-----------------------------------------------------------------------------

\* The cookies the user has installed: those of the latest finished save.
Installed == IF saving THEN saves - 1 ELSE saves

\* The provider answers, whichever way it comes to it.
Returns ==
    /\ StatMissing \/ StatUnchanged \/ ReadFails \/ ReadPair
    /\ disturbed' = (disturbed \/ saving)
    /\ UNCHANGED lapsed

\* That New leaves the provider's cache filled makes no difference to what later
\* calls answer.
RotationInit ==
    /\ Init
    /\ UseInit(1)
    /\ lapsed = Lapsing(1) /\ disturbed = FALSE

StartTick == TickStarts /\ UNCHANGED <<historyVars, vars>>

GotExpiry == Returns /\ ExpiryRead(result'.session)

EndTick == TickEnds /\ UNCHANGED <<historyVars, vars>>

Stop == LoopStops /\ UNCHANGED <<historyVars, vars>>

\* Mutant: the cookies of the tick's beginning serve for all its requests.
AskTokensOfTheTick ==
    /\ stage = "ticking" /\ call = "none" /\ result # Error
    /\ call' = "sent"
    /\ carried' = result.session
    /\ since' = clock
    /\ UNCHANGED <<clock, loopVars, now, historyVars, vars>>

AskTokens == TokensAsked /\ UNCHANGED <<historyVars, vars>>

TokensLacking == Returns /\ result' = Error /\ TokensMissing

Send == Returns /\ result' # Error /\ RequestSent(result'.session)

\* The provider goes from its stat to its read.
Reading ==
    /\ call \in {"expiry", "tokens"}
    /\ StatChanged
    /\ UNCHANGED <<useVars, historyVars>>

Answered == RequestAnswered /\ UNCHANGED <<historyVars, vars>>

Refused == RequestRefused /\ UNCHANGED <<historyVars, vars>>

Edit ==
    /\ Saves
    /\ UNCHANGED <<useVars, disturbed>>
    /\ lapsed' = (lapsed \/ Lapsing(Installed)')

Advance ==
    /\ TimePasses
    /\ UNCHANGED <<disturbed, vars>>
    /\ lapsed' = (lapsed \/ Lapsing(Installed)')

-----------------------------------------------------------------------------
(* The specification                                                        *)

ProviderStep == GotExpiry \/ TokensLacking \/ Send \/ Reading

RotationNext ==
    \/ StartTick \/ ProviderStep \/ AskTokens \/ Answered \/ Refused
    \/ EndTick \/ Stop
    \/ Edit \/ Advance

\* The goroutine is scheduled, calls end, an editor finishes its save; and a
\* tick makes finitely many calls. Nothing obliges anyone to rotate or to stop.
Fairness ==
    /\ WF_rotationVars(StartTick)
    /\ WF_rotationVars(ProviderStep)
    /\ WF_rotationVars(Answered)
    /\ SF_rotationVars(EndTick)
    /\ WF_rotationVars(FinishSave /\ Edit)

RotationSpec == RotationInit /\ [][RotationNext]_rotationVars
LiveRotationSpec == RotationSpec /\ Fairness

-----------------------------------------------------------------------------
(* Properties                                                               *)

\* Types of what Rotation adds.
RotationTypeOK ==
    /\ UseTypeOK
    /\ lapsed \in BOOLEAN /\ disturbed \in BOOLEAN

\* The loop gives up for good only if the cookies installed were once within a
\* request's time of their expiry, or config.yaml was read half written: a tick
\* or a request that crosses a rotation in good time is not taken for a lost
\* session (poller.go:232-244, client.go:119-127, token_provider.go:57-97).
HaltsOnlyOnLapse == MtimeAdvances /\ stage = "halted" => lapsed \/ disturbed

\* The expiry of installed cookies, or of later ones, gets to be the one the loop
\* goes by and shows, unless the loop has ended (poller.go:232-240).
RotationIsShown ==
    MtimeAdvances =>
        \A k \in Session :
            (saves = k /\ ~saving) ~>
                (stage \in {"halted", "stopped"} \/ \E j \in k .. MaxSaves + 1 : expiry = Expiry[j])

-----------------------------------------------------------------------------
(* Documented behaviour the daemon does not have                            *)

\* "The user can edit config.yaml in place and the daemon picks up the new
\* cookies on its next upstream request without restarting the container"
\* (token_provider.go:17-19): not if the loop reads the file half written, falls
\* back on the cookies of startup, long expired, and halts.
NoRestartIsNeeded == stage = "halted" => lapsed

=============================================================================
