---------------------------- MODULE DirRotation -----------------------------
(* How new cookies get from a mounted Secret to the portal: the loop and the *)
(* client (CookieUse) over the directory provider (DirTokens), while the     *)
(* Secret may be updated at any moment, also to one that lacks a key.        *)
EXTENDS DirTokens, CookieUse

\* Each version of the Secret may bring a session.
ASSUME DirRotationAssumption == Session = 1 .. MaxUpdates + 1

VARIABLES
    latest,   \* history: the session the directory holds, or held last
    lapsed    \* history: that session had no more than Timeout to live

historyVars == <<latest, lapsed>>
rotationVars == <<useVars, historyVars, vars>>

-----------------------------------------------------------------------------

\* There is a poller only if the Secret could be read at startup.
RotationInit ==
    /\ Init
    /\ mounted.keys = Key
    /\ UseInit(1)
    /\ latest = 1
    /\ lapsed = Lapsing(1)

StartTick == TickStarts /\ UNCHANGED <<historyVars, vars>>

\* The first file is open; the second is still to be read.
Reading ==
    /\ call \in {"expiry", "tokens"}
    /\ ReadSession
    /\ UNCHANGED <<useVars, historyVars>>

\* Tokens returns.
Returns == (ReadCSRF \/ ReadFails) /\ UNCHANGED historyVars

GotExpiry == Returns /\ ExpiryRead(result'.session)

AskTokens == TokensAsked /\ UNCHANGED <<historyVars, vars>>

TokensLacking == Returns /\ result' = Error /\ TokensMissing

Send == Returns /\ result' # Error /\ RequestSent(result'.session)

Answered == RequestAnswered /\ UNCHANGED <<historyVars, vars>>

Refused == RequestRefused /\ UNCHANGED <<historyVars, vars>>

EndTick == TickEnds /\ UNCHANGED <<historyVars, vars>>

Stop == LoopStops /\ UNCHANGED <<historyVars, vars>>

\* The Secret is updated, or what is mounted is brought up to it.
Update ==
    /\ Apply \/ Sync
    /\ UNCHANGED useVars
    /\ latest' = IF "session-token" \in mounted'.keys THEN mounted'.version ELSE latest
    /\ lapsed' = (lapsed \/ Lapsing(latest'))

Advance ==
    /\ TimePasses
    /\ UNCHANGED <<latest, vars>>
    /\ lapsed' = (lapsed \/ Lapsing(latest)')

-----------------------------------------------------------------------------
(* The specification                                                        *)

ProviderStep == Reading \/ GotExpiry \/ TokensLacking \/ Send

RotationNext ==
    \/ StartTick \/ ProviderStep \/ AskTokens \/ Answered \/ Refused
    \/ EndTick \/ Stop
    \/ Update \/ Advance

\* The goroutine is scheduled, calls end, a tick makes finitely many of them, and
\* the kubelet syncs. Nothing obliges anyone to update the Secret or to stop.
RotationFairness ==
    /\ WF_rotationVars(StartTick)
    /\ WF_rotationVars(ProviderStep)
    /\ WF_rotationVars(Answered)
    /\ SF_rotationVars(EndTick)
    /\ WF_rotationVars(Sync /\ Update)

RotationSpec == RotationInit /\ [][RotationNext]_rotationVars
LiveRotationSpec == RotationSpec /\ RotationFairness

-----------------------------------------------------------------------------
(* Properties                                                               *)

\* Types of what DirRotation adds.
RotationTypeOK == UseTypeOK /\ latest \in Session /\ lapsed \in BOOLEAN

\* The loop gives up for good only if the mounted session was once within a
\* request's time of its expiry, or in a tick that could not read the Secret and
\* went by an expiry it had read before: neither an update between the expiry
\* check and a request, nor one between the two reads of a call, nor a Secret
\* that was broken for a while costs a restart by itself
\* (dir_token_provider.go:42-52, poller.go:232-244, client.go:123-127).
DirHaltsOnlyOnLapse == stage = "halted" => lapsed \/ result = Error

\* A complete Secret reaches the client whole, and its expiry gets to be the one
\* the loop goes by and shows, unless the Secret is changed again or the loop has
\* ended: a torn pair does not stay (dir_token_provider.go:14-18,
\* poller.go:232-240).
UpdateArrives ==
    \A v \in Session :
        (secret = [version |-> v, keys |-> Key])
            ~> (\/ secret.version # v \/ stage \in {"halted", "stopped"}
                \/ result = [session |-> v, csrf |-> v] /\ expiry = Expiry[v])

=============================================================================
