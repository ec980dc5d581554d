----------------------------- MODULE CookieUse ------------------------------
(* What the daemon does with the cookies of a TokenProvider: the loop       *)
(* (TickLoop, which module Poller implements) asks for the session's expiry *)
(* once a tick, and Client.do asks for both cookies again for each request, *)
(* which the HTTP client lets live for 30 s. How the provider comes to its  *)
(* answer is left to the modules that compose this one with a provider      *)
(* (Rotation, DirRotation); so are the number of requests of a tick and     *)
(* when it begins. A session is the number of the change that brought it.   *)
EXTENDS Integers

CONSTANTS
    Session,   \* the sessions there may be
    Expiry,    \* the exp claim of each
    Timeout,   \* defaultTimeout of the HTTP client
    MaxClock   \* bound: the last instant

ASSUME UseAssumption ==
    /\ Session \subseteq Nat \ {0}
    /\ Expiry \in [Session -> Nat \ {0}]
    /\ Timeout \in Nat /\ MaxClock \in Nat

VARIABLES
    clock,
    stage, expiry,  \* the loop, as in TickLoop
    now,            \* when the tick began
    call,           \* what the provider or the portal is asked for: "none",
                    \* "expiry", "tokens" or "sent"
    carried,        \* the session in the request under way
    since           \* when Client.do was called

loopVars == <<stage, expiry>>
requestVars == <<carried, since>>
useVars == <<clock, loopVars, now, call, requestVars>>

Loop == INSTANCE TickLoop

\* ParseJWTExpiry of the session in an answer of the provider; 0: an error.
ReadExpiry(session) == IF session = 0 THEN 0 ELSE Expiry[session]

\* A session with no more than a request's time to live.
Lapsing(session) == Expiry[session] <= clock + Timeout

\* New has read the expiry of the session there is at startup.
UseInit(session) ==
    /\ clock = 1
    /\ stage = "idle" /\ expiry = Expiry[session]
    /\ now = 0 /\ call = "none" /\ carried = 0 /\ since = 0

-----------------------------------------------------------------------------
(* The loop                                                                 *)

TickStarts ==
    /\ stage = "idle" /\ call = "none"
    /\ call' = "expiry"
    /\ now' = clock
    /\ UNCHANGED <<clock, loopVars, requestVars>>

\* The provider has answered the tick.
ExpiryRead(session) ==
    /\ call = "expiry"
    /\ Loop!BeginTick(now, ReadExpiry(session))
    /\ call' = "none" /\ now' = 0
    /\ UNCHANGED <<clock, requestVars>>

TickEnds ==
    /\ call = "none"
    /\ Loop!EndTick
    /\ UNCHANGED <<clock, now, call, requestVars>>

LoopStops ==
    /\ call = "none"
    /\ Loop!Stop
    /\ UNCHANGED <<clock, now, call, requestVars>>

-----------------------------------------------------------------------------
(* Client.do, and the portal                                                *)

\* Each attempt of each call of a tick begins by asking the provider.
TokensAsked ==
    /\ stage = "ticking" /\ call = "none"
    /\ call' = "tokens"
    /\ since' = clock
    /\ UNCHANGED <<clock, loopVars, now, carried>>

RequestOver == call' = "none" /\ carried' = 0 /\ since' = 0

\* "fetch tokens": the provider has failed, and nothing is sent.
TokensMissing ==
    /\ call = "tokens"
    /\ RequestOver
    /\ UNCHANGED <<clock, loopVars, now>>

\* The provider has answered the request.
RequestSent(session) ==
    /\ call = "tokens"
    /\ call' = "sent"
    /\ carried' = session
    /\ UNCHANGED <<clock, loopVars, now, since>>

\* An answer, an error or the timeout; or a refusal whose error is dropped.
RequestAnswered ==
    /\ call = "sent"
    /\ RequestOver
    /\ UNCHANGED <<clock, loopVars, now>>

\* The portal refuses the sessions that have expired, and no other.
RequestRefused ==
    /\ call = "sent"
    /\ Expiry[carried] <= clock
    /\ Loop!Refused
    /\ RequestOver
    /\ UNCHANGED <<clock, now>>

\* A request that reaches its timeout ends; reading a file takes no time.
TimePasses ==
    /\ clock < MaxClock
    /\ call \in {"tokens", "sent"} => clock < since + Timeout
    /\ clock' = clock + 1
    /\ UNCHANGED <<loopVars, now, call, requestVars>>

-----------------------------------------------------------------------------

\* Types of the loop and its request; a request is under way within a tick only,
\* and never beyond its timeout.
UseTypeOK ==
    /\ clock \in Nat /\ now \in 0 .. clock
    /\ stage \in {"idle", "ticking", "halted", "stopped"} /\ expiry \in Nat
    /\ call \in {"none", "expiry", "tokens", "sent"}
    /\ call \in {"tokens", "sent"} => stage = "ticking" /\ clock \in since .. since + Timeout
    /\ carried \in Session \cup {0} /\ since \in Nat

=============================================================================
