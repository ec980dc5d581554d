------------------------------ MODULE TickLoop ------------------------------
(* The polling loop as the rest of the daemon may rely on it: whether it is *)
(* in a tick, whether it has given up, and which session expiry it goes by. *)
(* Module Poller implements it (Poller!LoopIsATickLoop); module CookieUse   *)
(* puts it to work on the providers the expiry is read from.                *)
EXTENDS Naturals

VARIABLES
    stage,   \* "idle", "ticking", "halted" (authFailed) or "stopped" (ctx done)
    expiry   \* Poller.sessionExpiresAt; 0: unknown

vars == <<stage, expiry>>

Expired(exp, t) == exp # 0 /\ exp <= t

Init == stage = "idle" /\ expiry \in Nat

\* Mutant: the expiry is read once, when the loop is built.
BeginTickBlind(now, read) ==
    /\ stage = "idle"
    /\ UNCHANGED expiry
    /\ stage' = IF Expired(expiry, now) THEN "halted" ELSE "ticking"

\* A tick timed at now has read this expiry from the provider; 0: it could not.
BeginTick(now, read) ==
    /\ stage = "idle"
    /\ expiry' = IF read = 0 THEN expiry ELSE read
    /\ stage' = IF Expired(expiry', now) THEN "halted" ELSE "ticking"

\* The tick is recorded, and the timer is set again.
EndTick == stage = "ticking" /\ stage' = "idle" /\ UNCHANGED expiry

\* The tick ends with a 401 or 403, after which there is no other.
Refused == stage = "ticking" /\ stage' = "halted" /\ UNCHANGED expiry

\* ctx.Done(), between ticks only.
Stop == stage = "idle" /\ stage' = "stopped" /\ UNCHANGED expiry

\* A step of the loop, when its ticks are timed by `now` and find the expiry `read`.
Step(now, read) == BeginTick(now, read) \/ EndTick \/ Refused \/ Stop

=============================================================================
