----------------------------- MODULE Lifecycle ------------------------------
(* The life of the daemon as its operator may rely on it: when it polls and  *)
(* when it serves, which of the two can bring the other down, and what its   *)
(* error on exit stands for. Module Services implements it                     *)
(* (Services!DaemonIsALifecycle).                                            *)
VARIABLES
    phase,    \* "starting", "up" or "exited"
    told,     \* a signal has asked it to stop
    polling,  \* "none", "running", "halted" (the session is lost) or "stopped"
    serving,  \* "notYet", "yes", "failed" or, on a signal, "ended"
    result    \* what run returns: nil or an error

lifeVars == <<phase, told, polling, serving, result>>

LifeInit ==
    /\ phase = "starting" /\ told = FALSE
    /\ polling = "none" /\ serving = "notYet" /\ result = "none"

Tell ==
    /\ phase # "exited"
    /\ ~told /\ told' = TRUE
    /\ UNCHANGED <<phase, polling, serving, result>>

\* A bad configuration is reported before anything runs.
RejectConfig ==
    /\ phase = "starting"
    /\ phase' = "exited" /\ result' = "config"
    /\ UNCHANGED <<told, polling, serving>>

\* Whether the daemon polls is decided once, when it comes up.
ComeUp ==
    /\ phase = "starting"
    /\ phase' = "up" /\ polling' \in {"none", "running"}
    /\ UNCHANGED <<told, serving, result>>

Serve ==
    /\ phase = "up"
    /\ serving = "notYet" /\ serving' = "yes"
    /\ UNCHANGED <<phase, told, polling, result>>

Fail ==
    /\ phase = "up"
    /\ serving \in {"notYet", "yes"} /\ serving' = "failed"
    /\ UNCHANGED <<phase, told, polling, result>>

\* It takes a signal to end the serving; a failure may be lost to it.
Withdraw ==
    /\ phase = "up" /\ told
    /\ serving # "ended" /\ serving' = "ended"
    /\ UNCHANGED <<phase, polling, told, result>>

\* Polling may halt by itself and leaves the serving alone; it is stopped by a
\* signal, or by a server that has failed.
PollingEnds ==
    /\ polling = "running"
    /\ \/ polling' = "halted"
       \/ polling' = "stopped" /\ (told \/ serving = "failed")
    /\ UNCHANGED <<phase, told, serving, result>>

\* Nothing is left behind, and a failure is not taken for a clean end.
Exit ==
    /\ phase = "up" /\ polling # "running"
    /\ \/ serving = "failed" /\ result' = "listen"
       \/ serving = "ended" /\ result' \in {"ok", "deadline"}
    /\ phase' = "exited"
    /\ UNCHANGED <<told, polling, serving>>

LifeNext ==
    \/ Tell \/ RejectConfig \/ ComeUp \/ Serve \/ Fail \/ Withdraw \/ PollingEnds
    \/ Exit

LifeSpec == LifeInit /\ [][LifeNext]_lifeVars

=============================================================================
