------------------------------ MODULE Services ------------------------------
(* The life of the daemon: run and runServices (cmd/gaf-exporter/main.go)   *)
(* start the poller and the HTTP server as goroutines under one context and *)
(* wait for both; Server.Run (internal/server/server.go) starts a third     *)
(* goroutine that listens, and drains requests for at most 5 s on the way   *)
(* out. The poller's inside is module Poller, the reading of the            *)
(* configuration module Startup; net/http is modelled by what Server.Run    *)
(* relies on.                                                               *)
EXTENDS Startup, Naturals, Sequences

CONSTANTS
    Client,       \* who may have an HTTP request in flight
    ConfigFiles,  \* what --config may name
    Overrides     \* what --listen may be; NoAddress when it is not given

ASSUME InputsAssumption == ConfigFiles \subseteq ConfigFile /\ Overrides \subseteq Address

VARIABLES
    inputs,     \* the configuration file and the command line
    listen,     \* cfg.Listen
    cookies,    \* a usable pair of cookies can be read now
    signalled,  \* SIGINT or SIGTERM has arrived: the context run was given is done
    cancelled,  \* runServices has cancelled its own context
    main,       \* the main goroutine
    poller,     \* the poller goroutine; "none" when it was never started
    server,     \* the goroutine in Server.Run
    listener,   \* the goroutine in ListenAndServe
    errCh,      \* the channel of capacity 1 between those two
    errs,       \* the channel of runServices
    busy,       \* clients whose request is being served
    result      \* what run returned

envVars == <<inputs, cookies, signalled>>
mainVars == <<listen, main, result>>
stopVars == <<cancelled, errs>>
httpVars == <<server, listener, errCh, busy>>
vars == <<envVars, mainVars, stopVars, poller, httpVars>>

ContextDone == signalled \/ cancelled

\* http.Server.Shutdown has been called: nothing is accepted any more.
ShutdownCalled == server \notin {"none", "starting", "selecting"}

Init ==
    /\ inputs \in [file : ConfigFiles, override : Overrides]
    /\ listen = NoAddress
    /\ cookies \in BOOLEAN
    /\ signalled = FALSE /\ cancelled = FALSE
    /\ main = "loading"
    /\ poller = "none" /\ server = "none" /\ listener = "none"
    /\ errCh = "empty" /\ errs = <<>>
    /\ busy = {}
    /\ result = "none"

-----------------------------------------------------------------------------
(* main: run, buildPoller, runServices                                      *)

LoadConfig ==
    /\ main = "loading"
    /\ Loads(inputs.file)
    /\ listen' = BindAddress(inputs.file, inputs.override)
    /\ main' = "building"
    /\ UNCHANGED <<envVars, result, stopVars, poller, httpVars>>

\* The file is missing, does not parse or is not valid.
LoadFails ==
    /\ main = "loading"
    /\ ~Loads(inputs.file)
    /\ main' = "exited"
    /\ result' = "config"
    /\ UNCHANGED <<envVars, listen, stopVars, poller, httpVars>>

\* Cookies are tried once; without them there is no poller for good.
StartServices ==
    /\ main = "building"
    /\ main' = "waiting"
    /\ poller' = IF cookies THEN "running" ELSE "none"
    /\ server' = "starting"
    /\ UNCHANGED <<envVars, listen, result, stopVars, listener, errCh, busy>>

\* Mutant: the poller is not added to the WaitGroup.
ServicesDoneServerOnly == server = "done"

\* The WaitGroup counts the poller, if it was started, and the server.
ServicesDone == poller # "running" /\ server = "done"

ReturnFromRun ==
    /\ main = "waiting"
    /\ ServicesDone
    /\ main' = "exited"
    /\ result' = IF errs = <<>> THEN "ok" ELSE Head(errs)
    /\ UNCHANGED <<envVars, listen, stopVars, poller, httpVars>>

-----------------------------------------------------------------------------
(* The poller goroutine: Run returns nil, whether told to stop or halted    *)

\* Mutant: the context is cancelled whenever the poller returns.
PollerReturnsCancelling(why) ==
    /\ poller = "running"
    /\ poller' = why
    /\ cancelled' = TRUE
    /\ UNCHANGED <<envVars, mainVars, errs, httpVars>>

PollerReturns(why) ==
    /\ poller = "running"
    /\ poller' = why
    /\ UNCHANGED <<envVars, mainVars, stopVars, httpVars>>

PollerHalts == PollerReturns("halted")

PollerStops == ContextDone /\ PollerReturns("stopped")

-----------------------------------------------------------------------------
(* The server goroutine: Server.Run                                         *)

ServerStarts ==
    /\ server = "starting"
    /\ server' = "selecting"
    /\ listener' = "starting"
    /\ UNCHANGED <<envVars, mainVars, stopVars, poller, errCh, busy>>

\* select takes ctx.Done(), even when errCh is ready too.
BeginShutdown ==
    /\ server = "selecting"
    /\ ContextDone
    /\ server' = "closing"
    /\ UNCHANGED <<envVars, mainVars, stopVars, poller, listener, errCh, busy>>

\* Shutdown looks for busy connections before it first waits, and again until
\* none is left.
Drain ==
    /\ \/ server = "closing"  /\ server' = IF busy = {} THEN "awaiting" ELSE "draining"
       \/ server = "draining" /\ busy = {} /\ server' = "awaiting"
    /\ UNCHANGED <<envVars, mainVars, stopVars, poller, listener, errCh, busy>>

\* Mutants: the goroutine goes on after an error, or does not cancel the context.
ServerFailsOnward(err) ==
    /\ UNCHANGED server
    /\ errs' = Append(errs, err)
    /\ cancelled' = TRUE
    /\ UNCHANGED <<envVars, mainVars, poller, listener, busy>>
ServerFailsAlone(err) ==
    /\ server' = "done"
    /\ errs' = Append(errs, err)
    /\ UNCHANGED <<envVars, mainVars, cancelled, poller, listener, busy>>

\* Run returns an error, which is sent before the context is cancelled.
ServerFails(err) ==
    /\ server' = "done"
    /\ errs' = Append(errs, err)
    /\ cancelled' = TRUE
    /\ UNCHANGED <<envVars, mainVars, poller, listener, busy>>

\* The 5 s are over; the last request may have ended since the last look.
DrainTimesOut ==
    /\ server = "draining"
    /\ ServerFails("deadline")
    /\ UNCHANGED errCh

\* What the listener had to say is dropped.
ShutdownDone ==
    /\ server = "awaiting"
    /\ errCh # "empty"
    /\ errCh' = "empty"
    /\ server' = "done"
    /\ UNCHANGED <<envVars, mainVars, stopVars, poller, listener, busy>>

ListenerLost ==
    /\ server = "selecting"
    /\ errCh = "failed"
    /\ errCh' = "empty"
    /\ ServerFails("listen")

-----------------------------------------------------------------------------
(* The listening goroutine, and net/http                                    *)

\* ListenAndServe binds the address, unless Shutdown came first.
Listen ==
    /\ listener = "starting"
    /\ ~ShutdownCalled
    /\ listener' = "serving"
    /\ UNCHANGED <<envVars, mainVars, stopVars, poller, server, errCh, busy>>

\* The address is taken, or accepting connections fails for good.
ListenFails ==
    /\ \/ listener = "starting"
       \/ listener = "serving" /\ ~ShutdownCalled
    /\ listener' = "failed"
    /\ UNCHANGED <<envVars, mainVars, stopVars, poller, server, errCh, busy>>

ListenEnds ==
    /\ listener \in {"starting", "serving"}
    /\ ShutdownCalled
    /\ listener' = "closed"
    /\ UNCHANGED <<envVars, mainVars, stopVars, poller, server, errCh, busy>>

\* Mutant: errCh has no buffer, so that sending waits for a receiver.
SendOutcomeUnbuffered ==
    /\ listener \in {"failed", "closed"}
    /\ errCh = "empty"
    /\ server \in {"selecting", "awaiting"}
    /\ errCh' = listener
    /\ listener' = "done"
    /\ UNCHANGED <<envVars, mainVars, stopVars, poller, server, busy>>

\* errCh <- srv.ListenAndServe()
SendOutcome ==
    /\ listener \in {"failed", "closed"}
    /\ errCh = "empty"
    /\ errCh' = listener
    /\ listener' = "done"
    /\ UNCHANGED <<envVars, mainVars, stopVars, poller, server, busy>>

RequestBegins(c) ==
    /\ main # "exited"
    /\ listener = "serving" /\ ~ShutdownCalled
    /\ c \notin busy
    /\ busy' = busy \cup {c}
    /\ UNCHANGED <<envVars, mainVars, stopVars, poller, server, listener, errCh>>

RequestEnds(c) ==
    /\ main # "exited"
    /\ c \in busy
    /\ busy' = busy \ {c}
    /\ UNCHANGED <<envVars, mainVars, stopVars, poller, server, listener, errCh>>

\* NewHandler: without a poller there is only /healthz.
Paths == {"/healthz"} \cup IF poller = "none" THEN {} ELSE {"/metrics", "/api/state"}

\* A healthcheck with this --listen is answered with a 200.
ProbeSucceeds(override) ==
    /\ listener = "serving" /\ ~ShutdownCalled
    /\ Reaches(ProbeAddress(override), listen)
    /\ "/healthz" \in Paths

-----------------------------------------------------------------------------
(* The environment                                                          *)

Signal ==
    /\ main # "exited" /\ ~signalled
    /\ signalled' = TRUE
    /\ UNCHANGED <<inputs, cookies, mainVars, stopVars, poller, httpVars>>

EditCookies ==
    /\ main # "exited"
    /\ cookies' = ~cookies
    /\ UNCHANGED <<inputs, signalled, mainVars, stopVars, poller, httpVars>>

-----------------------------------------------------------------------------
(* The daemon from outside                                                  *)

Phase ==
    CASE main \in {"loading", "building"} -> "starting"
      [] main = "waiting" -> "up"
      [] OTHER -> "exited"

\* The listener has failed, and no shutdown has begun that would drop the error.
Failed ==
    errs = <<"listen">> \/ (~ShutdownCalled /\ "failed" \in {listener, errCh})

Serving ==
    CASE Failed -> "failed"
      [] ~Failed /\ ShutdownCalled -> "ended"
      [] ~Failed /\ ~ShutdownCalled -> IF listener = "serving" THEN "yes" ELSE "notYet"

Life == INSTANCE Lifecycle
    WITH phase <- Phase, told <- signalled, polling <- poller, serving <- Serving

-----------------------------------------------------------------------------
(* The specification                                                        *)

MainStep == LoadConfig \/ LoadFails \/ StartServices \/ ReturnFromRun
PollerStep == PollerHalts \/ PollerStops
ServerStep ==
    ServerStarts \/ BeginShutdown \/ Drain \/ DrainTimesOut \/ ShutdownDone \/ ListenerLost
ListenerStep == Listen \/ ListenFails \/ ListenEnds \/ SendOutcome

Next ==
    \/ MainStep \/ PollerStep \/ ServerStep \/ ListenerStep
    \/ \E c \in Client : RequestBegins(c) \/ RequestEnds(c)
    \/ Signal \/ EditCookies

\* Goroutines are scheduled and the drain's timer fires. That the poller stops
\* once its context is done is ShutdownCompletes of module Poller. Nothing
\* obliges a client to finish its request, or anyone to send a signal.
Fairness ==
    /\ WF_vars(MainStep)
    /\ WF_vars(PollerStops)
    /\ WF_vars(ServerStep)
    /\ WF_vars(Listen \/ ListenEnds)
    /\ WF_vars(SendOutcome)

Spec == Init /\ [][Next]_vars
LiveSpec == Spec /\ Fairness

-----------------------------------------------------------------------------
(* Properties                                                               *)

\* Where each goroutine may be, and what each channel may hold: errs, which has
\* room for one error of each service, is never full when one is sent.
TypeOK ==
    /\ inputs \in [file : ConfigFiles, override : Overrides]
    /\ listen \in Address \cup {DefaultListen}
    /\ cookies \in BOOLEAN /\ signalled \in BOOLEAN /\ cancelled \in BOOLEAN
    /\ main \in {"loading", "building", "waiting", "exited"}
    /\ poller \in {"none", "running", "halted", "stopped"}
    /\ server \in {"none", "starting", "selecting", "closing", "draining", "awaiting", "done"}
    /\ listener \in {"none", "starting", "serving", "failed", "closed", "done"}
    /\ errCh \in {"empty", "failed", "closed"}
    /\ errs \in Seq({"listen", "deadline"}) /\ Len(errs) <= 2
    /\ busy \subseteq Client
    /\ result \in {"none", "config", "ok", "listen", "deadline"}

\* run returns nil only when it was told to stop, with no request cut short and
\* with the poller gone (main.go:179, server.go:72-78).
CleanExitIsClean ==
    result = "ok" => signalled /\ busy = {} /\ poller # "running"

\* While the daemon serves, with or without a poller, a probe that is given the
\* same --listen finds it, although the two fill in defaults and hosts each in
\* its own way; a probe without the flag finds a daemon whose file does not move
\* it from the default address (healthcheck.go:14-22, main.go:48-62).
ProbeFindsTheServer ==
    /\ listener = "serving" /\ ~ShutdownCalled
    /\ inputs.override # NoAddress \/ FileListen(inputs.file) = DefaultListen
    => ProbeSucceeds(inputs.override)

\* Seen from outside, the daemon lives as module Lifecycle describes: only a signal
\* ends the serving, a failure to serve ends the polling but not the reverse, and
\* what run returns tells which it was (main.go:137-192, server.go:61-85).
DaemonIsALifecycle == Life!LifeSpec

\* After a signal, or when the listener fails, run returns, whatever the clients
\* do (server.go:71-84, main.go:148-151).
EndsWhenTold == signalled \/ listener = "failed" ~> main = "exited"

\* The listening goroutine never stays blocked on errCh, not even when the
\* drain timed out and nobody receives from it (server.go:64).
ListenerIsNotLeaked == listener \in {"failed", "closed"} ~> listener = "done"

=============================================================================
