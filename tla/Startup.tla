------------------------------- MODULE Startup -------------------------------
(* What the daemon makes of its configuration file and command line, and    *)
(* where its own healthcheck looks for it: Load and Validate                *)
(* (internal/config/config.go), the --listen override (main.go) and the     *)
(* address of the probe (healthcheck.go). An address is its host and port;  *)
(* the fields of the file are kept as far as Load tells them apart.         *)
EXTENDS Integers

CONSTANTS Host, Port   \* what addresses are made of, beside what the code itself names

\* The empty string: no listen address.
NoAddress == [host |-> "", port |-> ""]

\* A port is a number of its own: with 0, or none, the system would choose one.
Address == {NoAddress} \cup [host : Host \cup {""}, port : Port]

ASSUME PortAssumption == "" \notin Port

\* listen holds the address the file gives, if it gives one; "malformed" is a
\* poll_interval that time.ParseDuration refuses.
ConfigFile ==
    [readable : BOOLEAN, yaml : BOOLEAN,
     listen : SUBSET Address,
     interval : {"omitted", "positive", "notPositive", "malformed"},
     level : {"omitted", "known", "unknown"}]

\* Default().Listen
DefaultListen == [host |-> "", port |-> "9876"]

\* cfg.Listen once the file has been laid over the defaults.
FileListen(file) == IF file.listen = {} THEN DefaultListen ELSE CHOOSE a \in file.listen : TRUE

\* Validate: poll_interval and log_level have defaults that pass.
Valid(file) ==
    /\ FileListen(file) # NoAddress
    /\ file.interval # "notPositive"
    /\ file.level # "unknown"

\* Load succeeds. A path that was not given counts as unreadable.
Loads(file) == file.readable /\ file.yaml /\ file.interval # "malformed" /\ Valid(file)

\* The address the server is given: --listen comes after validation, so that it
\* does not save a file whose own address is empty.
BindAddress(file, override) == IF override # NoAddress THEN override ELSE FileListen(file)

\* Mutant: the host is left out of the URL.
ProbeAddressAsGiven(override) == IF override = NoAddress THEN DefaultListen ELSE override

\* Where healthcheck looks, given the same flag.
ProbeAddress(override) ==
    LET addr == IF override = NoAddress THEN [host |-> "", port |-> "9876"] ELSE override
    IN  [host |-> IF addr.host = "" THEN "127.0.0.1" ELSE addr.host, port |-> addr.port]

\* A connection to one address is accepted by a listener bound to the other;
\* one without a host is bound to every address, and nothing can be dialled
\* without one.
Reaches(dialled, bound) ==
    /\ dialled.host # "" /\ dialled.port = bound.port
    /\ bound.host \in {"", dialled.host}

=============================================================================
