----------------------------- MODULE MCServices -----------------------------
(* Two clients; files that load with and without an address of their own,   *)
(* and one for each way of failing to.                                      *)
EXTENDS Services

CONSTANTS alice, bob

TwoClients == {alice, bob}

At(h, p) == [host |-> h, port |-> p]

Plain == [readable |-> TRUE, yaml |-> TRUE, listen |-> {}, interval |-> "omitted",
          level |-> "known"]

SomeFiles ==
    {Plain,
     [Plain EXCEPT !.listen = {At("", "9000")}, !.interval = "positive"],
     [Plain EXCEPT !.listen = {NoAddress}],
     [Plain EXCEPT !.interval = "notPositive"],
     [Plain EXCEPT !.interval = "malformed"],
     [Plain EXCEPT !.level = "unknown"],
     [Plain EXCEPT !.yaml = FALSE],
     [Plain EXCEPT !.readable = FALSE]}

SomeOverrides == {NoAddress, At("", "9000"), At("127.0.0.1", "9876"), At("pod", "9876")}

=============================================================================
