------------------------------ MODULE MCPoller ------------------------------
(* Instances of Poller for TLC: an account with one or two properties whose  *)
(* midnights fall at different instants.                                     *)
EXTENDS PollerInv

CONSTANTS House, Cabin

\* The house's day turns at instants 3 and 5; the cabin's a step earlier.
MCLocalDay ==
    [p \in Property |->
        [t \in Time |-> 2 + ((t + IF p = House THEN 1 ELSE 2) \div 2)]]

AllReady == [p \in Property |-> "ready"]

\* Listings with one property in a given condition and the other ready.
AllBut(q, condition) == [AllReady EXCEPT ![q] = condition]

\* Everything ready, or the cabin in one of the other three conditions.
MCListings ==
    {AllReady} \cup {AllBut(Cabin, c) : c \in {"unlisted", "notReady", "badZone"}}

\* A single house, always ready.
MCOneListing == {AllReady}

=============================================================================
