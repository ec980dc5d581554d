-------------------------- MODULE SnapshotRegister --------------------------
(* What Poller.Snapshot promises the HTTP handlers: one value, replaced at   *)
(* once by each tick, of which every reader gets a copy of its own.          *)
CONSTANTS
    Reader,   \* the goroutines serving scrapes
    Value,    \* the snapshots there may be
    First     \* the snapshot New leaves behind

VARIABLES
    value,    \* the snapshot
    seen      \* the copy each reader got last

RegisterInit ==
    /\ value = First
    /\ seen = [r \in Reader |-> First]

Publish ==
    /\ value' \in Value
    /\ UNCHANGED seen

Read(r) ==
    /\ seen' = [seen EXCEPT ![r] = value]
    /\ UNCHANGED value

RegisterNext == Publish \/ \E r \in Reader : Read(r)

RegisterSpec == RegisterInit /\ [][RegisterNext]_<<value, seen>>

=============================================================================
