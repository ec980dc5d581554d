----------------------------- MODULE MCRotation -----------------------------
(* Instances of Rotation for TLC.                                           *)
EXTENDS Rotation

NoEnv == [session |-> 0, csrf |-> 0]
OneStart == {Saved(1)}

\* One for each time config.yaml is saved, the first included.
MCSession == 1 .. MaxSaves + 1

\* Sessions that each last for a while longer than the one before.
MCExpiry == [k \in Session |-> 3 * k]

=============================================================================
