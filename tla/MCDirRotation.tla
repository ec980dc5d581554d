--------------------------- MODULE MCDirRotation ----------------------------
(* Secrets with both keys, with one key misnamed, and with neither.         *)
EXTENDS DirRotation

AnyKeys == SUBSET Key

\* One for each version of the Secret.
MCSession == 1 .. MaxUpdates + 1

\* Sessions that each last for a while longer than the one before.
MCExpiry == [k \in Session |-> 3 * k]

=============================================================================
