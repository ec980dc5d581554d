-------------------------- MODULE MCSnapshotCache ---------------------------
(* Two scrapes at a time.                                                    *)
EXTENDS SnapshotCache

CONSTANTS prometheus, homeAssistant

TwoReaders == {prometheus, homeAssistant}

=============================================================================
