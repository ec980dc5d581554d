---------------------------- MODULE MCFileTokens ----------------------------
(* Instances of FileTokens for TLC: which cookies the environment and the    *)
(* first config.yaml hold.                                                   *)
EXTENDS FileTokens

\* No cookies in the environment: the fallback is what the first file held.
NoEnv == [session |-> 0, csrf |-> 0]

Holds(session, csrf) == [parses |-> TRUE, session |-> session, csrf |-> csrf]

\* Cookies in config.yaml from the start, or fields left blank at first.
BlankStart == {Holds(0, 0), Holds(1, 0), Holds(1, 1)}

=============================================================================
