----------------------------- MODULE DirTokens ------------------------------
(* DirTokenProvider (internal/config/dir_token_provider.go): the cookies are *)
(* two files of a mounted Secret, read one after the other on each call and  *)
(* never cached, while the kubelet swaps in later versions of the Secret.    *)
EXTENDS Integers

CONSTANTS
    FirstKeys,   \* the key sets the Secret may have when the daemon starts
    LaterKeys,   \* the key sets an update may give it
    MaxUpdates   \* bound: updates of the Secret

Key == {"session-token", "csrf-token"}

\* A cookie is the version of the Secret that brought it; 0 stands for none.
Cookie == Nat

ASSUME KeysAssumption == FirstKeys \subseteq SUBSET Key /\ LaterKeys \subseteq SUBSET Key
ASSUME UpdatesAssumption == MaxUpdates \in Nat

VARIABLES
    secret,   \* the Secret: [version, keys], keys being those present and not blank
    mounted,  \* what the files of the directory lead to
    session,  \* the first cookie of the call in progress; 0 between calls
    result,   \* what the latest call returned
    given     \* history: the latest pair a call returned

vars == <<secret, mounted, session, result, given>>

Version == [version : Nat \ {0}, keys : SUBSET Key]

Error == [session |-> 0, csrf |-> 0]
Answers == {Error} \cup [session : Cookie \ {0}, csrf : Cookie \ {0}]

Init ==
    /\ \E keys \in FirstKeys : secret = [version |-> 1, keys |-> keys]
    /\ mounted = secret
    /\ session = 0
    /\ result = Error
    /\ given = Error

-----------------------------------------------------------------------------
(* The provider                                                             *)

\* readTokenFile succeeds: the file is there and more than white space.
Readable(key) == key \in mounted.keys

\* Mutant: the session is cached once and for all.
ReadSessionOnce ==
    /\ session = 0
    /\ Readable("session-token")
    /\ session' = IF given.session # 0 THEN given.session ELSE mounted.version
    /\ UNCHANGED <<secret, mounted, result, given>>

\* The first of the two files is opened.
ReadSession ==
    /\ session = 0
    /\ Readable("session-token")
    /\ session' = mounted.version
    /\ UNCHANGED <<secret, mounted, result, given>>

\* Mutant: the CSRF token is cached once and for all.
ReadCSRFOnce ==
    /\ session # 0
    /\ Readable("csrf-token")
    /\ result' = [session |-> session,
                  csrf |-> IF given.csrf # 0 THEN given.csrf ELSE mounted.version]
    /\ given' = result'
    /\ session' = 0
    /\ UNCHANGED <<secret, mounted>>

\* The other file is opened anew, whatever the directory holds by then.
ReadCSRF ==
    /\ session # 0
    /\ Readable("csrf-token")
    /\ result' = [session |-> session, csrf |-> mounted.version]
    /\ given' = result'
    /\ session' = 0
    /\ UNCHANGED <<secret, mounted>>

\* Mutant: the cookies of the first version are returned.
ReadFailsBack ==
    /\ \/ session = 0 /\ ~Readable("session-token")
       \/ session # 0 /\ ~Readable("csrf-token")
    /\ result' = [session |-> 1, csrf |-> 1]
    /\ given' = result'
    /\ session' = 0
    /\ UNCHANGED <<secret, mounted>>

ReadFails ==
    /\ \/ session = 0 /\ ~Readable("session-token")
       \/ session # 0 /\ ~Readable("csrf-token")
    /\ result' = Error
    /\ session' = 0
    /\ UNCHANGED <<secret, mounted, given>>

Tokens == ReadSession \/ ReadCSRF \/ ReadFails

-----------------------------------------------------------------------------
(* Kubernetes                                                               *)

Apply ==
    /\ secret.version <= MaxUpdates
    /\ \E keys \in LaterKeys : secret' = [version |-> secret.version + 1, keys |-> keys]
    /\ UNCHANGED <<mounted, session, result, given>>

\* The kubelet swaps one symlink: both files change at once, to the latest version.
Sync ==
    /\ mounted # secret
    /\ mounted' = secret
    /\ UNCHANGED <<secret, session, result, given>>

-----------------------------------------------------------------------------

Next == Tokens \/ Apply \/ Sync

Spec == Init /\ [][Next]_vars

-----------------------------------------------------------------------------
(* Properties                                                               *)

\* Types; what a call returns is a pair or an error, never half a pair.
TypeOK ==
    /\ secret \in Version
    /\ mounted \in Version
    /\ session \in Cookie
    /\ result \in Answers
    /\ given \in Answers

\* A swap between the two reads tears a pair one way only: the session is never
\* newer than the CSRF token it is sent with (dir_token_provider.go:43-51).
TornOneWay == given.session <= given.csrf

\* Cookies never go back to a version given out before, not even when the
\* files were unreadable in between (dir_token_provider.go:19-24).
NeverGoesBack ==
    [][given'.session >= given.session /\ given'.csrf >= given.csrf]_given

=============================================================================
