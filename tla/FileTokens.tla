----------------------------- MODULE FileTokens -----------------------------
(* FileTokenProvider (internal/config/token_provider.go): the cookies are    *)
(* read from config.yaml on each call, through a cache keyed by the file's   *)
(* mtime, while the user's editor rewrites that file between the provider's  *)
(* stat and its read. One goroutine calls the provider, so a mutex held for  *)
(* a whole call leaves the editor as its only interleaving.                  *)
EXTENDS Integers

CONSTANTS
    EnvPair,        \* the cookies in the environment at startup
    StartContents,  \* what config.yaml may hold when the daemon starts
    SaveModes,      \* how the editor saves: "rename", "inPlace", "replace"
    MtimeAdvances,  \* FALSE: two saves may fall into one tick of the file's clock
    MaxSaves        \* bound: saves begun

\* A cookie is the number of the save that brought it, 0 for the empty string.
Cookie == Nat
Pair == [session : Cookie, csrf : Cookie]
Content == [parses : BOOLEAN, session : Cookie, csrf : Cookie]

ASSUME EnvAssumption == EnvPair \in Pair
\* The two cookies of one config.yaml were saved together.
Unmixed(pair) == pair.session = 0 \/ pair.csrf = 0 \/ pair.session = pair.csrf

ASSUME StartAssumption ==
    StartContents \subseteq Content /\ \A content \in StartContents : Unmixed(content)
ASSUME SavesAssumption ==
    /\ SaveModes \subseteq {"rename", "inPlace", "replace"}
    /\ MtimeAdvances \in BOOLEAN
    /\ MaxSaves \in Nat

VARIABLES
    file,      \* config.yaml: [exists, modTime, content]
    saves,     \* saves begun, and the cookies the latest of them brings
    saving,    \* that save is not finished
    fallback,  \* envSession and envCSRF of the provider
    cache,     \* modTime, session and csrf of the provider
    stat,      \* the mtime the call in progress has read; 0 between calls
    result,    \* what the latest call returned
    possible,  \* history: what that call could return, had it no cache
    half,      \* history: that call could find a file that lacks a cookie
    ofTick,    \* history: what reads could find since the mtime last changed
    halfOfTick \* history: since then the file has lacked a cookie

tickVars == <<ofTick, halfOfTick>>
vars == <<file, saves, saving, fallback, cache, stat, result, possible, half, tickVars>>
editorVars == <<file, saves, saving, tickVars>>

-----------------------------------------------------------------------------
(* Answers                                                                  *)

Error == [session |-> 0, csrf |-> 0]

Whole(pair) == pair.session # 0 /\ pair.csrf # 0

Answers == {Error} \cup {pair \in Pair : Whole(pair)}

\* Each field of the first pair that is set, else that of the second.
Overlay(first, second) ==
    [session |-> IF first.session # 0 THEN first.session ELSE second.session,
     csrf    |-> IF first.csrf # 0 THEN first.csrf ELSE second.csrf]

\* Mutant: a session without its CSRF token is returned.
OrErrorSessionOnly(pair) == IF pair.session # 0 THEN pair ELSE Error

OrError(pair) == IF Whole(pair) THEN pair ELSE Error

\* What a read of the file makes of it.
Resolve(f) ==
    IF f.exists /\ f.content.parses
    THEN OrError(Overlay(f.content, fallback))
    ELSE Error

\* A file that is read without error, but for one cookie or both.
Lacks(f) == f.exists /\ f.content.parses /\ ~Whole(f.content)

\* What a whole call would return now, without a cache.
Answer(f) == IF f.exists THEN Resolve(f) ELSE OrError(fallback)

-----------------------------------------------------------------------------
(* The provider                                                             *)

Idle == stat = 0

\* Load overlays the environment on the file, and buildPoller passes the outcome
\* on as the provider's fallback; a provider that resolves nothing is not used.
Init ==
    /\ \E loaded, found \in StartContents :
          /\ fallback = Overlay(EnvPair, loaded)
          /\ file = [exists |-> TRUE, modTime |-> 1, content |-> found]
    /\ saves = 1
    /\ saving = FALSE
    /\ cache = [modTime |-> 0, session |-> 0, csrf |-> 0]
    /\ stat = 0
    /\ result = Error
    /\ possible = {Error} /\ half = FALSE
    /\ ofTick = {Resolve(file)} /\ halfOfTick = Lacks(file)
    /\ Answer(file) # Error

CachedPair == [session |-> cache.session, csrf |-> cache.csrf]

Return(answer) ==
    /\ result' = answer
    /\ stat' = 0
    /\ UNCHANGED <<editorVars, fallback>>

\* Mutant: while the file is missing, the cached pair is preferred.
StatMissingKept ==
    /\ Idle
    /\ ~file.exists
    /\ possible' = {Answer(file)} /\ half' = FALSE
    /\ Return(IF Whole(cache) THEN CachedPair ELSE OrError(fallback))
    /\ UNCHANGED cache

\* os.Stat fails: the fallback, if it is a pair.
StatMissing ==
    /\ Idle
    /\ ~file.exists
    /\ possible' = {Answer(file)} /\ half' = FALSE
    /\ Return(OrError(fallback))
    /\ UNCHANGED cache

\* Mutant: a pair once read is kept for good.
CachedForGood(modTime) == Whole(cache)

Cached(modTime) == modTime = cache.modTime /\ Whole(cache)

StatUnchanged ==
    /\ Idle
    /\ file.exists
    /\ Cached(file.modTime)
    /\ possible' = ofTick /\ half' = halfOfTick
    /\ Return(CachedPair)
    /\ UNCHANGED cache

StatChanged ==
    /\ Idle
    /\ file.exists
    /\ ~Cached(file.modTime)
    /\ stat' = file.modTime
    /\ possible' = {Answer(file)} /\ half' = Lacks(file)
    /\ UNCHANGED <<editorVars, fallback, cache, result>>

\* os.ReadFile or yaml.Unmarshal fails, or a field is missing everywhere.
ReadFails ==
    /\ ~Idle
    /\ Resolve(file) = Error
    /\ Return(Error)
    /\ UNCHANGED <<cache, possible, half>>

\* Mutant: the CSRF token is cached once and for all.
ReadPairOldCSRF ==
    /\ ~Idle
    /\ Resolve(file) # Error
    /\ cache' = [modTime |-> stat, session |-> Resolve(file).session,
                 csrf |-> IF cache.csrf # 0 THEN cache.csrf ELSE Resolve(file).csrf]
    /\ Return(Resolve(file))
    /\ UNCHANGED <<possible, half>>

\* The pair is cached under the mtime read before the content was.
ReadPair ==
    /\ ~Idle
    /\ Resolve(file) # Error
    /\ cache' = [modTime |-> stat, session |-> Resolve(file).session,
                 csrf |-> Resolve(file).csrf]
    /\ Return(Resolve(file))
    /\ UNCHANGED <<possible, half>>

Tokens == StatMissing \/ StatUnchanged \/ StatChanged \/ ReadFails \/ ReadPair

-----------------------------------------------------------------------------
(* The editor                                                               *)

\* The file changes; a call in progress may answer with what it is now, or fail
\* because it is gone.
Becomes(exists, content) ==
    /\ \E tick \in IF MtimeAdvances THEN {1} ELSE {0, 1} :
          /\ file' = [exists |-> exists, modTime |-> file.modTime + tick,
                      content |-> content]
          /\ ofTick' = {Resolve(file')} \cup IF tick = 0 THEN ofTick ELSE {}
          /\ halfOfTick' = (Lacks(file') \/ (tick = 0 /\ halfOfTick))
    /\ possible' = IF Idle THEN possible ELSE possible \cup {Resolve(file')}
    /\ half' = (half \/ (~Idle /\ Lacks(file')))
    /\ UNCHANGED <<fallback, cache, stat, result>>

Saved(k) == [parses |-> TRUE, session |-> k, csrf |-> k]

\* The content of a file half written: nothing yet, cut between the two fields,
\* or cut where it does not parse.
Partial(k) ==
    {[parses |-> TRUE, session |-> 0, csrf |-> 0],
     [parses |-> TRUE, session |-> k, csrf |-> 0],
     [parses |-> FALSE, session |-> 0, csrf |-> 0]}

\* Another file is renamed over config.yaml.
SaveByRename ==
    /\ "rename" \in SaveModes
    /\ ~saving /\ saves <= MaxSaves
    /\ saves' = saves + 1
    /\ Becomes(TRUE, Saved(saves'))
    /\ UNCHANGED saving

\* config.yaml is truncated and written, or moved away and written anew.
BeginSave ==
    /\ ~saving /\ saves <= MaxSaves
    /\ saves' = saves + 1
    /\ saving' = TRUE
    /\ \/ /\ "inPlace" \in SaveModes
          /\ \E part \in Partial(saves') : Becomes(TRUE, part)
       \/ /\ "replace" \in SaveModes
          /\ Becomes(FALSE, file.content)

FinishSave ==
    /\ saving
    /\ saving' = FALSE
    /\ UNCHANGED saves
    /\ Becomes(TRUE, Saved(saves))

Saves == SaveByRename \/ BeginSave \/ FinishSave

Next == Tokens \/ Saves

Spec == Init /\ [][Next]_vars

-----------------------------------------------------------------------------
(* Properties                                                               *)

\* Types of the provider's fields and of the editor's file; what a call returns
\* is a whole pair or an error, never half a pair.
TypeOK ==
    /\ file \in [exists : BOOLEAN, modTime : Nat \ {0}, content : Content]
    /\ saves \in Nat /\ saving \in BOOLEAN
    /\ fallback \in Pair
    /\ cache \in [modTime : Nat, session : Cookie, csrf : Cookie]
    /\ stat \in Nat
    /\ result \in Answers
    /\ possible \subseteq Answers /\ ofTick \subseteq Answers
    /\ half \in BOOLEAN /\ halfOfTick \in BOOLEAN

\* A cache keyed by the file's mtime holds what a read has found under that
\* mtime: a save between stat and read is not lost, and what is stale is never
\* older than one tick of the file's clock (token_provider.go:57, 66, 94-96).
CacheCoherent == Cached(file.modTime) => CachedPair \in ofTick

\* A call returns what the file held at some moment of that call, as if nothing
\* were cached, or held under the mtime it was found with
\* (token_provider.go:53-98, docs/setup.md:67).
ReadsAreCurrent == Idle => result \in possible

\* Tokens completes a file half written with a cookie of startup
\* (token_provider.go:82-89, main.go:116), and caches the pair. Such a pair, of
\* two saves, is never given for longer than the file is half written: only by a
\* call that could find a cookie missing, or whose cached answer was read under
\* an mtime under which one has been missing. Any other answer is of one save,
\* or is the fallback as a whole, which startup may have put together.
SavesAreNotMixed ==
    Idle /\ result.session # result.csrf =>
        \/ result = fallback
        \/ half /\ (result.session = fallback.session \/ result.csrf = fallback.csrf)

=============================================================================
