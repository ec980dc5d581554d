-------------------------- MODULE FileTokensProofs ---------------------------
(* The cache of FileTokenProvider is transparent up to one tick of the       *)
(* file's clock, and an answer mixes two saves only while, or as long after  *)
(* as that clock does not tell, the file is half written: for every way of   *)
(* saving, every number of saves, and every pair the environment may hold.   *)
EXTENDS FileTokens, TLAPS

USE DEF EnvAssumption, StartAssumption, SavesAssumption

\* What the cache and a call in progress know of the file.
Knowledge ==
    /\ cache.modTime <= file.modTime
    /\ stat <= file.modTime
    /\ CacheCoherent
    /\ Resolve(file) \in ofTick
    /\ MtimeAdvances => ofTick = {Resolve(file)}
    /\ ~Idle => Resolve(file) \in possible
    /\ ReadsAreCurrent

\* Of one save, or completed with the fallback from a file that lacked a cookie.
OneSaveOr(lacking, pair) ==
    \/ pair.session = pair.csrf
    \/ lacking /\ (pair.session = fallback.session \/ pair.csrf = fallback.csrf)

\* Where the cookies of a file, of the cache and of an answer come from.
Provenance ==
    /\ Unmixed(file.content)
    /\ Lacks(file) => halfOfTick /\ (~Idle => half)
    /\ Cached(file.modTime) => OneSaveOr(halfOfTick, cache)
    /\ SavesAreNotMixed

FileInv == TypeOK /\ Knowledge /\ Provenance

LEMMA OverlayType ==
    ASSUME NEW a, a.session \in Cookie, a.csrf \in Cookie, NEW b \in Pair
    PROVE  Overlay(a, b) \in Pair
  BY DEF Overlay, Pair

LEMMA AnswerTypes ==
    /\ Error \in Answers
    /\ Answers \subseteq Pair
    /\ \A pair \in Pair : OrError(pair) \in Answers
    /\ \A pair \in Pair : Whole(pair) => pair \in Answers
  BY DEF Answers, Error, Pair, Cookie, OrError

LEMMA ResolveType ==
    ASSUME TypeOK
    PROVE  /\ Resolve(file) \in Answers
           /\ Answer(file) \in Answers
           /\ OrError(fallback) \in Answers
  <1>1. fallback \in Pair
    BY DEF TypeOK
  <1>2. Overlay(file.content, fallback) \in Pair
    BY <1>1, OverlayType DEF TypeOK, Content
  <1> QED
    BY <1>1, <1>2, AnswerTypes DEF Resolve, Answer

LEMMA BecomesType ==
    ASSUME TypeOK, NEW exists \in BOOLEAN, NEW content \in Content,
           Becomes(exists, content)
    PROVE  /\ file' \in [exists : BOOLEAN, modTime : Nat \ {0}, content : Content]
           /\ possible' \subseteq Answers /\ ofTick' \subseteq Answers
           /\ half' \in BOOLEAN /\ halfOfTick' \in BOOLEAN
           /\ Lacks(file') => halfOfTick' /\ (~Idle => half')
           /\ half => half'
           /\ Idle => half' = half
           /\ file'.modTime = file.modTime /\ halfOfTick => halfOfTick'
           /\ file'.content = content
           /\ Resolve(file') \in ofTick'
           /\ \/ file'.modTime > file.modTime /\ ofTick' = {Resolve(file')}
              \/ file'.modTime = file.modTime /\ ~MtimeAdvances /\ ofTick \subseteq ofTick'
           /\ ~Idle => Resolve(file') \in possible'
           /\ Idle => possible' = possible
  <1>1. PICK tick \in IF MtimeAdvances THEN {1} ELSE {0, 1} :
           /\ file' = [exists |-> exists, modTime |-> file.modTime + tick, content |-> content]
           /\ ofTick' = {Resolve(file')} \cup IF tick = 0 THEN ofTick ELSE {}
           /\ halfOfTick' = (Lacks(file') \/ (tick = 0 /\ halfOfTick))
    BY Zenon DEF Becomes
  <1>2. /\ tick \in {0, 1} /\ (MtimeAdvances => tick = 1)
        /\ file.modTime \in Nat \ {0}
    BY DEF TypeOK
  <1>3. file' \in [exists : BOOLEAN, modTime : Nat \ {0}, content : Content]
    BY <1>1, <1>2
  <1>4. Resolve(file') \in Answers
    <2>1. Overlay(file'.content, fallback) \in Pair
      BY <1>3, OverlayType DEF TypeOK, Content
    <2> QED
      BY <2>1, AnswerTypes DEF Resolve
  <1>5. half' = (half \/ (~Idle /\ Lacks(file')))
    BY Zenon DEF Becomes
  <1>6. half \in BOOLEAN /\ halfOfTick \in BOOLEAN
    BY DEF TypeOK
  <1>7. /\ half' \in BOOLEAN /\ halfOfTick' \in BOOLEAN
        /\ Lacks(file') => halfOfTick' /\ (~Idle => half')
        /\ half => half'
        /\ Idle => half' = half
    BY <1>1, <1>5, <1>6, Zenon
  <1>8. file'.modTime = file.modTime /\ halfOfTick => halfOfTick'
    <2>1. file'.modTime = file.modTime + tick
      BY <1>1
    <2>2. file'.modTime = file.modTime => tick = 0
      BY <1>2, <2>1
    <2> QED
      BY <1>1, <2>2, Zenon
  <1> QED
    BY <1>1, <1>2, <1>3, <1>4, <1>7, <1>8 DEF Becomes, TypeOK

LEMMA InitType == Init => TypeOK
  <1> SUFFICES ASSUME Init PROVE TypeOK
    OBVIOUS
  <1>1. PICK loaded \in StartContents, found \in StartContents :
           /\ fallback = Overlay(EnvPair, loaded)
           /\ file = [exists |-> TRUE, modTime |-> 1, content |-> found]
    BY DEF Init
  <1>2. loaded \in Pair \/ (loaded.session \in Cookie /\ loaded.csrf \in Cookie)
    BY <1>1, StartAssumption DEF Content
  <1>3. fallback \in Pair
    BY <1>1, <1>2, EnvAssumption DEF Overlay, Pair
  <1>4. file \in [exists : BOOLEAN, modTime : Nat \ {0}, content : Content]
    BY <1>1, StartAssumption
  <1>5. Resolve(file) \in Answers
    <2>1. Overlay(file.content, fallback) \in Pair
      BY <1>3, <1>4, OverlayType DEF Content
    <2> QED
      BY <2>1, AnswerTypes DEF Resolve
  <1>6. cache \in [modTime : Nat, session : Cookie, csrf : Cookie]
    BY DEF Init, Cookie
  <1>7. /\ saves = 1 /\ saving = FALSE /\ stat = 0 /\ result = Error /\ possible = {Error}
        /\ ofTick = {Resolve(file)}
    BY DEF Init
  <1>8. half \in BOOLEAN /\ halfOfTick \in BOOLEAN
    BY Zenon DEF Init, Lacks
  <1> QED
    BY <1>3, <1>4, <1>5, <1>6, <1>7, <1>8, AnswerTypes DEF TypeOK

LEMMA EditorTypes ==
    ASSUME TypeOK, Saves
    PROVE  /\ saves' \in Nat /\ saving' \in BOOLEAN
           /\ \E exists \in BOOLEAN : \E content \in Content :
                 (Unmixed(file.content) => Unmixed(content)) /\ Becomes(exists, content)
  <1>1. \A k \in Nat : /\ Saved(k) \in Content /\ Partial(k) \subseteq Content
                       /\ Unmixed(Saved(k))
                       /\ \A part \in Partial(k) : Unmixed(part)
    BY DEF Saved, Partial, Content, Cookie, Unmixed
  <1>2. saves \in Nat /\ file.content \in Content /\ saves + 1 \in Nat
    BY DEF TypeOK
  <1>3. CASE SaveByRename
    BY <1>1, <1>2, <1>3 DEF SaveByRename, TypeOK
  <1>4. CASE BeginSave
    BY <1>1, <1>2, <1>4 DEF BeginSave, TypeOK
  <1>5. CASE FinishSave
    BY <1>1, <1>2, <1>5 DEF FinishSave, TypeOK
  <1> QED
    BY <1>3, <1>4, <1>5 DEF Saves

LEMMA NextType == TypeOK /\ [Next]_vars => TypeOK'
  <1> SUFFICES ASSUME TypeOK, [Next]_vars PROVE TypeOK'
    OBVIOUS
  <1> USE DEF editorVars, tickVars
  <1>1. CASE StatMissing
    BY <1>1, ResolveType DEF TypeOK, StatMissing, Return
  <1>2. CASE StatUnchanged
    <2>1. CachedPair \in Answers
      BY <1>2 DEF StatUnchanged, Cached, CachedPair, TypeOK, Answers, Pair, Whole
    <2> QED
      BY <1>2, <2>1, ResolveType DEF TypeOK, StatUnchanged, Return
  <1>3. CASE StatChanged
    <2>1. half' \in BOOLEAN
      BY <1>3, Zenon DEF StatChanged, Lacks
    <2> QED
      BY <1>3, <2>1, ResolveType DEF TypeOK, StatChanged
  <1>4. CASE ReadFails
    BY <1>4, ResolveType, AnswerTypes DEF TypeOK, ReadFails, Return
  <1>5. CASE ReadPair
    <2>1. Resolve(file).session \in Cookie /\ Resolve(file).csrf \in Cookie
      BY ResolveType, AnswerTypes DEF Pair
    <2> QED
      BY <1>5, <2>1, ResolveType DEF TypeOK, ReadPair, Return
  <1>6. CASE Saves
    <2>1. PICK exists \in BOOLEAN, content \in Content : Becomes(exists, content)
      BY <1>6, EditorTypes
    <2> QED
      BY <1>6, <2>1, EditorTypes, BecomesType DEF TypeOK, Becomes
  <1>7. CASE UNCHANGED vars
    BY <1>7 DEF TypeOK, vars
  <1> QED
    BY <1>1, <1>2, <1>3, <1>4, <1>5, <1>6, <1>7 DEF Next, Tokens

LEMMA InitKnowledge == Init => Knowledge
  <1> SUFFICES ASSUME Init PROVE Knowledge
    OBVIOUS
  <1>1. file.modTime = 1
    BY DEF Init
  <1> QED
    BY <1>1 DEF Init, Knowledge, CacheCoherent, Cached, Whole, Idle, ReadsAreCurrent

LEMMA NextKnowledge == FileInv /\ [Next]_vars => Knowledge'
  <1> SUFFICES ASSUME FileInv, [Next]_vars PROVE Knowledge'
    OBVIOUS
  <1> USE DEF editorVars, tickVars, Idle, ReadsAreCurrent, CacheCoherent, Cached, CachedPair
  <1>0. /\ TypeOK /\ Knowledge
        /\ file.modTime \in Nat \ {0} /\ cache.modTime \in Nat /\ stat \in Nat
    BY DEF FileInv, TypeOK
  <1>00. UNCHANGED <<file, fallback>> => Resolve(file)' = Resolve(file)
    BY DEF Resolve, Overlay, OrError, Whole
  <1>1. CASE StatMissing
    BY <1>0, <1>1, <1>00 DEF Knowledge, StatMissing, Return, Answer
  <1>2. CASE StatUnchanged
    BY <1>0, <1>2, <1>00 DEF Knowledge, StatUnchanged, Return
  <1>3. CASE StatChanged
    BY <1>0, <1>3, <1>00 DEF Knowledge, StatChanged, Answer
  <1>4. CASE ReadFails
    BY <1>0, <1>4, <1>00 DEF Knowledge, ReadFails, Return
  <1>5. CASE ReadPair
    <2>1. /\ cache' = [modTime |-> stat, session |-> Resolve(file).session,
                       csrf |-> Resolve(file).csrf]
          /\ result' = Resolve(file) /\ stat' = 0
          /\ UNCHANGED <<file, fallback, possible, ofTick>> /\ stat # 0
      BY <1>5 DEF ReadPair, Return
    <2>2. Resolve(file)' = Resolve(file)
      BY <2>1, <1>00
    <2>3. Resolve(file) = [session |-> Resolve(file).session, csrf |-> Resolve(file).csrf]
      BY <1>0, ResolveType, AnswerTypes DEF Pair
    <2> QED
      BY <1>0, <2>1, <2>2, <2>3 DEF Knowledge
  <1>6. CASE Saves
    <2>1. PICK exists \in BOOLEAN, content \in Content : Becomes(exists, content)
      BY <1>0, <1>6, EditorTypes
    <2>2. /\ UNCHANGED <<fallback, cache, stat, result>>
          /\ file'.modTime \in Nat
          /\ Resolve(file') \in ofTick'
          /\ \/ file'.modTime > file.modTime /\ ofTick' = {Resolve(file')}
             \/ file'.modTime = file.modTime /\ ~MtimeAdvances /\ ofTick \subseteq ofTick'
          /\ ~Idle => Resolve(file') \in possible'
          /\ Idle => possible' = possible
      BY <1>0, <2>1, BecomesType DEF Becomes
    <2>3. Resolve(file)' = Resolve(file')
      BY <2>2 DEF Resolve, Overlay, OrError, Whole
    <2>4. CASE file'.modTime > file.modTime
      BY <1>0, <2>2, <2>3, <2>4 DEF Knowledge
    <2>5. CASE file'.modTime = file.modTime
      BY <1>0, <2>2, <2>3, <2>5 DEF Knowledge
    <2> QED
      BY <1>0, <2>2, <2>4, <2>5
  <1>7. CASE UNCHANGED vars
    BY <1>0, <1>7, <1>00 DEF Knowledge, vars
  <1> QED
    BY <1>1, <1>2, <1>3, <1>4, <1>5, <1>6, <1>7 DEF Next, Tokens

LEMMA InitProvenance == Init => Provenance
  <1> SUFFICES ASSUME Init PROVE Provenance
    OBVIOUS
  <1>1. Unmixed(file.content)
    BY StartAssumption DEF Init
  <1>2. halfOfTick = Lacks(file) /\ stat = 0
    BY Zenon DEF Init
  <1>3. result = Error /\ cache.session = 0
    BY DEF Init
  <1> QED
    BY <1>1, <1>2, <1>3 DEF Provenance, SavesAreNotMixed, Cached, Whole, Error, Idle

\* A read of a file that lacks nothing gives its own pair, and of any other file
\* at least one cookie is the fallback's.
LEMMA ResolvedIsOfOneSave ==
    ASSUME Unmixed(file.content), Resolve(file) # Error
    PROVE  OneSaveOr(Lacks(file), Resolve(file))
  <1>1. /\ Resolve(file) = Overlay(file.content, fallback)
        /\ file.exists /\ file.content.parses
    BY DEF Resolve, OrError
  <1>2. CASE Whole(file.content)
    <2>1. Resolve(file).session = Resolve(file).csrf
      BY <1>1, <1>2 DEF Overlay, Whole, Unmixed
    <2> QED
      BY <2>1 DEF OneSaveOr
  <1>3. CASE ~Whole(file.content)
    <2>1. Lacks(file)
      BY <1>1, <1>3, Zenon DEF Lacks
    <2>2. \/ Resolve(file).session = fallback.session
          \/ Resolve(file).csrf = fallback.csrf
      BY <1>1, <1>3 DEF Overlay, Whole
    <2> QED
      BY <2>1, <2>2, Zenon DEF OneSaveOr
  <1> QED
    BY <1>2, <1>3

LEMMA NextProvenance == FileInv /\ [Next]_vars => Provenance'
  <1> SUFFICES ASSUME FileInv, [Next]_vars PROVE Provenance'
    OBVIOUS
  <1> USE DEF editorVars, tickVars, SavesAreNotMixed, Idle
  <1>0. /\ TypeOK /\ Provenance
        /\ file.modTime \in Nat \ {0} /\ cache.modTime \in Nat /\ stat \in Nat
        /\ cache.modTime <= file.modTime /\ stat <= file.modTime
    BY DEF FileInv, TypeOK, Knowledge
  <1>00. UNCHANGED <<file, fallback>> => Lacks(file)' = Lacks(file) /\ Unmixed(file.content)' = Unmixed(file.content)
    BY DEF Lacks, Whole, Unmixed
  <1>1. CASE StatMissing
    BY <1>0, <1>00, <1>1
       DEF Provenance, StatMissing, Return, OrError, Error, Cached, Whole, OneSaveOr
  <1>2. CASE StatUnchanged
    BY <1>0, <1>00, <1>2
       DEF Provenance, StatUnchanged, Return, Cached, CachedPair, Whole, OneSaveOr
  <1>3. CASE StatChanged
    BY <1>0, <1>00, <1>3 DEF Provenance, StatChanged, Cached, Whole, OneSaveOr
  <1>4. CASE ReadFails
    BY <1>0, <1>00, <1>4 DEF Provenance, ReadFails, Return, Error, Cached, Whole, OneSaveOr
  <1>5. CASE ReadPair
    <2>1. OneSaveOr(Lacks(file), Resolve(file))
      BY <1>0, <1>5, ResolvedIsOfOneSave DEF Provenance, ReadPair
    <2>2. Lacks(file) => halfOfTick /\ half
      BY <1>0, <1>5 DEF Provenance, ReadPair
    <2>3. /\ cache'.session = Resolve(file).session /\ cache'.csrf = Resolve(file).csrf
          /\ result' = Resolve(file)
          /\ UNCHANGED <<file, fallback, half, halfOfTick>>
          /\ stat' = 0
      BY <1>5 DEF ReadPair, Return
    <2>4. OneSaveOr(halfOfTick, cache)'
      BY <2>1, <2>2, <2>3 DEF OneSaveOr
    <2>5. SavesAreNotMixed'
      BY <2>1, <2>2, <2>3 DEF OneSaveOr
    <2> QED
      BY <1>0, <1>00, <2>3, <2>4, <2>5 DEF Provenance
  <1>6. CASE Saves
    <2>1. PICK exists \in BOOLEAN, content \in Content :
             (Unmixed(file.content) => Unmixed(content)) /\ Becomes(exists, content)
      BY <1>0, <1>6, EditorTypes
    <2>2. /\ file'.content = content /\ UNCHANGED <<fallback, cache, result, stat>>
          /\ file'.modTime \in Nat /\ file'.modTime >= file.modTime
          /\ Lacks(file') => halfOfTick' /\ (~Idle => half')
          /\ Idle => half' = half
          /\ file'.modTime = file.modTime /\ halfOfTick => halfOfTick'
      BY <1>0, <2>1, BecomesType DEF Becomes
    <2>3. Unmixed(file.content)'
      BY <1>0, <2>1, <2>2 DEF Provenance, Unmixed
    <2>4. Lacks(file)' = Lacks(file')
      BY DEF Lacks, Whole
    <2>5. (Lacks(file) => halfOfTick /\ (~Idle => half))'
      BY <2>2, <2>4
    <2>6. (Cached(file.modTime) => OneSaveOr(halfOfTick, cache))'
      <3> SUFFICES ASSUME Cached(file.modTime)' PROVE OneSaveOr(halfOfTick, cache)'
        OBVIOUS
      <3>1. file'.modTime = file.modTime /\ Cached(file.modTime)
        BY <1>0, <2>2 DEF Cached, Whole
      <3>2. OneSaveOr(halfOfTick, cache)
        BY <1>0, <3>1 DEF Provenance
      <3> QED
        BY <2>2, <3>1, <3>2 DEF OneSaveOr
    <2>7. SavesAreNotMixed'
      BY <1>0, <2>2 DEF Provenance
    <2> QED
      BY <2>3, <2>5, <2>6, <2>7 DEF Provenance
  <1>7. CASE UNCHANGED vars
    BY <1>0, <1>00, <1>7 DEF Provenance, vars, Cached, Whole, OneSaveOr
  <1> QED
    BY <1>1, <1>2, <1>3, <1>4, <1>5, <1>6, <1>7 DEF Next, Tokens

LEMMA FileInvariance == Spec => []FileInv
  <1>1. Init => FileInv
    BY InitType, InitKnowledge, InitProvenance DEF FileInv
  <1>2. FileInv /\ [Next]_vars => FileInv'
    BY NextType, NextKnowledge, NextProvenance DEF FileInv
  <1> QED
    BY <1>1, <1>2, PTL DEF Spec

\* Types; no call returns half a pair.
THEOREM TypeCorrect == Spec => []TypeOK
  <1>1. FileInv => TypeOK
    BY DEF FileInv
  <1> QED
    BY <1>1, FileInvariance, PTL

\* A save between the provider's stat and its read is never hidden by the cache.
THEOREM CacheCoherence == Spec => []CacheCoherent
  <1>1. FileInv => CacheCoherent
    BY DEF FileInv, Knowledge
  <1> QED
    BY <1>1, FileInvariance, PTL

\* Every call answers what the file held during the call, or under its mtime.
THEOREM CacheTransparency == Spec => []ReadsAreCurrent
  <1>1. FileInv => ReadsAreCurrent
    BY DEF FileInv, Knowledge
  <1> QED
    BY <1>1, FileInvariance, PTL

\* An answer mixes two saves only if config.yaml lacked a cookie in the course of
\* the call, or has under the mtime of the cached answer; the odd one is then the
\* fallback's.
THEOREM SavesAreNotMixedHolds == Spec => []SavesAreNotMixed
  <1>1. FileInv => SavesAreNotMixed
    BY DEF FileInv, Provenance
  <1> QED
    BY <1>1, FileInvariance, PTL

=============================================================================
