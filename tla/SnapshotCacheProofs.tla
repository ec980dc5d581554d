------------------------ MODULE SnapshotCacheProofs -------------------------
(* The cache is a register for any number of scrapes and ticks: the lock     *)
(* keeps a copy and a recording apart, so each copy is of one recording.     *)
EXTENDS SnapshotCache, TLAPS

USE DEF TicksAssumption

\* What is left of either order.
Rests ==
    {ResultOrder, <<"properties", "scrapeErrors", "outcome">>,
     <<"scrapeErrors", "outcome">>, <<"outcome">>, <<>>,
     FailureOrder, <<"outcome", "scrapeErrors">>, <<"scrapeErrors">>}

\* One tick's record, its properties perhaps an earlier one's.
Whole(v) ==
    /\ v["scrapeErrors"] = v["poll"]
    /\ v["outcome"] = v["poll"]
    /\ v["properties"] <= v["poll"]

\* The lock: nobody copies while the snapshot differs from the published one.
Exclusion ==
    /\ writer = "writing" => \A r \in Reader : reader[r] # "copying"
    /\ writer # "writing" => snap = published
    /\ writer = "waiting" => todo \in {ResultOrder, FailureOrder}

\* How far the recording of the current tick has come.
Recording ==
    /\ todo \in Rests
    /\ \A part \in Part : published[part] <= tick
    /\ \A part \in Part : snap[part] \in {published[part], tick}
    /\ writer = "writing" =>
          /\ todo \notin {ResultOrder, FailureOrder} => snap["poll"] = tick
          /\ todo \in {<<"outcome">>, <<>>} => snap["scrapeErrors"] = tick
          /\ todo \in {<<"scrapeErrors">>, <<>>} => snap["outcome"] = tick

Copies ==
    /\ Whole(published)
    /\ \A r \in Reader :
          /\ Whole(seen[r])
          /\ reader[r] = "waiting" => left[r] = Part
          /\ reader[r] = "copying" =>
                \A part \in Part \ left[r] : copy[r][part] = published[part]

IInv == TypeOK /\ Exclusion /\ Recording /\ Copies

LEMMA RestFacts ==
    /\ Rests \subseteq Seq(Part)
    /\ \A rest \in Rests : rest # <<>> => Head(rest) \in Part /\ Tail(rest) \in Rests
    /\ \A rest \in Rests :
          /\ rest # <<>> /\ Tail(rest) \notin {ResultOrder, FailureOrder} =>
                rest \notin {ResultOrder, FailureOrder} \/ Head(rest) = "poll"
          /\ rest # <<>> => Tail(rest) \notin {ResultOrder, FailureOrder}
          /\ rest # <<>> /\ Tail(rest) \in {<<"outcome">>, <<>>} =>
                rest \in {<<"outcome">>, <<>>} \/ Head(rest) = "scrapeErrors"
          /\ rest # <<>> /\ Tail(rest) \in {<<"scrapeErrors">>, <<>>} =>
                rest \in {<<"scrapeErrors">>, <<>>} \/ Head(rest) = "outcome"
  BY DEF Rests, ResultOrder, FailureOrder, Part

LEMMA InitHolds == Init => IInv
  <1> SUFFICES ASSUME Init PROVE IInv
    OBVIOUS
  <1>1. First \in Value /\ Whole(First) /\ \A part \in Part : First[part] = 0
    BY DEF First, Value, Whole, Part
  <1>2. TypeOK
    BY <1>1, RestFacts DEF Init, TypeOK, Rests
  <1>3. Exclusion /\ Copies
    BY <1>1 DEF Init, Exclusion, Copies
  <1>4. Recording
    BY <1>1 DEF Init, Recording, Rests
  <1> QED
    BY <1>2, <1>3, <1>4 DEF IInv

LEMMA WriterHolds ==
    ASSUME IInv, RecordTick \/ Lock \/ WritePart \/ Unlock
    PROVE  IInv'
  <1> USE DEF IInv, writerVars, readerVars
  <1>1. CASE RecordTick
    <2>1. tick' = tick + 1 /\ tick \in Nat /\ todo' \in Rests /\ todo' \in Seq(Part)
      BY <1>1, RestFacts DEF RecordTick, TypeOK, Rests
    <2>2. TypeOK' /\ Exclusion' /\ Copies'
      BY <1>1, <2>1 DEF RecordTick, TypeOK, Exclusion, Copies, Whole
    <2>3. \A part \in Part : published[part] <= tick' /\ snap[part] = published[part]
      BY <1>1, <2>1 DEF RecordTick, TypeOK, Value, Recording, Exclusion
    <2> QED
      BY <1>1, <2>1, <2>2, <2>3 DEF RecordTick, Recording
  <1>2. CASE Lock
    <2>1. TypeOK' /\ Exclusion' /\ Copies'
      BY <1>2 DEF Lock, TypeOK, Exclusion, Copies, Whole
    <2>2. todo \in {ResultOrder, FailureOrder}
      BY <1>2 DEF Lock, Exclusion
    <2>3. Recording'
      BY <1>2, <2>2 DEF Lock, Recording, ResultOrder, FailureOrder
    <2> QED
      BY <2>1, <2>3
  <1>3. CASE WritePart
    <2>1. /\ Head(todo) \in Part /\ todo' \in Rests /\ todo' \in Seq(Part)
          /\ todo \in Rests /\ todo # <<>> /\ todo' = Tail(todo)
      BY <1>3, RestFacts DEF WritePart, Recording
    <2>2. /\ snap' \in Value
          /\ \A part \in Part : snap'[part] = IF part = Head(todo) THEN tick ELSE snap[part]
      BY <1>3, <2>1 DEF WritePart, TypeOK, Value
    <2>3. TypeOK' /\ Exclusion' /\ Copies'
      BY <1>3, <2>1, <2>2 DEF WritePart, TypeOK, Exclusion, Copies, Whole
    <2>4. "poll" \in Part /\ "scrapeErrors" \in Part /\ "outcome" \in Part
      BY DEF Part
    <2>5. \A part \in Part : published'[part] <= tick' /\ snap'[part] \in {published'[part], tick'}
      BY <1>3, <2>2 DEF WritePart, Recording
    <2>6. snap'["poll"] = tick
      BY <1>3, <2>1, <2>2, <2>4, RestFacts DEF WritePart, Recording
    <2>7. todo' \in {<<"outcome">>, <<>>} => snap'["scrapeErrors"] = tick
      BY <1>3, <2>1, <2>2, <2>4, RestFacts DEF WritePart, Recording
    <2>8. todo' \in {<<"scrapeErrors">>, <<>>} => snap'["outcome"] = tick
      BY <1>3, <2>1, <2>2, <2>4, RestFacts DEF WritePart, Recording
    <2>9. Recording'
      BY <1>3, <2>1, <2>5, <2>6, <2>7, <2>8 DEF WritePart, Recording
    <2> QED
      BY <2>3, <2>9
  <1>4. CASE Unlock
    <2>1. /\ snap["poll"] = tick /\ snap["scrapeErrors"] = tick /\ snap["outcome"] = tick
          /\ snap["properties"] <= tick
      <3>1. "properties" \in Part /\ <<>> \notin {ResultOrder, FailureOrder}
        BY DEF Part, ResultOrder, FailureOrder
      <3>2. snap["properties"] \in {published["properties"], tick}
            /\ published["properties"] <= tick /\ tick <= tick
        BY <3>1 DEF Recording, TypeOK
      <3> QED
        BY <1>4, <3>1, <3>2 DEF Unlock, Recording
    <2>2. Whole(published')
      BY <1>4, <2>1 DEF Unlock, Whole
    <2>3. TypeOK' /\ Exclusion'
      BY <1>4 DEF Unlock, TypeOK, Exclusion
    <2>4. \A part \in Part : snap[part] \in Nat /\ published[part] \in Nat
                              /\ snap[part] <= tick
      <3> SUFFICES ASSUME NEW part \in Part
                   PROVE  snap[part] \in Nat /\ published[part] \in Nat /\ snap[part] <= tick
        OBVIOUS
      <3>1. snap[part] \in Nat /\ published[part] \in Nat /\ tick \in Nat
        BY DEF TypeOK, Value
      <3> QED
        BY <3>1 DEF Recording
    <2>5. Recording'
      BY <1>4, <2>4 DEF Unlock, Recording
    <2>6. Copies'
      <3> SUFFICES ASSUME NEW r \in Reader
                   PROVE  /\ Whole(seen'[r])
                          /\ reader'[r] = "waiting" => left'[r] = Part
                          /\ reader'[r] = "copying" =>
                                \A part \in Part \ left'[r] : copy'[r][part] = published'[part]
        BY <2>2 DEF Copies
      <3>1. Whole(seen'[r])
        BY <1>4 DEF Unlock, Copies
      <3>2. reader'[r] # "waiting" /\ (reader'[r] = "copying" => left'[r] = Part)
        BY <1>4 DEF Unlock, Copies, Exclusion, TypeOK
      <3> QED
        BY <3>1, <3>2
    <2> QED
      BY <2>3, <2>5, <2>6
  <1> QED
    BY <1>1, <1>2, <1>3, <1>4

LEMMA ReaderHolds ==
    ASSUME IInv, NEW r \in Reader, RLock(r) \/ ScrapeGoesOn(r)
    PROVE  IInv'
  <1> USE DEF IInv, writerVars, readerVars
  <1>1. CASE RLock(r)
    <2>1. TypeOK' /\ Exclusion' /\ Recording'
      BY <1>1 DEF RLock, TypeOK, Exclusion, Recording
    <2>2. Copies'
      BY <1>1 DEF RLock, TypeOK, Copies, Whole
    <2> QED
      BY <2>1, <2>2
  <1>2. CASE \E part \in Part : CopyPart(r, part)
    <2>1. PICK part \in Part : CopyPart(r, part)
      BY <1>2
    <2>2. snap = published
      BY <2>1 DEF CopyPart, Exclusion
    <2>3. snap[part] \in Nat /\ copy[r] \in Value
      BY DEF TypeOK, Value
    <2>4. copy' = [copy EXCEPT ![r] = [copy[r] EXCEPT ![part] = snap[part]]]
          /\ left' = [left EXCEPT ![r] = left[r] \ {part}]
      BY <2>1 DEF CopyPart
    <2>5. [copy[r] EXCEPT ![part] = snap[part]] \in Value
      BY <2>3 DEF Value
    <2>6. TypeOK'
      BY <2>1, <2>4, <2>5 DEF CopyPart, TypeOK
    <2>7. Exclusion' /\ Recording'
      BY <2>1 DEF CopyPart, Exclusion, Recording
    <2>8. /\ \A q \in Reader : q # r => copy'[q] = copy[q] /\ left'[q] = left[q]
          /\ copy'[r] = [copy[r] EXCEPT ![part] = snap[part]]
          /\ left'[r] = left[r] \ {part}
      BY <2>4 DEF TypeOK
    <2>9. \A p \in Part \ left'[r] : copy'[r][p] = published[p]
      BY <2>1, <2>2, <2>3, <2>8 DEF CopyPart, Copies, Value
    <2>10. Copies'
      BY <2>1, <2>8, <2>9 DEF CopyPart, Copies, Whole
    <2> QED
      BY <2>6, <2>7, <2>10
  <1>3. CASE RUnlock(r)
    <2>1. TypeOK' /\ Exclusion' /\ Recording'
      BY <1>3 DEF RUnlock, TypeOK, Exclusion, Recording
    <2>2. copy[r] = published
      BY <1>3 DEF RUnlock, TypeOK, Copies, Value
    <2>3. Copies'
      BY <1>3, <2>2 DEF RUnlock, TypeOK, Copies, Whole
    <2> QED
      BY <2>1, <2>3
  <1> QED
    BY <1>1, <1>2, <1>3 DEF ScrapeGoesOn

LEMMA StepHolds == IInv /\ [Next]_vars => IInv'
  <1> SUFFICES ASSUME IInv, [Next]_vars PROVE IInv'
    OBVIOUS
  <1>1. CASE UNCHANGED vars
    BY <1>1 DEF vars, writerVars, readerVars, IInv, TypeOK, Exclusion, Recording, Copies, Whole
  <1>2. CASE Next
    BY <1>2, WriterHolds, ReaderHolds DEF Next, WriterGoesOn
  <1> QED
    BY <1>1, <1>2

\* The lock keeps copies and recordings apart.
THEOREM CacheInvariance == Spec => []IInv
  BY InitHolds, StepHolds, PTL DEF Spec

\* The copies and the writer's place in its list of fields keep their types.
THEOREM TypeCorrect == Spec => []TypeOK
  <1>1. IInv => TypeOK
    BY DEF IInv
  <1> QED
    BY <1>1, CacheInvariance, PTL

\* No scrape mixes two ticks.
THEOREM ScrapesAreWholeHolds == Spec => []ScrapesAreWhole
  <1>1. IInv => ScrapesAreWhole
    BY DEF IInv, Copies, Whole, ScrapesAreWhole
  <1> QED
    BY <1>1, CacheInvariance, PTL

LEMMA StepRefines ==
    IInv /\ [Next]_vars => [Register!RegisterNext]_<<published, seen>>
  <1> SUFFICES ASSUME IInv, [Next]_vars
               PROVE  Register!RegisterNext \/ (published' = published /\ seen' = seen)
    OBVIOUS
  <1> USE DEF Register!RegisterNext, Register!Publish, Register!Read
  <1>1. CASE Unlock
    BY <1>1 DEF Unlock, IInv, TypeOK
  <1>2. CASE \E r \in Reader : RUnlock(r)
    <2>1. PICK r \in Reader : RUnlock(r)
      BY <1>2
    <2>2. copy[r] = published
      BY <2>1 DEF RUnlock, IInv, TypeOK, Copies, Value
    <2> QED
      BY <2>1, <2>2 DEF RUnlock, writerVars
  <1>3. CASE RecordTick \/ Lock \/ WritePart
    BY <1>3 DEF RecordTick, Lock, WritePart, readerVars
  <1>4. CASE \E r \in Reader : RLock(r) \/ \E part \in Part : CopyPart(r, part)
    BY <1>4 DEF RLock, CopyPart, writerVars
  <1>5. CASE UNCHANGED vars
    BY <1>5 DEF vars, writerVars, readerVars
  <1> QED
    BY <1>1, <1>2, <1>3, <1>4, <1>5 DEF Next, WriterGoesOn, ScrapeGoesOn

\* The locked, part by part accesses implement the register.
THEOREM CacheRefinement == Spec => CacheIsARegister
  <1>1. Init => Register!RegisterInit
    BY DEF Init, Register!RegisterInit
  <1> QED
    BY <1>1, StepRefines, CacheInvariance, PTL DEF Spec, CacheIsARegister, Register!RegisterSpec

=============================================================================
