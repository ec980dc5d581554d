--------------------------- MODULE SnapshotCache ----------------------------
(* The Snapshot behind p.mu (internal/poller/poller.go): recordTickResult   *)
(* and recordTickFailure overwrite it part by part under the write lock,    *)
(* while scrapes of /metrics and /api/state copy it, part by part, under    *)
(* the read lock. Parts hold the number of the tick that wrote them.        *)
EXTENDS Integers, Sequences

CONSTANTS
    Reader,    \* the goroutines serving scrapes
    MaxTicks   \* bound: ticks recorded

ASSUME TicksAssumption == MaxTicks \in Nat

\* "poll": LastPollAt, SessionExpiresAt and AuthFailed; "outcome": OK, LastError
\* and LastSuccessAt.
Part == {"poll", "properties", "scrapeErrors", "outcome"}

Value == [Part -> Nat]
First == [part \in Part |-> 0]

\* The parts each way of recording a tick writes, in its order.
ResultOrder == <<"poll", "properties", "scrapeErrors", "outcome">>
FailureOrder == <<"poll", "outcome", "scrapeErrors">>

VARIABLES
    snap,       \* p.snap
    writer,     \* the poller goroutine: "idle", "waiting" for the lock, "writing"
    tick,       \* the number of the tick being recorded, or recorded last
    todo,       \* the parts still to be written
    reader,     \* each scrape: "idle", "waiting" for the lock, "copying"
    left,       \* the parts each scrape has still to copy
    copy,       \* the copy each scrape is making
    seen,       \* the copy each scrape got last
    published   \* history: the snapshot the last tick left behind

writerVars == <<snap, writer, tick, todo, published>>
readerVars == <<reader, left, copy, seen>>
vars == <<writerVars, readerVars>>

Init ==
    /\ snap = First /\ published = First
    /\ writer = "idle" /\ tick = 0 /\ todo = <<>>
    /\ reader = [r \in Reader |-> "idle"]
    /\ left = [r \in Reader |-> {}]
    /\ copy = [r \in Reader |-> First]
    /\ seen = [r \in Reader |-> First]

-----------------------------------------------------------------------------
(* recordTickResult and recordTickFailure                                   *)

\* mu.Lock announces itself: scrapes that come later wait.
RecordTick ==
    /\ writer = "idle"
    /\ tick < MaxTicks
    /\ writer' = "waiting"
    /\ tick' = tick + 1
    /\ todo' \in {ResultOrder, FailureOrder}
    /\ UNCHANGED <<snap, published, readerVars>>

\* Mutant: the readers hold no lock that the writer would wait for.
LockUnshared ==
    /\ writer = "waiting"
    /\ writer' = "writing"
    /\ UNCHANGED <<snap, tick, todo, published, readerVars>>

Lock ==
    /\ writer = "waiting"
    /\ \A r \in Reader : reader[r] # "copying"
    /\ writer' = "writing"
    /\ UNCHANGED <<snap, tick, todo, published, readerVars>>

WritePart ==
    /\ writer = "writing"
    /\ todo # <<>>
    /\ snap' = [snap EXCEPT ![Head(todo)] = tick]
    /\ todo' = Tail(todo)
    /\ UNCHANGED <<writer, tick, published, readerVars>>

\* Mutant: the lock is never released.
UnlockForgotten == FALSE /\ UNCHANGED vars

\* mu.Unlock lets in every scrape that has been waiting.
Unlock ==
    /\ writer = "writing"
    /\ todo = <<>>
    /\ writer' = "idle"
    /\ published' = snap
    /\ reader' = [r \in Reader |-> IF reader[r] = "waiting" THEN "copying" ELSE reader[r]]
    /\ UNCHANGED <<snap, tick, todo, left, copy, seen>>

-----------------------------------------------------------------------------
(* Snapshot, called once per scrape                                         *)

\* Mutants: the map of counters is not copied; a waiting writer is overtaken.
RLockShallow(r) ==
    /\ reader[r] = "idle"
    /\ reader' = [reader EXCEPT ![r] = IF writer = "idle" THEN "copying" ELSE "waiting"]
    /\ left' = [left EXCEPT ![r] = Part \ {"scrapeErrors"}]
    /\ UNCHANGED <<writerVars, copy, seen>>
RLockOvertaking(r) ==
    /\ reader[r] = "idle"
    /\ reader' = [reader EXCEPT ![r] = IF writer # "writing" THEN "copying" ELSE "waiting"]
    /\ left' = [left EXCEPT ![r] = Part]
    /\ UNCHANGED <<writerVars, copy, seen>>

\* mu.RLock waits while the writer holds the lock, or waits for it.
RLock(r) ==
    /\ reader[r] = "idle"
    /\ reader' = [reader EXCEPT ![r] = IF writer = "idle" THEN "copying" ELSE "waiting"]
    /\ left' = [left EXCEPT ![r] = Part]
    /\ UNCHANGED <<writerVars, copy, seen>>

CopyPart(r, part) ==
    /\ reader[r] = "copying"
    /\ part \in left[r]
    /\ copy' = [copy EXCEPT ![r] = [copy[r] EXCEPT ![part] = snap[part]]]
    /\ left' = [left EXCEPT ![r] = left[r] \ {part}]
    /\ UNCHANGED <<writerVars, reader, seen>>

RUnlock(r) ==
    /\ reader[r] = "copying"
    /\ left[r] = {}
    /\ reader' = [reader EXCEPT ![r] = "idle"]
    /\ seen' = [seen EXCEPT ![r] = copy[r]]
    /\ UNCHANGED <<writerVars, left, copy>>

-----------------------------------------------------------------------------

WriterGoesOn == Lock \/ WritePart \/ Unlock
ScrapeGoesOn(r) == (\E part \in Part : CopyPart(r, part)) \/ RUnlock(r)

Next ==
    \/ RecordTick \/ WriterGoesOn
    \/ \E r \in Reader : RLock(r) \/ ScrapeGoesOn(r)

\* Goroutines are scheduled; nothing obliges a scrape or a tick to come.
Fairness == WF_vars(WriterGoesOn) /\ \A r \in Reader : WF_vars(ScrapeGoesOn(r))

Spec == Init /\ [][Next]_vars
LiveSpec == Spec /\ Fairness

-----------------------------------------------------------------------------
(* Properties                                                               *)

\* Types of the snapshot, its copies and the states of the lock's users; the
\* lock is given back only when the record is complete.
TypeOK ==
    /\ snap \in Value /\ published \in Value
    /\ writer \in {"idle", "waiting", "writing"}
    /\ tick \in Nat /\ todo \in Seq(Part)
    /\ writer = "idle" => todo = <<>>
    /\ reader \in [Reader -> {"idle", "waiting", "copying"}]
    /\ left \in [Reader -> SUBSET Part]
    /\ copy \in [Reader -> Value] /\ seen \in [Reader -> Value]

\* A scrape never mixes two ticks: all it shows of one poll is of the same poll,
\* its properties of that poll or of an earlier one that was kept
\* (poller.go:182-197, 437-448).
ScrapesAreWhole ==
    \A r \in Reader :
        /\ seen[r]["scrapeErrors"] = seen[r]["poll"]
        /\ seen[r]["outcome"] = seen[r]["poll"]
        /\ seen[r]["properties"] <= seen[r]["poll"]

Register == INSTANCE SnapshotRegister WITH value <- published

\* For its readers the cache is a register: a scrape returns the snapshot of
\* the last tick recorded, as it was at one moment of that scrape.
CacheIsARegister == Register!RegisterSpec

\* Scrapes, however many, never keep a tick from being recorded.
TicksAreRecorded == writer = "waiting" ~> writer = "idle"

\* Ticks never keep a scrape from being answered.
ScrapesAreAnswered == \A r \in Reader : reader[r] # "idle" ~> reader[r] = "idle"

=============================================================================
