----------------------------- MODULE Exposition -----------------------------
(* What a reader of /metrics and /api/state is told of a tick: how          *)
(* pollProperty sums up the hourly buckets of one property, how pollOnce    *)
(* gathers the summaries in the order of the listing, and what gafCollector *)
(* (internal/server/metrics.go) and buildStateResponse (state.go) make of   *)
(* the Snapshot. Retries, daily totals and the halting of the loop are      *)
(* module Poller; gaf_scrape_errors_total, the daily total and the time     *)
(* zone are copied as they are and left out here, as is the session's       *)
(* remaining time, which is the expiry less the time of the scrape.         *)
EXTENDS Integers, Sequences, SequencesExt

CONSTANTS
    Id,             \* Property.ID
    Address,        \* street, city and state, joined; "" when all are blank
    Listings,       \* the properties a tick may go through, pinned and ready ones only
    Answers,        \* the hourly buckets a request may be answered with
    InverterTables, \* what is known of each property's first inverter
    Expiries        \* exp claims; 0 when none can be read

\* A bucket's start, 0 when its date does not parse, and its energy.
Bucket == [time : Nat, kWh : Int]

\* The zero client.Inverter, one without a serial number, one with.
InverterKind == {"none", "noSerial", "serial"}

Row == [id : Id, address : Address]

ASSUME ListingsAssumption == Listings \subseteq Seq(Row)
ASSUME AnswersAssumption == Answers \subseteq Seq(Bucket)
ASSUME InvertersAssumption == InverterTables \subseteq [Id -> InverterKind]
ASSUME ExpiriesAssumption == Expiries \subseteq Nat

VARIABLES
    stage,      \* of pollOnce: between ticks, before or in the loop over properties
    expiry,     \* Poller.sessionExpiresAt
    rows,       \* properties the loop has still to poll
    inverters,  \* Poller.inverters, the first of each property
    propSnaps,  \* local of pollOnce
    failed,     \* firstErr is set
    snap,       \* Poller.snap
    repeats,    \* history: the listing of the tick names a property twice
    shownRepeats  \* history: so did that of the tick whose properties are in snap

historyVars == <<repeats, shownRepeats>>
vars == <<stage, expiry, rows, inverters, propSnaps, failed, snap, historyVars>>

-----------------------------------------------------------------------------
(* pollProperty: the summary of one property                                *)

\* HourSample{}: no bucket of today could be read.
NoHour == [time |-> 0, kWh |-> 0]

\* Mutant: the last of the newest buckets is kept instead of the first.
LatestHourLast(buckets) ==
    FoldLeft(LAMBDA latest, b : IF b.time >= latest.time THEN b ELSE latest,
             NoHour, buckets)

\* A bucket replaces the latest when it begins After it.
LatestHour(buckets) ==
    FoldLeft(LAMBDA latest, b : IF b.time > latest.time THEN b ELSE latest,
             NoHour, buckets)

\* A bucket counts for the day even when its date does not parse.
TodayKWh(buckets) == FoldLeft(LAMBDA total, b : total + b.kWh, 0, buckets)

\* The buckets themselves are kept as history only.
Summary(row, buckets, inverter) ==
    [id |-> row.id, address |-> row.address, inverter |-> inverter,
     today |-> TodayKWh(buckets), hour |-> LatestHour(buckets), of |-> buckets]

Entry == {Summary(row, buckets, inverter) :
             row \in Row, buckets \in Answers, inverter \in InverterKind}

Snapshot == [ok : BOOLEAN, error : {"", "tick", "property"}, expiry : Nat,
             properties : Seq(Entry)]

Repeats(listing) ==
    \E i, j \in DOMAIN listing : i # j /\ listing[i].id = listing[j].id

-----------------------------------------------------------------------------
(* pollOnce                                                                 *)

Init ==
    /\ stage = "idle"
    /\ expiry \in Expiries \cup {0}
    /\ rows = <<>> /\ propSnaps = <<>>
    /\ inverters \in InverterTables
    /\ failed = FALSE
    /\ snap = [ok |-> FALSE, error |-> "", expiry |-> expiry, properties |-> <<>>]
    /\ repeats = FALSE /\ shownRepeats = FALSE

\* The expiry is read from the provider; 0: it could not be.
BeginTick(read) ==
    /\ stage = "idle"
    /\ stage' = "checking"
    /\ expiry' = IF read = 0 THEN expiry ELSE read
    /\ UNCHANGED <<rows, inverters, propSnaps, failed, snap, historyVars>>

\* Mutant: the slice of the tick before is appended to.
ListPropertiesOnto(listing, table) ==
    /\ stage = "checking"
    /\ stage' = "polling"
    /\ rows' = listing
    /\ inverters' = table
    /\ propSnaps' = snap.properties
    /\ failed' = FALSE
    /\ repeats' = Repeats(listing)
    /\ UNCHANGED <<expiry, snap, shownRepeats>>

\* The session is alive and the metadata, refreshed or not, is this.
ListProperties(listing, table) ==
    /\ stage = "checking"
    /\ stage' = "polling"
    /\ rows' = listing
    /\ inverters' = table
    /\ propSnaps' = <<>>
    /\ failed' = FALSE
    /\ repeats' = Repeats(listing)
    /\ UNCHANGED <<expiry, snap, shownRepeats>>

\* The hourly request was answered.
KeepProperty(buckets) ==
    /\ stage = "polling" /\ rows # <<>>
    /\ propSnaps' = Append(propSnaps,
                           Summary(Head(rows), buckets, inverters[Head(rows).id]))
    /\ rows' = Tail(rows)
    /\ UNCHANGED <<stage, expiry, inverters, failed, snap, historyVars>>

\* It failed for good, or the property's zone is unknown.
SkipProperty ==
    /\ stage = "polling" /\ rows # <<>>
    /\ rows' = Tail(rows)
    /\ failed' = TRUE
    /\ UNCHANGED <<stage, expiry, inverters, propSnaps, snap, historyVars>>

\* recordTickResult
FinishTick ==
    /\ stage = "polling" /\ rows = <<>>
    /\ stage' = "idle"
    /\ snap' = [ok |-> ~failed, error |-> IF failed THEN "property" ELSE "",
                expiry |-> expiry, properties |-> propSnaps]
    /\ shownRepeats' = repeats
    /\ UNCHANGED <<expiry, rows, inverters, propSnaps, failed, repeats>>

\* recordTickFailure: the session has expired, the metadata could not be
\* refreshed, or a property's request was refused. The properties stay.
AbandonTick ==
    /\ stage = "checking" \/ (stage = "polling" /\ rows # <<>>)
    /\ stage' = "idle"
    /\ snap' = [snap EXCEPT !.ok = FALSE, !.error = "tick", !.expiry = expiry]
    /\ UNCHANGED <<expiry, rows, inverters, propSnaps, failed, historyVars>>

Next ==
    \/ \E read \in Expiries \cup {0} : BeginTick(read)
    \/ \E listing \in Listings, table \in InverterTables : ListProperties(listing, table)
    \/ \E buckets \in Answers : KeepProperty(buckets)
    \/ SkipProperty \/ FinishTick \/ AbandonTick

Spec == Init /\ [][Next]_vars

-----------------------------------------------------------------------------
(* /metrics                                                                 *)

Sample(name, id, label, value) == [name |-> name, id |-> id, label |-> label, value |-> value]

FormatAddress(address) == IF address = "" THEN "unknown" ELSE address

\* time.Time{}.Unix() is -62135596800: a number that is no instant's.
ZeroUnix == -1

\* time.Time.Unix, of an instant or of the zero time.Time.
Unix(time) == IF time = 0 THEN ZeroUnix ELSE time

\* Mutant: a property without a bucket is given the zero time.Time.
PropertySamplesAlways(p) ==
    {Sample("last_sample", p.id, "", Unix(p.hour.time)),
     Sample("latest_hour", p.id, FormatAddress(p.address), p.hour.kWh),
     Sample("today", p.id, FormatAddress(p.address), p.today)}
    \cup {Sample("inverter", p.id, p.inverter, 1) : known \in {p.inverter} \ {"none"}}

\* What Collect emits of one property. An inverter's labels are its own fields.
PropertySamples(p) ==
    {Sample("latest_hour", p.id, FormatAddress(p.address), p.hour.kWh),
     Sample("today", p.id, FormatAddress(p.address), p.today)}
    \cup {Sample("last_sample", p.id, "", Unix(t)) : t \in {p.hour.time} \ {0}}
    \cup {Sample("inverter", p.id, known, 1) : known \in {p.inverter} \ {"none"}}

\* Mutant: an expiry that is unknown is converted like any other.
AccountSamplesUnguarded(s) ==
    {Sample("up", "", "", IF s.ok THEN 1 ELSE 0),
     Sample("session_expires_at", "", "", Unix(s.expiry))}

\* What it emits of the daemon: gaf_up, and the expiry, 0 when unknown.
AccountSamples(s) ==
    {Sample("up", "", "", IF s.ok THEN 1 ELSE 0),
     Sample("session_expires_at", "", "", IF s.expiry = 0 THEN 0 ELSE Unix(s.expiry))}

\* The values of a metric among some samples, and its labels.
Values(name, samples) == {m.value : m \in {n \in samples : n.name = name}}
Labels(name, samples) == {m.label : m \in {n \in samples : n.name = name}}

\* The registry tells series apart by name and labels.
Series(p) == {[name |-> m.name, id |-> m.id, label |-> m.label] : m \in PropertySamples(p)}

\* Gathering fails, and the whole of /metrics is answered with a 500, when a
\* series is emitted twice.
Gathered(properties) ==
    \A i, j \in DOMAIN properties :
        i # j => Series(properties[i]) \cap Series(properties[j]) = {}

-----------------------------------------------------------------------------
(* /api/state                                                               *)

\* Fields marked omitempty are sets of at most one value.
PropertyToState(p) ==
    [id |-> p.id,
     address |-> {p.address} \ {""},
     today |-> p.today,
     latestHour |-> {h \in {[time |-> p.hour.time, kWh |-> p.hour.kWh]} : h.time # 0},
     inverter |-> {p.inverter} \cap {"serial"}]

StateResponse(s) ==
    [ok |-> s.ok,
     error |-> IF s.ok THEN {} ELSE {s.error} \ {""},
     expires |-> {s.expiry} \ {0},
     properties |-> [i \in DOMAIN s.properties |-> PropertyToState(s.properties[i])]]

-----------------------------------------------------------------------------
(* Properties                                                               *)

\* The tick and the Snapshot hold summaries of answers, made by pollProperty.
TypeOK ==
    /\ stage \in {"idle", "checking", "polling"}
    /\ expiry \in Nat
    /\ rows \in Seq(Row)
    /\ inverters \in [Id -> InverterKind]
    /\ propSnaps \in Seq(Entry)
    /\ failed \in BOOLEAN
    /\ snap \in Snapshot
    /\ repeats \in BOOLEAN /\ shownRepeats \in BOOLEAN

\* Whatever ticks fail, are abandoned or change the listing, no two entries of
\* the Snapshot collide in the registry: /metrics answers, unless the listing
\* that the shown properties are of named one twice. One tick to its end over a
\* better listing clears that (metrics.go:112-131, poller.go:257-280).
MetricsAreGathered == shownRepeats \/ Gathered(snap.properties)

\* What two programs are told that read one Snapshot, one /metrics and one
\* /api/state, which decide each on its own what is missing (metrics.go:99-154,
\* state.go:61-105). Both say the same of whether the poll succeeded, of the
\* day's total, of the expiry and of the newest bucket, none of which is the
\* zero time in either. Where /api/state leaves the expiry or the bucket out,
\* /metrics has 0 for it, and no timestamp. Where an inverter has a serial
\* number both show it; one that has none is in /metrics alone.
SurfacesAgree ==
    LET state == StateResponse(snap)
        account == AccountSamples(snap)
    IN  /\ Values("up", account) = {IF state.ok THEN 1 ELSE 0}
        /\ state.error # {} => Values("up", account) = {0}
        /\ Values("session_expires_at", account) =
              IF state.expires = {} THEN {0} ELSE {Unix(t) : t \in state.expires}
        /\ ZeroUnix \notin Values("session_expires_at", account)
        /\ \A i \in DOMAIN snap.properties :
              LET samples == PropertySamples(snap.properties[i])
                  entry == state.properties[i]
              IN  /\ Values("last_sample", samples) = {Unix(h.time) : h \in entry.latestHour}
                  /\ ZeroUnix \notin Values("last_sample", samples)
                  /\ Values("latest_hour", samples) =
                        IF entry.latestHour = {} THEN {0}
                                                 ELSE {h.kWh : h \in entry.latestHour}
                  /\ Values("today", samples) = {entry.today}
                  /\ entry.inverter = Labels("inverter", samples) \ {"noSerial"}

\* The latest hour shown is the first of the newest buckets that could be read,
\* however the portal orders, repeats or garbles them, and today's total is that
\* of them all (poller.go:366-381).
NewestBucketShown ==
    \A i \in DOMAIN snap.properties :
        LET p == snap.properties[i]
            readable == {k \in DOMAIN p.of : p.of[k].time # 0}
            newest == {k \in readable : \A l \in readable : p.of[l].time <= p.of[k].time}
        IN  /\ p.today = FoldFunction(+, 0, [k \in DOMAIN p.of |-> p.of[k].kWh])
            /\ IF readable = {}
                 THEN p.hour = NoHour
                 ELSE \E k \in newest : p.hour = p.of[k] /\ \A l \in newest : k <= l

=============================================================================
