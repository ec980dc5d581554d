-------------------------- MODULE ExpositionProofs --------------------------
(* For any account, any answers and any listing: the types of module        *)
(* Exposition, that /metrics can be gathered, and that its samples and the  *)
(* answer of /api/state agree, and that they tell the newest bucket and the *)
(* sum of them all. The last is an induction over the folds of module Folds *)
(* along the buckets, made here from well-founded relations.                *)
EXTENDS Exposition, FiniteSetTheorems, WellFoundedInduction, TLAPS

\* No two members of the sequence have the same id.
Distinct(seq) == \A i, j \in DOMAIN seq : i # j => seq[i].id # seq[j].id

\* No member of the one has the id of a member of the other.
Apart(s, t) == \A i \in DOMAIN s, j \in DOMAIN t : s[i].id # t[j].id

\* Unless the listing of the tick repeats itself, neither do the rows still to
\* poll, the entries gathered, or the two together; nor the entries published,
\* unless that of their tick did.
Unrepeated ==
    /\ ~repeats => Distinct(rows) /\ Distinct(propSnaps) /\ Apart(propSnaps, rows)
    /\ ~shownRepeats => Distinct(snap.properties)

\* The invariant is inductive: the tick's own sequences are needed for the
\* Snapshot's.
IInv == TypeOK /\ Unrepeated

\* A summary is an entry, of the row it was made for.
LEMMA SummaryType ==
    ASSUME NEW row \in Row, NEW buckets \in Answers, NEW inverter \in InverterKind
    PROVE  /\ Summary(row, buckets, inverter) \in Entry
           /\ Summary(row, buckets, inverter).id = row.id
  BY DEF Entry, Summary

\* The sequences a tick begins with.
LEMMA EmptySequences == <<>> \in Seq(Row) /\ <<>> \in Seq(Entry)
  OBVIOUS

\* What the fields of a row are.
LEMMA RowFields == ASSUME NEW row \in Row PROVE row.id \in Id
  BY DEF Row

-----------------------------------------------------------------------------
(* The tick                                                                 *)

LEMMA TypeInit == Init => TypeOK
  <1> SUFFICES ASSUME Init PROVE TypeOK
    OBVIOUS
  <1>1. expiry \in Expiries \cup {0} /\ inverters \in InverterTables
    BY Zenon DEF Init
  <1>2. expiry \in Nat /\ inverters \in [Id -> InverterKind]
    BY <1>1, ExpiriesAssumption, InvertersAssumption
  <1>3. snap = [ok |-> FALSE, error |-> "", expiry |-> expiry, properties |-> <<>>]
    BY Zenon DEF Init
  <1>4. snap \in Snapshot
    BY <1>2, <1>3, EmptySequences DEF Snapshot
  <1>5. /\ stage = "idle" /\ rows = <<>> /\ propSnaps = <<>>
        /\ failed = FALSE /\ repeats = FALSE /\ shownRepeats = FALSE
    BY Zenon DEF Init
  <1> QED
    BY <1>2, <1>4, <1>5, EmptySequences DEF TypeOK

LEMMA TypeStep == TypeOK /\ [Next]_vars => TypeOK'
  <1> SUFFICES ASSUME TypeOK, [Next]_vars PROVE TypeOK'
    OBVIOUS
  <1> USE DEF TypeOK, historyVars
  <1>1. ASSUME NEW read \in Expiries \cup {0}, BeginTick(read) PROVE TypeOK'
    BY <1>1, ExpiriesAssumption DEF BeginTick
  <1>2. ASSUME NEW listing \in Listings, NEW table \in InverterTables,
               ListProperties(listing, table)
        PROVE  TypeOK'
    <2>1. rows' \in Seq(Row) /\ inverters' \in [Id -> InverterKind]
      BY <1>2, ListingsAssumption, InvertersAssumption DEF ListProperties
    <2>2. repeats' \in BOOLEAN
      <3>1. repeats' = Repeats(listing)
        BY <1>2, Zenon DEF ListProperties
      <3> QED
        BY <3>1, Zenon DEF Repeats
    <2>3. /\ stage' = "polling" /\ propSnaps' = <<>> /\ failed' = FALSE
          /\ expiry' = expiry /\ snap' = snap /\ shownRepeats' = shownRepeats
      BY <1>2, Zenon DEF ListProperties
    <2> QED
      BY <2>1, <2>2, <2>3, EmptySequences
  <1>3. ASSUME NEW buckets \in Answers, KeepProperty(buckets) PROVE TypeOK'
    <2>1. Head(rows) \in Row /\ Tail(rows) \in Seq(Row)
      BY <1>3 DEF KeepProperty
    <2>2. inverters[Head(rows).id] \in InverterKind
      BY <2>1, RowFields
    <2>3. Summary(Head(rows), buckets, inverters[Head(rows).id]) \in Entry
      BY <2>1, <2>2, SummaryType
    <2> QED
      BY <1>3, <2>1, <2>3 DEF KeepProperty
  <1>4. CASE SkipProperty
    BY <1>4 DEF SkipProperty
  <1>5. CASE FinishTick
    <2>1. snap' \in Snapshot
      BY <1>5 DEF FinishTick, Snapshot
    <2> QED
      BY <1>5, <2>1 DEF FinishTick
  <1>6. CASE AbandonTick
    <2>1. snap' \in Snapshot
      BY <1>6 DEF AbandonTick, Snapshot
    <2> QED
      BY <1>6, <2>1 DEF AbandonTick
  <1>7. CASE UNCHANGED vars
    BY <1>7 DEF vars
  <1> QED
    BY <1>1, <1>2, <1>3, <1>4, <1>5, <1>6, <1>7 DEF Next

\* The tick and the Snapshot keep their types, whatever the portal answers.
THEOREM TypeCorrect == Spec => []TypeOK
  BY TypeInit, TypeStep, PTL DEF Spec

\* One property more: it leaves the rows and joins the entries.
LEMMA KeepUnrepeated ==
    ASSUME TypeOK, Unrepeated, ~repeats,
           NEW buckets \in Answers, KeepProperty(buckets)
    PROVE  /\ Distinct(rows') /\ Distinct(propSnaps') /\ Apart(propSnaps', rows')
  <1> DEFINE entry == Summary(Head(rows), buckets, inverters[Head(rows).id])
  <1>1. rows \in Seq(Row) /\ rows # <<>> /\ propSnaps \in Seq(Entry)
    BY DEF TypeOK, KeepProperty
  <1>2. Head(rows) = rows[1] /\ rows[1] \in Row /\ 1 \in DOMAIN rows
    BY <1>1
  <1>3. entry.id = rows[1].id /\ entry \in Entry
    <2>1. inverters[Head(rows).id] \in InverterKind
      BY <1>2, RowFields DEF TypeOK
    <2> QED
      BY <1>2, <2>1, SummaryType
  <1>4. rows' = Tail(rows) /\ propSnaps' = Append(propSnaps, entry)
    BY DEF KeepProperty
  <1> HIDE DEF entry
  <1>5. \A i \in DOMAIN rows' : i + 1 \in DOMAIN rows /\ i + 1 # 1 /\ rows'[i] = rows[i + 1]
    BY <1>1, <1>4
  <1>6. \A i \in DOMAIN propSnaps' :
           \/ i \in DOMAIN propSnaps /\ propSnaps'[i] = propSnaps[i]
           \/ i = Len(propSnaps) + 1 /\ propSnaps'[i] = entry
    BY <1>1, <1>3, <1>4
  <1>7. Distinct(rows')
    <2>1. \A i, j \in DOMAIN rows' : i # j => i + 1 # j + 1
      BY <1>1, <1>4
    <2> QED
      BY <1>5, <2>1 DEF Unrepeated, Distinct
  <1>8. Distinct(propSnaps')
    <2>1. \A i \in DOMAIN propSnaps : propSnaps[i].id # entry.id
      BY <1>2, <1>3 DEF Unrepeated, Apart
    <2> QED
      BY <1>6, <2>1 DEF Unrepeated, Distinct
  <1>9. Apart(propSnaps', rows')
    <2>1. \A j \in DOMAIN rows' : rows'[j].id # entry.id
      BY <1>2, <1>3, <1>5 DEF Unrepeated, Distinct
    <2>2. \A i \in DOMAIN propSnaps, j \in DOMAIN rows' : propSnaps[i].id # rows'[j].id
      BY <1>5 DEF Unrepeated, Apart
    <2> QED
      BY <1>6, <2>1, <2>2 DEF Apart
  <1> QED
    BY <1>7, <1>8, <1>9

\* A skipped property only leaves the rows.
LEMMA SkipUnrepeated ==
    ASSUME TypeOK, Unrepeated, ~repeats, SkipProperty
    PROVE  Distinct(rows') /\ Distinct(propSnaps') /\ Apart(propSnaps', rows')
  <1>1. rows \in Seq(Row) /\ rows # <<>> /\ rows' = Tail(rows) /\ propSnaps' = propSnaps
    BY DEF TypeOK, SkipProperty
  <1>2. \A i \in DOMAIN rows' : i + 1 \in DOMAIN rows /\ rows'[i] = rows[i + 1]
    BY <1>1
  <1>3. \A i, j \in DOMAIN rows' : i # j => i + 1 # j + 1
    BY <1>1
  <1>4. Distinct(rows')
    BY <1>2, <1>3 DEF Unrepeated, Distinct
  <1>5. Apart(propSnaps', rows')
    BY <1>1, <1>2 DEF Unrepeated, Apart
  <1> QED
    BY <1>1, <1>4, <1>5 DEF Unrepeated

LEMMA StepHolds == IInv /\ [Next]_vars => IInv'
  <1> SUFFICES ASSUME IInv, [Next]_vars PROVE Unrepeated'
    BY TypeStep DEF IInv
  <1> USE DEF historyVars
  <1>0. TypeOK /\ Unrepeated
    BY DEF IInv
  <1>1. ASSUME NEW read \in Expiries \cup {0}, BeginTick(read) PROVE Unrepeated'
    BY <1>0, <1>1 DEF BeginTick, Unrepeated
  <1>2. ASSUME NEW listing \in Listings, NEW table \in InverterTables,
               ListProperties(listing, table)
        PROVE  Unrepeated'
    <2>1. repeats' = Repeats(listing)
      BY <1>2, Zenon DEF ListProperties
    <2>2. /\ rows' = listing /\ propSnaps' = <<>>
          /\ snap' = snap /\ shownRepeats' = shownRepeats
      BY <1>2 DEF ListProperties
    <2>3. ~repeats' => Distinct(rows')
      BY <2>1, <2>2 DEF Repeats, Distinct
    <2>4. Distinct(propSnaps') /\ Apart(propSnaps', rows')
      BY <2>2 DEF Distinct, Apart
    <2> QED
      BY <1>0, <2>2, <2>3, <2>4 DEF Unrepeated
  <1>3. ASSUME NEW buckets \in Answers, KeepProperty(buckets) PROVE Unrepeated'
    <2>1. UNCHANGED <<repeats, shownRepeats, snap>>
      BY <1>3 DEF KeepProperty
    <2> QED
      BY <1>0, <1>3, <2>1, KeepUnrepeated DEF Unrepeated
  <1>4. CASE SkipProperty
    <2>1. UNCHANGED <<repeats, shownRepeats, snap>>
      BY <1>4 DEF SkipProperty
    <2> QED
      BY <1>0, <1>4, <2>1, SkipUnrepeated DEF Unrepeated
  <1>5. CASE FinishTick
    <2>1. /\ snap'.properties = propSnaps /\ shownRepeats' = repeats
          /\ UNCHANGED <<rows, propSnaps, repeats>>
      BY <1>5 DEF FinishTick
    <2> QED
      BY <1>0, <2>1 DEF Unrepeated
  <1>6. CASE AbandonTick
    <2>1. /\ snap'.properties = snap.properties
          /\ UNCHANGED <<rows, propSnaps, repeats, shownRepeats>>
      BY <1>0, <1>6 DEF AbandonTick, TypeOK, Snapshot
    <2> QED
      BY <1>0, <2>1 DEF Unrepeated
  <1>7. CASE UNCHANGED vars
    BY <1>0, <1>7 DEF vars, Unrepeated
  <1> QED
    BY <1>1, <1>2, <1>3, <1>4, <1>5, <1>6, <1>7 DEF Next

LEMMA InitHolds == Init => IInv
  <1> SUFFICES ASSUME Init PROVE Unrepeated
    BY TypeInit DEF IInv
  <1>1. rows = <<>> /\ propSnaps = <<>> /\ snap.properties = <<>>
    BY DEF Init
  <1> QED
    BY <1>1 DEF Unrepeated, Distinct, Apart

-----------------------------------------------------------------------------
(* /metrics                                                                 *)

\* Every series of a property carries its id.
LEMMA SeriesHaveTheId ==
    ASSUME NEW p, NEW series \in Series(p)
    PROVE  series.id = p.id
  <1>1. PICK m \in PropertySamples(p) :
           series = [name |-> m.name, id |-> m.id, label |-> m.label]
    BY DEF Series
  <1>2. \E name, label, value : m = Sample(name, p.id, label, value)
    BY Zenon DEF PropertySamples
  <1>3. m.id = p.id
    BY <1>2 DEF Sample
  <1> QED
    BY <1>1, <1>3

\* /metrics can be gathered whenever the listing that the shown properties are of
\* did not repeat itself, whatever came before.
THEOREM MetricsAreGatheredHolds == Spec => []MetricsAreGathered
  <1>1. IInv => MetricsAreGathered
    <2> SUFFICES ASSUME IInv, ~shownRepeats,
                        NEW i \in DOMAIN snap.properties, NEW j \in DOMAIN snap.properties,
                        i # j, NEW series \in Series(snap.properties[i]),
                        series \in Series(snap.properties[j])
                 PROVE  FALSE
      BY DEF MetricsAreGathered, Gathered
    <2>1. snap.properties[i].id # snap.properties[j].id
      BY DEF IInv, Unrepeated, Distinct
    <2> QED
      BY <2>1, SeriesHaveTheId
  <1>2. Spec => []IInv
    BY InitHolds, StepHolds, PTL DEF Spec
  <1> QED
    BY <1>1, <1>2, PTL

-----------------------------------------------------------------------------
(* What the samples say                                                    *)

\* What one property's samples say, metric by metric.
LEMMA SampleValues ==
    ASSUME NEW p
    PROVE  /\ Values("last_sample", PropertySamples(p)) = {Unix(t) : t \in {p.hour.time} \ {0}}
           /\ Values("latest_hour", PropertySamples(p)) = {p.hour.kWh}
           /\ Values("today", PropertySamples(p)) = {p.today}
           /\ Labels("inverter", PropertySamples(p)) = {p.inverter} \ {"none"}
  <1> DEFINE hour == Sample("latest_hour", p.id, FormatAddress(p.address), p.hour.kWh)
             today == Sample("today", p.id, FormatAddress(p.address), p.today)
             last == Sample("last_sample", p.id, "", Unix(p.hour.time))
             inverter == Sample("inverter", p.id, p.inverter, 1)
             S == PropertySamples(p)
  <1>1. \A m : m \in S <=> \/ m = hour \/ m = today
                           \/ p.hour.time # 0 /\ m = last
                           \/ p.inverter # "none" /\ m = inverter
    BY Zenon DEF PropertySamples
  <1>2. /\ hour.name = "latest_hour" /\ hour.value = p.hour.kWh
        /\ today.name = "today" /\ today.value = p.today
        /\ last.name = "last_sample" /\ last.value = Unix(p.hour.time)
        /\ inverter.name = "inverter" /\ inverter.label = p.inverter
    BY DEF Sample
  <1> HIDE DEF hour, today, last, inverter, S
  <1>3. \A name, v : v \in Values(name, S) <=> \E m \in S : m.name = name /\ m.value = v
    BY DEF Values
  <1>4. Values("last_sample", S) = {Unix(t) : t \in {p.hour.time} \ {0}}
    <2>1. \A v : v \in Values("last_sample", S) <=> p.hour.time # 0 /\ v = Unix(p.hour.time)
      BY <1>1, <1>2, <1>3
    <2>2. \A v : v \in {Unix(t) : t \in {p.hour.time} \ {0}}
                   <=> p.hour.time # 0 /\ v = Unix(p.hour.time)
      OBVIOUS
    <2> QED
      BY <2>1, <2>2
  <1>5. Values("latest_hour", S) = {p.hour.kWh}
    BY <1>1, <1>2, <1>3
  <1>6. Values("today", S) = {p.today}
    BY <1>1, <1>2, <1>3
  <1>7. Labels("inverter", S) = {p.inverter} \ {"none"}
    <2>1. \A v : v \in Labels("inverter", S) <=> \E m \in S : m.name = "inverter" /\ m.label = v
      BY DEF Labels
    <2> QED
      BY <1>1, <1>2, <2>1
  <1> QED
    BY <1>4, <1>5, <1>6, <1>7 DEF S

\* What the samples of the daemon say.
LEMMA AccountValues ==
    ASSUME NEW s
    PROVE  /\ Values("up", AccountSamples(s)) = {IF s.ok THEN 1 ELSE 0}
           /\ Values("session_expires_at", AccountSamples(s)) =
                 {IF s.expiry = 0 THEN 0 ELSE Unix(s.expiry)}
  <1> DEFINE gauge == IF s.ok THEN 1 ELSE 0
             up == Sample("up", "", "", gauge)
             until == IF s.expiry = 0 THEN 0 ELSE Unix(s.expiry)
             expires == Sample("session_expires_at", "", "", until)
             S == AccountSamples(s)
  <1>1. \A m : m \in S <=> m = up \/ m = expires
    BY Zenon DEF AccountSamples
  <1>2. /\ up.name = "up" /\ up.value = gauge
        /\ expires.name = "session_expires_at" /\ expires.value = until
    BY DEF Sample
  <1> HIDE DEF gauge, until, up, expires, S
  <1>3. \A name, v : v \in Values(name, S) <=> \E m \in S : m.name = name /\ m.value = v
    BY DEF Values
  <1>4. Values("up", S) = {gauge} /\ Values("session_expires_at", S) = {until}
    BY <1>1, <1>2, <1>3
  <1> QED
    BY <1>4 DEF S, gauge, until

-----------------------------------------------------------------------------
(* Least members, and folds over finite sets                                *)

\* Any set of naturals has a least member.
LEMMA LeastNatural ==
    ASSUME NEW T \in SUBSET Nat, T # {}
    PROVE  \E n \in T : \A m \in T : n <= m
  <1> DEFINE R == {ss \in Nat \X Nat : ss[1] < ss[2]}
  <1>1. IsWellFoundedOn(R, Nat)
    BY NatLessThanWellFounded DEF OpToRel
  <1>2. \A m, n \in Nat : m < n => <<m, n>> \in R
    OBVIOUS
  <1> HIDE DEF R
  <1>3. PICK n \in T : \A m \in T : <<m, n>> \notin R
    BY <1>1, WFMin
  <1>4. ASSUME NEW m \in T PROVE n <= m
    <2>1. m \in Nat /\ n \in Nat
      OBVIOUS
    <2>2. ~(m < n)
      BY <1>2, <1>3, <2>1, Zenon
    <2> QED
      BY <2>1, <2>2
  <1> QED
    BY <1>4

\* Induction up to a number.
LEMMA InductionUpTo ==
    ASSUME NEW n \in Nat, NEW S \in SUBSET (0 .. n), 0 \in S,
           \A k \in 1 .. n : k - 1 \in S => k \in S
    PROVE  S = 0 .. n
  <1> DEFINE T == (0 .. n) \ S
  <1> SUFFICES ASSUME T # {} PROVE FALSE
    OBVIOUS
  <1>1. PICK k \in T : \A m \in T : k <= m
    <2>1. T \in SUBSET Nat
      OBVIOUS
    <2> HIDE DEF T
    <2> QED
      BY <2>1, LeastNatural
  <1>2. k \in 1 .. n /\ k - 1 \in 0 .. n
    OBVIOUS
  <1>3. k - 1 \in S
    BY <1>1, <1>2
  <1> QED
    BY <1>2, <1>3

\* Among subsets of a finite set there is one that contains no other of them.
LEMMA LeastSubset ==
    ASSUME NEW D, IsFiniteSet(D), NEW T \in SUBSET (SUBSET D), T # {}
    PROVE  \E s \in T : \A t \in T : t \subseteq s => t = s
  <1>1. FiniteSubsetsOf(D) = SUBSET D
    BY FS_FiniteSubsetsOfFinite
  <1>2. IsWellFoundedOn(StrictSubsetOrdering(D), SUBSET D)
    BY <1>1, FS_StrictSubsetOrderingWellFounded
  <1>3. PICK s \in T : \A t \in T : <<t, s>> \notin StrictSubsetOrdering(D)
    BY <1>2, WFMin
  <1>4. \A t \in T : t \subseteq s /\ t # s => <<t, s>> \in StrictSubsetOrdering(D)
    BY DEF StrictSubsetOrdering
  <1>5. \A t \in T : t \subseteq s => t = s
    BY <1>3, <1>4
  <1> QED
    BY <1>5

\* c picks a member of every set but the empty one.
Picks(c, D) == \A s \in SUBSET D : s # {} => c[s] \in s

\* h folds the subsets of s: base for the empty one, and for another what step
\* makes of the member picked and of the rest.
Unfolds(h, s, c, step, base) ==
    \A t \in SUBSET s : h[t] = IF t = {} THEN base ELSE step[<<h[t \ {c[t]}], c[t]>>]

\* Two such folds agree where both are defined.
LEMMA FoldUnique ==
    ASSUME NEW D, IsFiniteSet(D), NEW c, Picks(c, D), NEW step, NEW base,
           NEW s1 \in SUBSET D, NEW s2 \in SUBSET D, NEW h1, NEW h2,
           Unfolds(h1, s1, c, step, base), Unfolds(h2, s2, c, step, base)
    PROVE  \A t \in SUBSET (s1 \cap s2) : h1[t] = h2[t]
  <1> DEFINE T == {t \in SUBSET (s1 \cap s2) : h1[t] # h2[t]}
  <1> SUFFICES ASSUME T # {} PROVE FALSE
    OBVIOUS
  <1>1. T \in SUBSET (SUBSET D)
    OBVIOUS
  <1>2. PICK t \in T : \A u \in T : u \subseteq t => u = t
    <2> HIDE DEF T
    <2> QED
      BY <1>1, LeastSubset
  <1>3. t \in SUBSET s1 /\ t \in SUBSET s2 /\ t \in SUBSET D /\ h1[t] # h2[t]
    OBVIOUS
  <1>4. t # {}
    BY <1>3, Zenon DEF Unfolds
  <1>5. c[t] \in t
    BY <1>3, <1>4 DEF Picks
  <1> DEFINE u == t \ {c[t]}
  <1>6. u \in SUBSET (s1 \cap s2) /\ u \subseteq t /\ u # t
    BY <1>3, <1>5
  <1>7. h1[u] = h2[u]
    BY <1>2, <1>6
  <1>8. h1[t] = step[<<h1[u], c[t]>>] /\ h2[t] = step[<<h2[u], c[t]>>]
    BY <1>3, <1>4 DEF Unfolds
  <1> QED
    BY <1>3, <1>7, <1>8

\* There is such a fold, of the type the step keeps.
LEMMA FoldExists ==
    ASSUME NEW D, IsFiniteSet(D), NEW c, Picks(c, D),
           NEW V, NEW base \in V, NEW step \in [V \X D -> V]
    PROVE  \E h \in [SUBSET D -> V] : Unfolds(h, D, c, step, base)
  <1> DEFINE Folds(s) == {h \in [SUBSET s -> V] : Unfolds(h, s, c, step, base)}
             T == {s \in SUBSET D : Folds(s) = {}}
  <1> SUFFICES ASSUME T # {} PROVE FALSE
    OBVIOUS
  <1>1. PICK s \in T : \A t \in T : t \subseteq s => t = s
    <2>1. T \in SUBSET (SUBSET D)
      OBVIOUS
    <2> HIDE DEF T
    <2> QED
      BY <2>1, LeastSubset
  <1>2. s \in SUBSET D /\ Folds(s) = {}
    OBVIOUS
  <1> DEFINE F(t) == CHOOSE h : h \in Folds(t)
  <1>3. ASSUME NEW t \in SUBSET s, t # s
        PROVE  F(t) \in [SUBSET t -> V] /\ Unfolds(F(t), t, c, step, base)
    <2>1. Folds(t) # {}
      BY <1>1, <1>2, <1>3
    <2>2. F(t) \in Folds(t)
      BY <2>1
    <2> QED
      BY <2>2
  <1> DEFINE h == [t \in SUBSET s |->
                     IF t = {} THEN base
                     ELSE step[<<F(t \ {c[t]})[t \ {c[t]}], c[t]>>]]
  <1>4. ASSUME NEW t \in SUBSET s, t # {}
        PROVE  LET u == t \ {c[t]}
               IN  /\ u \in SUBSET t /\ u # s /\ u \in SUBSET s /\ c[t] \in D /\ c[t] \in t
                   /\ F(u) \in [SUBSET u -> V] /\ F(u)[u] \in V
                   /\ h[t] = step[<<F(u)[u], c[t]>>] /\ h[t] \in V
    <2> DEFINE u == t \ {c[t]}
    <2>1. c[t] \in t /\ c[t] \in D
      BY <1>2, <1>4 DEF Picks
    <2>2. u \in SUBSET t /\ u # s /\ u \in SUBSET s
      BY <1>4, <2>1
    <2>3. F(u) \in [SUBSET u -> V]
      BY <1>3, <2>2
    <2>4. u \in SUBSET u
      OBVIOUS
    <2> HIDE DEF F
    <2>5. F(u)[u] \in V
      BY <2>3, <2>4
    <2>6. h[t] = step[<<F(u)[u], c[t]>>]
      BY <1>4
    <2>7. h[t] \in V
      BY <2>1, <2>5, <2>6
    <2> QED
      BY <2>1, <2>2, <2>3, <2>5, <2>6, <2>7
  <1>5. ASSUME NEW t \in SUBSET s, t # s PROVE h[t] = F(t)[t]
    <2>0. Unfolds(F(t), t, c, step, base) /\ t \in SUBSET t
      BY <1>3, <1>5
    <2>1. CASE t = {}
      <3> HIDE DEF F
      <3>1. F(t)[t] = base
        BY <2>0, <2>1 DEF Unfolds
      <3> QED
        BY <2>1, <3>1
    <2>2. CASE t # {}
      <3> DEFINE u == t \ {c[t]}
      <3>1. u \in SUBSET t /\ u # s /\ u \in SUBSET s /\ h[t] = step[<<F(u)[u], c[t]>>]
        BY <1>4, <2>2
      <3>2. Unfolds(F(u), u, c, step, base)
        BY <1>3, <3>1
      <3> HIDE DEF F, h, u
      <3>3. t \in SUBSET D /\ u \in SUBSET D /\ u \in SUBSET (u \cap t)
        BY <1>2, <3>1
      <3>4. F(u)[u] = F(t)[u]
        BY <2>0, <3>2, <3>3, FoldUnique
      <3>5. F(t)[t] = step[<<F(t)[u], c[t]>>]
        BY <2>0, <2>2 DEF Unfolds, u
      <3> QED
        BY <3>1, <3>4, <3>5
    <2> QED
      BY <2>1, <2>2
  <1>6. h \in [SUBSET s -> V]
    <2>1. \A t \in SUBSET s : h[t] \in V
      BY <1>4
    <2> QED
      BY <2>1
  <1>7. Unfolds(h, s, c, step, base)
    <2> SUFFICES ASSUME NEW t \in SUBSET s
                 PROVE  h[t] = IF t = {} THEN base ELSE step[<<h[t \ {c[t]}], c[t]>>]
      BY Zenon DEF Unfolds
    <2>1. CASE t = {}
      BY <2>1
    <2>2. CASE t # {}
      <3> DEFINE u == t \ {c[t]}
      <3>1. u # s /\ u \in SUBSET s /\ h[t] = step[<<F(u)[u], c[t]>>]
        BY <1>4, <2>2
      <3>2. h[u] = F(u)[u]
        BY <1>5, <3>1
      <3> HIDE DEF h, F
      <3> QED
        BY <2>2, <3>1, <3>2
    <2> QED
      BY <2>1, <2>2
  <1>8. h \in Folds(s)
    <2> HIDE DEF h
    <2> QED
      BY <1>6, <1>7
  <1> QED
    BY <1>2, <1>8

\* The greatest of a stretch of naturals that begins with 1, and what is left of it.
LEMMA MaxOfStretch ==
    ASSUME NEW k \in Nat, k # 0
    PROVE  1 .. k # {} /\ Max(1 .. k) = k /\ (1 .. k) \ {k} = 1 .. k - 1
  <1>1. k \in 1 .. k /\ \A j \in 1 .. k : k >= j
    OBVIOUS
  <1>2. \A i \in 1 .. k : (\A j \in 1 .. k : i >= j) => i = k
    BY <1>1
  <1>3. Max(1 .. k) = k
    BY <1>1, <1>2, Zenon DEF Max
  <1> QED
    BY <1>1, <1>3

\* The greatest member is one of the set.
LEMMA MaxIsMember ==
    ASSUME NEW n \in Nat, NEW s \in SUBSET (1 .. n), s # {}
    PROVE  Max(s) \in s
  <1> DEFINE T == {n - i : i \in s}
  <1>1. T \in SUBSET Nat /\ T # {}
    <2>1. \A i \in s : n - i \in Nat
      OBVIOUS
    <2> QED
      BY <2>1, Zenon
  <1>2. PICK m \in T : \A t \in T : m <= t
    <2> HIDE DEF T
    <2> QED
      BY <1>1, LeastNatural
  <1>3. PICK i \in s : m = n - i
    OBVIOUS
  <1>4. \A j \in s : i >= j
    <2> SUFFICES ASSUME NEW j \in s PROVE i >= j
      OBVIOUS
    <2>1. n - j \in T
      OBVIOUS
    <2>2. n - i <= n - j
      BY <1>2, <1>3, <2>1
    <2> QED
      BY <2>2
  <1>5. \E x \in s : \A y \in s : x >= y
    BY <1>4
  <1> QED
    BY <1>5, Zenon DEF Max

\* f folds the places 1 .. n from left to right: the greatest comes last.
FoldsLeft(f, n, step, base) ==
    \A s \in SUBSET (1 .. n) :
        f[s] = IF s = {} THEN base ELSE step[<<f[s \ {Max(s)}], Max(s)>>]

\* There is one, of the type the step keeps.
LEMMA FoldLeftExists ==
    ASSUME NEW V, NEW base \in V, NEW n \in Nat, NEW step \in [V \X (1 .. n) -> V]
    PROVE  \E h \in [SUBSET (1 .. n) -> V] : FoldsLeft(h, n, step, base)
  <1> DEFINE D == 1 .. n
             c == [s \in SUBSET D |-> Max(s)]
  <1>1. Picks(c, D)
    BY MaxIsMember DEF Picks
  <1>2. IsFiniteSet(D)
    BY FS_Interval
  <1>3. PICK h \in [SUBSET D -> V] : Unfolds(h, D, c, step, base)
    <2> HIDE DEF c, D
    <2>1. D = 1 .. n
      BY DEF D
    <2> QED
      BY <1>1, <1>2, <2>1, FoldExists
  <1>4. FoldsLeft(h, n, step, base)
    BY <1>3 DEF Unfolds, FoldsLeft
  <1> QED
    BY <1>4

\* The same, required only where what came before is of type V.
FoldsLeftOver(V, f, n, step, base) ==
    /\ f[{}] = base
    /\ \A s \in SUBSET (1 .. n) :
          s # {} /\ f[s \ {Max(s)}] \in V => f[s] = step[<<f[s \ {Max(s)}], Max(s)>>]

\* Place by place: what f has made of the first k.
Scans(V, f, n, step, base) ==
    /\ f[1 .. 0] = base
    /\ \A k \in 0 .. n : f[1 .. k] \in V
    /\ \A k \in 1 .. n : f[1 .. k] = step[<<f[1 .. k - 1], k>>]

\* A fold adds the places to what it has made one after the other.
LEMMA FoldLeftScans ==
    ASSUME NEW V, NEW base \in V, NEW n \in Nat, NEW step \in [V \X (1 .. n) -> V],
           NEW f, FoldsLeftOver(V, f, n, step, base)
    PROVE  Scans(V, f, n, step, base)
  <1> DEFINE S == {k \in 0 .. n : f[1 .. k] \in V}
  <1>1. f[1 .. 0] = base
    <2>1. 1 .. 0 = {}
      OBVIOUS
    <2> QED
      BY <2>1 DEF FoldsLeftOver
  <1>2. ASSUME NEW k \in 1 .. n, f[1 .. k - 1] \in V
        PROVE  f[1 .. k] = step[<<f[1 .. k - 1], k>>] /\ f[1 .. k] \in V
    <2>1. k \in Nat /\ k # 0 /\ 1 .. k \in SUBSET (1 .. n)
      OBVIOUS
    <2>2. 1 .. k # {} /\ Max(1 .. k) = k /\ (1 .. k) \ {k} = 1 .. k - 1
      BY <2>1, MaxOfStretch
    <2>3. f[1 .. k] = step[<<f[1 .. k - 1], k>>]
      BY <1>2, <2>1, <2>2, Zenon DEF FoldsLeftOver
    <2> QED
      BY <1>2, <2>3
  <1>3. S = 0 .. n
    <2>1. S \in SUBSET (0 .. n) /\ 0 \in S
      BY <1>1
    <2>2. ASSUME NEW k \in 1 .. n, k - 1 \in S PROVE k \in S
      <3>1. k \in 0 .. n /\ f[1 .. k - 1] \in V
        BY <2>2
      <3> QED
        BY <1>2, <3>1
    <2> HIDE DEF S
    <2> QED
      BY <2>1, <2>2, InductionUpTo
  <1>4. \A k \in 0 .. n : f[1 .. k] \in V
    BY <1>3, Zenon
  <1>5. ASSUME NEW k \in 1 .. n PROVE f[1 .. k] = step[<<f[1 .. k - 1], k>>]
    <2>1. k - 1 \in 0 .. n
      OBVIOUS
    <2> QED
      BY <1>2, <1>4, <2>1
  <1> QED
    BY <1>1, <1>4, <1>5, Zenon DEF Scans

\* f adds the values up, and c says which is added last.
Sums(f, D, c, v) ==
    \A s \in SUBSET D : s # {} => f[s] = v[c[s]] + f[s \ {c[s]}]

\* Any of them may be.
SumsAny(f, D, v) == \A s \in SUBSET D : \A x \in s : f[s] = v[x] + f[s \ {x}]

\* A sum over a finite set may take any element last.
LEMMA SumTakesAny ==
    ASSUME NEW D, IsFiniteSet(D), NEW c, Picks(c, D), NEW v, \A x \in D : v[x] \in Int,
           NEW f \in [SUBSET D -> Int], Sums(f, D, c, v)
    PROVE  SumsAny(f, D, v)
  <1> DEFINE T == {s \in SUBSET D : \E x \in s : f[s] # v[x] + f[s \ {x}]}
  <1> SUFFICES ASSUME T # {} PROVE FALSE
    BY Zenon DEF SumsAny
  <1>1. PICK s \in T : \A t \in T : t \subseteq s => t = s
    <2>1. T \in SUBSET (SUBSET D)
      OBVIOUS
    <2> HIDE DEF T
    <2> QED
      BY <2>1, LeastSubset
  <1>2. PICK x \in s : f[s] # v[x] + f[s \ {x}]
    OBVIOUS
  <1> DEFINE y == c[s]
             sx == s \ {x}
             sy == s \ {y}
             sxy == s \ {x, y}
  <1>3. s \in SUBSET D /\ y \in s /\ f[s] = v[y] + f[sy] /\ x # y
    <2>1. s \in SUBSET D /\ s # {}
      OBVIOUS
    <2>2. y \in s /\ f[s] = v[y] + f[sy]
      BY <2>1 DEF Picks, Sums
    <2> QED
      BY <1>2, <2>1, <2>2
  <1>4. /\ sx \in SUBSET D /\ sy \in SUBSET D /\ sxy \in SUBSET D
        /\ sx \subseteq s /\ sy \subseteq s /\ sx # s /\ sy # s
        /\ y \in sx /\ x \in sy /\ sx \ {y} = sxy /\ sy \ {x} = sxy
    BY <1>3
  <1>5. f[sx] = v[y] + f[sxy]
    <2>1. sx \notin T
      BY <1>1, <1>4
    <2> QED
      BY <1>4, <2>1
  <1>6. f[sy] = v[x] + f[sxy]
    <2>1. sy \notin T
      BY <1>1, <1>4
    <2> QED
      BY <1>4, <2>1
  <1>7. v[x] \in Int /\ v[y] \in Int /\ f[sxy] \in Int
    BY <1>3, <1>4
  <1> HIDE DEF y, sx, sy, sxy
  <1>8. f[s] # v[x] + f[sx]
    BY <1>2 DEF sx
  <1> QED
    BY <1>3, <1>5, <1>6, <1>7, <1>8

-----------------------------------------------------------------------------
(* The folds over the buckets                                               *)

\* What FoldLeft stands for in LatestHour.
LatestOver(buckets) ==
    CHOOSE iter : iter =
        [s \in SUBSET DOMAIN buckets |->
            IF s = {} THEN NoHour
            ELSE IF buckets[Max(s)].time > iter[s \ {Max(s)}].time
                   THEN buckets[Max(s)] ELSE iter[s \ {Max(s)}]]

\* What FoldLeft stands for in TodayKWh.
TotalOver(buckets) ==
    CHOOSE iter : iter =
        [s \in SUBSET DOMAIN buckets |->
            IF s = {} THEN 0 ELSE iter[s \ {Max(s)}] + buckets[Max(s)].kWh]

\* The loop over the buckets: what it keeps as the latest hour after each.
LEMMA LatestHourScans ==
    ASSUME NEW buckets \in Seq(Bucket)
    PROVE  \E g \in [0 .. Len(buckets) -> Bucket] :
             /\ g[0] = NoHour
             /\ \A k \in 1 .. Len(buckets) :
                  g[k] = IF buckets[k].time > g[k - 1].time THEN buckets[k] ELSE g[k - 1]
             /\ LatestHour(buckets) = g[Len(buckets)]
  <1> DEFINE n == Len(buckets)
             step == [x \in Bucket \X (1 .. n) |->
                        IF buckets[x[2]].time > x[1].time THEN buckets[x[2]] ELSE x[1]]
             Later(f, s) == IF buckets[Max(s)].time > f[s \ {Max(s)}].time
                              THEN buckets[Max(s)] ELSE f[s \ {Max(s)}]
  <1>1. NoHour \in Bucket /\ n \in Nat /\ DOMAIN buckets = 1 .. n
    BY DEF NoHour, Bucket
  <1>2. step \in [Bucket \X (1 .. n) -> Bucket]
    OBVIOUS
  <1>3. \A b \in Bucket, i \in 1 .. n :
          step[<<b, i>>] = IF buckets[i].time > b.time THEN buckets[i] ELSE b
    OBVIOUS
  <1> HIDE DEF n, step
  <1>4. PICK h \in [SUBSET (1 .. n) -> Bucket] : FoldsLeft(h, n, step, NoHour)
    BY <1>1, <1>2, FoldLeftExists
  <1>5. ASSUME NEW s \in SUBSET (1 .. n), s # {}
        PROVE  Max(s) \in 1 .. n /\ s \ {Max(s)} \in SUBSET (1 .. n)
    BY <1>1, <1>5, MaxIsMember
  <1>6. ASSUME NEW s \in SUBSET (1 .. n)
        PROVE  h[s] = IF s = {} THEN NoHour ELSE Later(h, s)
    <2>1. CASE s = {}
      BY <1>4, <2>1 DEF FoldsLeft
    <2>2. CASE s # {}
      <3>1. h[s] = step[<<h[s \ {Max(s)}], Max(s)>>]
        BY <1>4, <2>2, Zenon DEF FoldsLeft
      <3>2. Max(s) \in 1 .. n /\ h[s \ {Max(s)}] \in Bucket
        BY <1>5, <2>2
      <3> QED
        BY <1>3, <2>2, <3>1, <3>2
    <2> QED
      BY <2>1, <2>2
  <1>7. h = [s \in SUBSET DOMAIN buckets |-> IF s = {} THEN NoHour ELSE Later(h, s)]
    <2> HIDE DEF Later
    <2> QED
      BY <1>1, <1>6
  <1> DEFINE f == LatestOver(buckets)
  <1>8. f = [s \in SUBSET DOMAIN buckets |-> IF s = {} THEN NoHour ELSE Later(f, s)]
    BY <1>7, Zenon DEF LatestOver
  <1>9. LatestHour(buckets) = f[1 .. n]
    BY <1>1, Zenon DEF LatestHour, FoldLeft, MapThenFoldSet, Max, LatestOver
  <1> HIDE DEF f
  <1>10. f[{}] = NoHour
    BY <1>8
  <1>11. ASSUME NEW s \in SUBSET (1 .. n), s # {}, f[s \ {Max(s)}] \in Bucket
         PROVE  f[s] = step[<<f[s \ {Max(s)}], Max(s)>>]
    <2>1. f[s] = Later(f, s)
      <3> HIDE DEF Later
      <3> QED
        BY <1>1, <1>8, <1>11
    <2> QED
      BY <1>3, <1>5, <1>11, <2>1
  <1>12. /\ f[1 .. 0] = NoHour
         /\ \A k \in 0 .. n : f[1 .. k] \in Bucket
         /\ \A k \in 1 .. n : f[1 .. k] = step[<<f[1 .. k - 1], k>>]
    <2>1. FoldsLeftOver(Bucket, f, n, step, NoHour)
      BY <1>10, <1>11, Zenon DEF FoldsLeftOver
    <2>2. Scans(Bucket, f, n, step, NoHour)
      BY <1>1, <1>2, <2>1, FoldLeftScans
    <2> QED
      BY <2>2, Zenon DEF Scans
  <1> DEFINE g == [k \in 0 .. n |-> f[1 .. k]]
  <1>13. g \in [0 .. n -> Bucket] /\ g[0] = NoHour /\ LatestHour(buckets) = g[n]
    BY <1>1, <1>9, <1>12
  <1>14. ASSUME NEW k \in 1 .. n
         PROVE  g[k] = IF buckets[k].time > g[k - 1].time THEN buckets[k] ELSE g[k - 1]
    <2>1. k \in 0 .. n /\ k - 1 \in 0 .. n
      BY <1>1
    <2>2. g[k] = f[1 .. k] /\ g[k - 1] = f[1 .. k - 1] /\ g[k - 1] \in Bucket
      BY <1>12, <2>1
    <2> HIDE DEF g
    <2> QED
      BY <1>3, <1>12, <2>2
  <1> HIDE DEF g
  <1> QED
    BY <1>13, <1>14 DEF n

\* The loop over the buckets: what it has added up after each.
LEMMA TodayKWhScans ==
    ASSUME NEW buckets \in Seq(Bucket)
    PROVE  \E g \in [0 .. Len(buckets) -> Int] :
             /\ g[0] = 0
             /\ \A k \in 1 .. Len(buckets) : g[k] = g[k - 1] + buckets[k].kWh
             /\ TodayKWh(buckets) = g[Len(buckets)]
  <1> DEFINE n == Len(buckets)
             step == [x \in Int \X (1 .. n) |-> x[1] + buckets[x[2]].kWh]
             More(f, s) == f[s \ {Max(s)}] + buckets[Max(s)].kWh
  <1>1. n \in Nat /\ DOMAIN buckets = 1 .. n
    OBVIOUS
  <1>2. \A i \in 1 .. n : buckets[i].kWh \in Int
    <2>1. \A i \in 1 .. n : buckets[i] \in Bucket
      OBVIOUS
    <2> QED
      BY <2>1 DEF Bucket
  <1>3. step \in [Int \X (1 .. n) -> Int]
    BY <1>2
  <1>4. \A t \in Int, i \in 1 .. n : step[<<t, i>>] = t + buckets[i].kWh
    OBVIOUS
  <1> HIDE DEF n, step
  <1>5. PICK h \in [SUBSET (1 .. n) -> Int] : FoldsLeft(h, n, step, 0)
    <2>1. 0 \in Int
      OBVIOUS
    <2> QED
      BY <1>1, <1>3, <2>1, FoldLeftExists, Zenon
  <1>6. ASSUME NEW s \in SUBSET (1 .. n), s # {}
        PROVE  Max(s) \in 1 .. n /\ s \ {Max(s)} \in SUBSET (1 .. n)
    BY <1>1, <1>6, MaxIsMember
  <1>7. ASSUME NEW s \in SUBSET (1 .. n)
        PROVE  h[s] = IF s = {} THEN 0 ELSE More(h, s)
    <2>1. CASE s = {}
      BY <1>5, <2>1 DEF FoldsLeft
    <2>2. CASE s # {}
      <3>1. h[s] = step[<<h[s \ {Max(s)}], Max(s)>>]
        BY <1>5, <2>2, Zenon DEF FoldsLeft
      <3>2. Max(s) \in 1 .. n /\ h[s \ {Max(s)}] \in Int
        BY <1>6, <2>2
      <3> QED
        BY <1>4, <2>2, <3>1, <3>2
    <2> QED
      BY <2>1, <2>2
  <1>8. h = [s \in SUBSET DOMAIN buckets |-> IF s = {} THEN 0 ELSE More(h, s)]
    <2> HIDE DEF More
    <2> QED
      BY <1>1, <1>7
  <1> DEFINE f == TotalOver(buckets)
  <1>9. f = [s \in SUBSET DOMAIN buckets |-> IF s = {} THEN 0 ELSE More(f, s)]
    BY <1>8, Zenon DEF TotalOver
  <1>10. TodayKWh(buckets) = f[1 .. n]
    BY <1>1, Zenon DEF TodayKWh, FoldLeft, MapThenFoldSet, Max, TotalOver
  <1> HIDE DEF f
  <1>11. f[{}] = 0
    BY <1>9
  <1>12. ASSUME NEW s \in SUBSET (1 .. n), s # {}, f[s \ {Max(s)}] \in Int
         PROVE  f[s] = step[<<f[s \ {Max(s)}], Max(s)>>]
    <2>1. f[s] = More(f, s)
      <3> HIDE DEF More
      <3> QED
        BY <1>1, <1>9, <1>12
    <2> QED
      BY <1>4, <1>6, <1>12, <2>1
  <1>13. /\ f[1 .. 0] = 0
         /\ \A k \in 0 .. n : f[1 .. k] \in Int
         /\ \A k \in 1 .. n : f[1 .. k] = step[<<f[1 .. k - 1], k>>]
    <2>1. FoldsLeftOver(Int, f, n, step, 0)
      BY <1>11, <1>12, Zenon DEF FoldsLeftOver
    <2>2. 0 \in Int
      OBVIOUS
    <2>3. Scans(Int, f, n, step, 0)
      BY <1>1, <1>3, <2>1, <2>2, FoldLeftScans, Zenon
    <2> QED
      BY <2>3, Zenon DEF Scans
  <1> DEFINE g == [k \in 0 .. n |-> f[1 .. k]]
  <1>14. g \in [0 .. n -> Int] /\ g[0] = 0 /\ TodayKWh(buckets) = g[n]
    BY <1>1, <1>10, <1>13
  <1>15. ASSUME NEW k \in 1 .. n PROVE g[k] = g[k - 1] + buckets[k].kWh
    <2>1. k \in 0 .. n /\ k - 1 \in 0 .. n
      BY <1>1
    <2>2. g[k] = f[1 .. k] /\ g[k - 1] = f[1 .. k - 1] /\ g[k - 1] \in Int
      BY <1>13, <2>1
    <2> HIDE DEF g
    <2> QED
      BY <1>4, <1>13, <2>2
  <1> HIDE DEF g
  <1> QED
    BY <1>14, <1>15 DEF n

\* After k buckets the loop holds the first of the newest that could be read.
FirstNewest(buckets, k, latest) ==
    \/ latest = NoHour /\ \A j \in 1 .. k : buckets[j].time = 0
    \/ \E i \in 1 .. k :
          /\ latest = buckets[i] /\ buckets[i].time # 0
          /\ \A j \in 1 .. k :
                /\ buckets[j].time <= buckets[i].time
                /\ buckets[j].time = buckets[i].time => i <= j

\* So it does after the last one.
LEMMA LatestHourIsFirstNewest ==
    ASSUME NEW buckets \in Seq(Bucket)
    PROVE  FirstNewest(buckets, Len(buckets), LatestHour(buckets))
  <1> DEFINE n == Len(buckets)
  <1>1. PICK g \in [0 .. n -> Bucket] :
          /\ g[0] = NoHour
          /\ \A k \in 1 .. n :
               g[k] = IF buckets[k].time > g[k - 1].time THEN buckets[k] ELSE g[k - 1]
          /\ LatestHour(buckets) = g[n]
    BY LatestHourScans
  <1>2. n \in Nat /\ \A i \in 1 .. n : buckets[i] \in Bucket /\ buckets[i].time \in Nat
    <2>1. n \in Nat /\ \A i \in 1 .. n : buckets[i] \in Bucket
      OBVIOUS
    <2>2. \A b \in Bucket : b.time \in Nat
      BY DEF Bucket
    <2> QED
      BY <2>1, <2>2, Zenon
  <1> HIDE DEF n
  <1> DEFINE S == {k \in 0 .. n : FirstNewest(buckets, k, g[k])}
  <1>3. 0 \in S
    BY <1>1, <1>2 DEF FirstNewest
  <1>4. ASSUME NEW k \in 1 .. n, k - 1 \in S PROVE k \in S
    <2> DEFINE b == buckets[k]
               old == g[k - 1]
    <2>1. FirstNewest(buckets, k - 1, old)
      BY <1>4
    <2>2. g[k] = IF b.time > old.time THEN b ELSE old
      BY <1>1
    <2>3. /\ k \in Nat /\ k # 0 /\ k \in 0 .. n /\ b.time \in Nat
          /\ \A j \in 1 .. k : j \in 1 .. n /\ (j = k \/ j \in 1 .. k - 1)
      BY <1>2
    <2>4. CASE old = NoHour /\ \A j \in 1 .. k - 1 : buckets[j].time = 0
      <3>1. old.time = 0
        BY <2>4 DEF NoHour
      <3>2. CASE b.time = 0
        <4>1. g[k] = NoHour /\ \A j \in 1 .. k : buckets[j].time = 0
          BY <2>2, <2>3, <2>4, <3>1, <3>2
        <4> QED
          BY <2>3, <4>1 DEF FirstNewest
      <3>3. CASE b.time # 0
        <4>1. g[k] = b
          BY <2>2, <2>3, <3>1, <3>3
        <4>2. \A j \in 1 .. k : b.time >= buckets[j].time /\ (buckets[j].time = b.time => k <= j)
          BY <2>3, <2>4, <3>3
        <4>3. k \in 1 .. k
          BY <2>3
        <4>4. FirstNewest(buckets, k, g[k])
          BY <2>3, <3>3, <4>1, <4>2, <4>3 DEF FirstNewest
        <4> QED
          BY <2>3, <4>4
      <3> QED
        BY <3>2, <3>3
    <2>5. ASSUME NEW i \in 1 .. k - 1,
                 old = buckets[i], buckets[i].time # 0,
                 \A j \in 1 .. k - 1 :
                    /\ buckets[j].time <= buckets[i].time
                    /\ buckets[j].time = buckets[i].time => i <= j
          PROVE  k \in S
      <3>1. i \in 1 .. k /\ i \in Nat /\ i < k /\ buckets[i].time \in Nat
        BY <1>2, <2>3
      <3>2. CASE b.time > buckets[i].time
        <4>1. g[k] = b /\ b.time # 0
          BY <2>2, <2>3, <2>5, <3>1, <3>2
        <4>2. \A j \in 1 .. k : b.time >= buckets[j].time /\ (buckets[j].time = b.time => k <= j)
          BY <1>2, <2>3, <2>5, <3>1, <3>2
        <4>3. k \in 1 .. k
          BY <2>3
        <4>4. FirstNewest(buckets, k, g[k])
          BY <2>3, <4>1, <4>2, <4>3 DEF FirstNewest
        <4> QED
          BY <2>3, <4>4
      <3>3. CASE ~(b.time > buckets[i].time)
        <4>1. g[k] = buckets[i]
          BY <2>2, <2>5, <3>3
        <4>2. \A j \in 1 .. k :
                 /\ buckets[j].time <= buckets[i].time
                 /\ buckets[j].time = buckets[i].time => i <= j
          BY <1>2, <2>3, <2>5, <3>1, <3>3
        <4>3. FirstNewest(buckets, k, g[k])
          BY <2>5, <3>1, <4>1, <4>2 DEF FirstNewest
        <4> QED
          BY <2>3, <4>3
      <3> QED
        BY <3>2, <3>3
    <2> HIDE DEF S, old, b
    <2> QED
      BY <2>1, <2>4, <2>5 DEF FirstNewest
  <1>5. S = 0 .. n
    <2>1. S \in SUBSET (0 .. n)
      OBVIOUS
    <2> HIDE DEF S
    <2> QED
      BY <1>2, <1>3, <1>4, <2>1, InductionUpTo
  <1>6. n \in S
    BY <1>2, <1>5
  <1> QED
    BY <1>1, <1>6 DEF n

\* The sum of a sequence of numbers, in the order CHOOSE takes them.
SomeOf(s) == CHOOSE x \in s : TRUE
SumOver(v) ==
    CHOOSE iter : iter =
        [s \in SUBSET DOMAIN v |->
            IF s = {} THEN 0 ELSE v[SomeOf(s)] + iter[s \ {SomeOf(s)}]]

\* It takes them in any order, so also from left to right.
LEMMA SumUnfolds ==
    ASSUME NEW n \in Nat, NEW v \in [1 .. n -> Int]
    PROVE  \E f \in [SUBSET (1 .. n) -> Int] :
             /\ f[1 .. 0] = 0
             /\ \A k \in 1 .. n : f[1 .. k] = f[1 .. k - 1] + v[k]
             /\ FoldFunction(+, 0, v) = f[1 .. n]
  <1> DEFINE D == 1 .. n
             c == [s \in SUBSET D |-> SomeOf(s)]
             step == [x \in Int \X D |-> v[x[2]] + x[1]]
  <1>1. Picks(c, D)
    BY Zenon DEF Picks, SomeOf
  <1>2. IsFiniteSet(D)
    BY FS_Interval
  <1>3. step \in [Int \X D -> Int] /\ 0 \in Int
    OBVIOUS
  <1>4. \A t \in Int, i \in D : step[<<t, i>>] = v[i] + t
    OBVIOUS
  <1>5. \A s \in SUBSET D : c[s] = SomeOf(s)
    OBVIOUS
  <1>6. DOMAIN v = D /\ \A i \in D : v[i] \in Int
    OBVIOUS
  <1> HIDE DEF c, step
  <1>7. PICK f \in [SUBSET D -> Int] : Unfolds(f, D, c, step, 0)
    <2> HIDE DEF D
    <2> QED
      BY <1>1, <1>2, <1>3, FoldExists, Zenon
  <1>8. ASSUME NEW s \in SUBSET D, s # {}
        PROVE  /\ SomeOf(s) \in D /\ s \ {SomeOf(s)} \in SUBSET D
               /\ f[s] = v[SomeOf(s)] + f[s \ {SomeOf(s)}]
               /\ f[s] = v[c[s]] + f[s \ {c[s]}]
    <2>1. c[s] \in s /\ c[s] \in D /\ c[s] = SomeOf(s)
      BY <1>1, <1>5, <1>8 DEF Picks
    <2>2. f[s] = step[<<f[s \ {c[s]}], c[s]>>]
      BY <1>7, <1>8, Zenon DEF Unfolds
    <2>3. s \ {c[s]} \in SUBSET D /\ f[s \ {c[s]}] \in Int
      OBVIOUS
    <2> HIDE DEF D
    <2>4. f[s] = v[c[s]] + f[s \ {c[s]}]
      BY <1>4, <2>1, <2>2, <2>3, Zenon
    <2> QED
      BY <2>1, <2>3, <2>4, Zenon
  <1>9. f[{}] = 0
    BY <1>7, Zenon DEF Unfolds
  <1> DEFINE Plus(h, s) == v[SomeOf(s)] + h[s \ {SomeOf(s)}]
  <1>10. f = [s \in SUBSET DOMAIN v |-> IF s = {} THEN 0 ELSE Plus(f, s)]
    <2>1. \A s \in SUBSET D : f[s] = IF s = {} THEN 0 ELSE Plus(f, s)
      BY <1>8, <1>9, Zenon
    <2> HIDE DEF Plus, D
    <2> QED
      BY <1>6, <2>1
  <1> DEFINE r == SumOver(v)
  <1>11. r = [s \in SUBSET DOMAIN v |-> IF s = {} THEN 0 ELSE Plus(r, s)]
    BY <1>10, Zenon DEF SumOver
  <1>12. FoldFunction(+, 0, v) = r[DOMAIN v]
    BY Zenon DEF FoldFunction, FoldFunctionOnSet, MapThenFoldSet, SumOver, SomeOf
  <1>13. \A s \in SUBSET D : r[s] = f[s]
    <2> DEFINE T == {s \in SUBSET D : r[s] # f[s]}
    <2> SUFFICES ASSUME T # {} PROVE FALSE
      OBVIOUS
    <2>1. PICK s \in T : \A t \in T : t \subseteq s => t = s
      <3>1. T \in SUBSET (SUBSET D)
        OBVIOUS
      <3> HIDE DEF T, D
      <3> QED
        BY <1>2, <3>1, LeastSubset
    <2>2. s \in SUBSET D /\ r[s] # f[s]
      OBVIOUS
    <2> HIDE DEF r, Plus
    <2>3. r[s] = IF s = {} THEN 0 ELSE Plus(r, s)
      BY <1>6, <1>11, <2>2, Zenon
    <2>4. s # {}
      BY <1>9, <2>2, <2>3, Zenon
    <2>5. SomeOf(s) \in s /\ s \ {SomeOf(s)} \in SUBSET D /\ s \ {SomeOf(s)} # s
      BY <1>1, <1>5, <2>2, <2>4 DEF Picks
    <2>6. r[s \ {SomeOf(s)}] = f[s \ {SomeOf(s)}]
      BY <2>1, <2>5
    <2>7. r[s] = v[SomeOf(s)] + r[s \ {SomeOf(s)}]
      BY <2>3, <2>4, Zenon DEF Plus
    <2>8. f[s] = v[SomeOf(s)] + f[s \ {SomeOf(s)}]
      BY <1>8, <2>2, <2>4
    <2> QED
      BY <2>2, <2>6, <2>7, <2>8, Zenon
  <1> HIDE DEF r, Plus
  <1>14. \A s \in SUBSET D : \A x \in s : f[s] = v[x] + f[s \ {x}]
    <2> HIDE DEF D
    <2>1. Sums(f, D, c, v)
      BY <1>8, Zenon DEF Sums
    <2>2. \A x \in D : v[x] \in Int
      BY <1>6, Zenon
    <2>3. f \in [SUBSET D -> Int]
      OBVIOUS
    <2>4. SumsAny(f, D, v)
      BY <1>1, <1>2, <2>1, <2>2, <2>3, SumTakesAny, Zenon
    <2> QED
      BY <2>4, Zenon DEF SumsAny
  <1>15. ASSUME NEW k \in 1 .. n PROVE f[1 .. k] = f[1 .. k - 1] + v[k]
    <2>1. /\ k \in Nat /\ k # 0 /\ k \in 1 .. k /\ v[k] \in Int
          /\ 1 .. k \in SUBSET D /\ 1 .. k - 1 \in SUBSET D
      OBVIOUS
    <2>2. (1 .. k) \ {k} = 1 .. k - 1
      BY <2>1, MaxOfStretch
    <2>3. f[1 .. k] = v[k] + f[1 .. k - 1]
      BY <1>14, <2>1, <2>2, Zenon
    <2>4. f[1 .. k - 1] \in Int
      BY <2>1
    <2> QED
      BY <2>1, <2>3, <2>4
  <1>16. f[1 .. 0] = 0
    <2>1. 1 .. 0 = {}
      OBVIOUS
    <2> QED
      BY <1>9, <2>1
  <1>17. FoldFunction(+, 0, v) = f[1 .. n]
    <2>1. 1 .. n \in SUBSET D
      OBVIOUS
    <2> QED
      BY <1>6, <1>12, <1>13, <2>1, Zenon
  <1> QED
    BY <1>15, <1>16, <1>17

\* The sum of the loop is the sum of the values, in whatever order.
LEMMA TodayKWhIsSum ==
    ASSUME NEW buckets \in Seq(Bucket)
    PROVE  TodayKWh(buckets) = FoldFunction(+, 0, [k \in DOMAIN buckets |-> buckets[k].kWh])
  <1> DEFINE n == Len(buckets)
             v == [k \in DOMAIN buckets |-> buckets[k].kWh]
  <1>1. n \in Nat /\ \A k \in 1 .. n : v[k] = buckets[k].kWh
    OBVIOUS
  <1>2. v \in [1 .. n -> Int]
    <2>1. \A k \in 1 .. n : buckets[k] \in Bucket
      OBVIOUS
    <2> QED
      BY <2>1 DEF Bucket
  <1>3. PICK g \in [0 .. n -> Int] :
          /\ g[0] = 0
          /\ \A k \in 1 .. n : g[k] = g[k - 1] + buckets[k].kWh
          /\ TodayKWh(buckets) = g[n]
    BY TodayKWhScans
  <1> HIDE DEF n, v
  <1>4. PICK f \in [SUBSET (1 .. n) -> Int] :
          /\ f[1 .. 0] = 0
          /\ \A k \in 1 .. n : f[1 .. k] = f[1 .. k - 1] + v[k]
          /\ FoldFunction(+, 0, v) = f[1 .. n]
    BY <1>1, <1>2, SumUnfolds
  <1> DEFINE S == {k \in 0 .. n : g[k] = f[1 .. k]}
  <1>5. 0 \in S
    <2>1. 0 \in 0 .. n
      BY <1>1
    <2>2. g[0] = f[1 .. 0]
      BY <1>3, <1>4, Zenon
    <2> QED
      BY <2>1, <2>2
  <1>6. ASSUME NEW k \in 1 .. n, k - 1 \in S PROVE k \in S
    <2>1. k \in 0 .. n /\ g[k - 1] = f[1 .. k - 1]
      BY <1>1, <1>6
    <2>2. g[k] = g[k - 1] + v[k] /\ f[1 .. k] = f[1 .. k - 1] + v[k]
      BY <1>1, <1>3, <1>4, Zenon
    <2> QED
      BY <2>1, <2>2
  <1>7. n \in S
    <2>1. S \in SUBSET (0 .. n)
      OBVIOUS
    <2> HIDE DEF S
    <2>2. S = 0 .. n
      BY <1>1, <1>5, <1>6, <2>1, InductionUpTo
    <2> QED
      BY <1>1, <2>2
  <1>8. g[n] = f[1 .. n]
    BY <1>7
  <1> QED
    BY <1>3, <1>4, <1>8, Zenon DEF v

-----------------------------------------------------------------------------
(* What the two surfaces tell of the buckets                                *)

\* The first of the newest buckets, in the words of the property.
LEMMA FirstNewestIsShown ==
    ASSUME NEW buckets \in Seq(Bucket), NEW hour,
           FirstNewest(buckets, Len(buckets), hour)
    PROVE  LET readable == {k \in DOMAIN buckets : buckets[k].time # 0}
               newest == {k \in readable :
                             \A l \in readable : buckets[l].time <= buckets[k].time}
           IN  IF readable = {}
                 THEN hour = NoHour
                 ELSE \E k \in newest : hour = buckets[k] /\ \A l \in newest : k <= l
  <1> DEFINE readable == {k \in DOMAIN buckets : buckets[k].time # 0}
             newest == {k \in readable :
                           \A l \in readable : buckets[l].time <= buckets[k].time}
  <1>1. DOMAIN buckets = 1 .. Len(buckets)
    OBVIOUS
  <1>2. CASE hour = NoHour /\ \A j \in 1 .. Len(buckets) : buckets[j].time = 0
    BY <1>1, <1>2
  <1>3. ASSUME NEW i \in 1 .. Len(buckets), hour = buckets[i], buckets[i].time # 0,
               \A j \in 1 .. Len(buckets) :
                  /\ buckets[j].time <= buckets[i].time
                  /\ buckets[j].time = buckets[i].time => i <= j
        PROVE  i \in newest /\ \A l \in newest : i <= l
    <2>1. i \in newest
      BY <1>1, <1>3
    <2>2. ASSUME NEW l \in newest PROVE i <= l
      <3>1. l \in DOMAIN buckets /\ buckets[i].time <= buckets[l].time
        BY <2>1
      <3>2. buckets[l].time <= buckets[i].time
        BY <1>1, <1>3, <3>1
      <3>3. buckets[i].time \in Nat /\ buckets[l].time \in Nat
        <4>1. buckets[i] \in Bucket /\ buckets[l] \in Bucket
          BY <1>1, <3>1
        <4> QED
          BY <4>1 DEF Bucket
      <3>4. buckets[l].time = buckets[i].time
        BY <3>1, <3>2, <3>3
      <3> QED
        BY <1>1, <1>3, <3>1, <3>4
    <2> QED
      BY <2>1, <2>2
  <1> QED
    BY <1>2, <1>3 DEF FirstNewest

\* Whatever the portal answers, in whatever order, the hour shown is the first of
\* the newest buckets that could be read, and the day's total is their sum.
THEOREM NewestBucketShownHolds == Spec => []NewestBucketShown
  <1>1. TypeOK => NewestBucketShown
    <2> SUFFICES ASSUME TypeOK, NEW i \in DOMAIN snap.properties
                 PROVE  LET p == snap.properties[i]
                            readable == {k \in DOMAIN p.of : p.of[k].time # 0}
                            newest == {k \in readable :
                                          \A l \in readable : p.of[l].time <= p.of[k].time}
                        IN  /\ p.today = FoldFunction(+, 0, [k \in DOMAIN p.of |-> p.of[k].kWh])
                            /\ IF readable = {}
                                 THEN p.hour = NoHour
                                 ELSE \E k \in newest :
                                         p.hour = p.of[k] /\ \A l \in newest : k <= l
      BY Zenon DEF NewestBucketShown
    <2> DEFINE p == snap.properties[i]
    <2>1. p \in Entry
      <3>1. snap.properties \in Seq(Entry)
        BY DEF TypeOK, Snapshot
      <3> QED
        BY <3>1
    <2>2. PICK row \in Row, buckets \in Answers, inverter \in InverterKind :
             p = Summary(row, buckets, inverter)
      <3> HIDE DEF p
      <3> QED
        BY <2>1 DEF Entry
    <2>3. p.of = buckets /\ p.today = TodayKWh(buckets) /\ p.hour = LatestHour(buckets)
      BY <2>2 DEF Summary
    <2>4. buckets \in Seq(Bucket)
      BY AnswersAssumption
    <2> HIDE DEF p
    <2>5. p.today = FoldFunction(+, 0, [k \in DOMAIN p.of |-> p.of[k].kWh])
      BY <2>3, <2>4, TodayKWhIsSum, Zenon
    <2>6. FirstNewest(p.of, Len(p.of), p.hour)
      BY <2>3, <2>4, LatestHourIsFirstNewest, Zenon
    <2>7. LET readable == {k \in DOMAIN p.of : p.of[k].time # 0}
              newest == {k \in readable : \A l \in readable : p.of[l].time <= p.of[k].time}
          IN  IF readable = {}
                THEN p.hour = NoHour
                ELSE \E k \in newest : p.hour = p.of[k] /\ \A l \in newest : k <= l
      <3>1. p.of \in Seq(Bucket)
        BY <2>3, <2>4, Zenon
      <3> QED
        BY <2>6, <3>1, FirstNewestIsShown, Zenon
    <2> QED
      BY <2>5, <2>7, Zenon DEF p
  <1> QED
    BY <1>1, TypeCorrect, PTL

-----------------------------------------------------------------------------
(* /metrics beside /api/state                                               *)

\* A summary without an hour has no energy for one, and its inverter is one of
\* the three kinds.
LEMMA EntryFacts ==
    ASSUME NEW p \in Entry
    PROVE  /\ p.hour.time \in Nat
           /\ p.hour.time = 0 => p.hour.kWh = 0
           /\ p.inverter \in InverterKind
  <1>1. PICK row \in Row, buckets \in Answers, inverter \in InverterKind :
           p = Summary(row, buckets, inverter)
    BY DEF Entry
  <1>2. p.hour = LatestHour(buckets) /\ p.inverter = inverter
    BY <1>1 DEF Summary
  <1>3. buckets \in Seq(Bucket)
    BY AnswersAssumption
  <1>4. FirstNewest(buckets, Len(buckets), p.hour)
    BY <1>2, <1>3, LatestHourIsFirstNewest, Zenon
  <1>5. CASE p.hour = NoHour
    BY <1>2, <1>5 DEF NoHour
  <1>6. CASE \E i \in 1 .. Len(buckets) : p.hour = buckets[i] /\ buckets[i].time # 0
    <2>1. PICK i \in 1 .. Len(buckets) : p.hour = buckets[i] /\ buckets[i].time # 0
      BY <1>6
    <2>2. buckets[i] \in Bucket
      BY <1>3
    <2>3. buckets[i].time \in Nat
      BY <2>2 DEF Bucket
    <2> QED
      BY <1>2, <2>1, <2>3
  <1> QED
    BY <1>4, <1>5, <1>6, Zenon DEF FirstNewest

\* No instant has the Unix time of the zero time.Time.
LEMMA UnixOfInstant ==
    ASSUME NEW t \in Nat, t # 0
    PROVE  Unix(t) = t /\ Unix(t) # ZeroUnix
  BY DEF Unix, ZeroUnix

\* The set of one record, if its time is not zero.
LEMMA HourShown ==
    ASSUME NEW p, NEW hours, hours = PropertyToState(p).latestHour
    PROVE  IF p.hour.time = 0
             THEN hours = {}
             ELSE hours = {[time |-> p.hour.time, kWh |-> p.hour.kWh]}
  <1> DEFINE only == [time |-> p.hour.time, kWh |-> p.hour.kWh]
  <1>1. hours = {h \in {only} : h.time # 0}
    BY DEF PropertyToState
  <1>2. only.time = p.hour.time
    OBVIOUS
  <1> HIDE DEF only
  <1>3. \A h : h \in hours <=> h = only /\ p.hour.time # 0
    BY <1>1, <1>2
  <1> QED
    BY <1>3 DEF only

\* The two surfaces say the same of success, expiry, newest bucket and total,
\* neither shows a zero time, and they differ on inverters by exactly those
\* without a serial number, for every Snapshot the loop can publish.
THEOREM SurfacesAgreeHolds == Spec => []SurfacesAgree
  <1>1. TypeOK => SurfacesAgree
    <2> SUFFICES ASSUME TypeOK PROVE SurfacesAgree
      OBVIOUS
    <2> DEFINE state == StateResponse(snap)
               account == AccountSamples(snap)
    <2>1. snap.ok \in BOOLEAN /\ snap.expiry \in Nat /\ snap.properties \in Seq(Entry)
      BY DEF TypeOK, Snapshot
    <2>2. /\ Values("up", account) = {IF state.ok THEN 1 ELSE 0}
          /\ state.error # {} => Values("up", account) = {0}
      <3>1. Values("up", account) = {IF snap.ok THEN 1 ELSE 0}
        BY AccountValues
      <3>2. state.ok = snap.ok /\ (snap.ok => state.error = {})
        BY DEF StateResponse
      <3> HIDE DEF state, account
      <3> QED
        BY <3>1, <3>2
    <2>3. /\ Values("session_expires_at", account) =
                IF state.expires = {} THEN {0} ELSE {Unix(t) : t \in state.expires}
          /\ ZeroUnix \notin Values("session_expires_at", account)
      <3>1. Values("session_expires_at", account) =
               {IF snap.expiry = 0 THEN 0 ELSE Unix(snap.expiry)}
        BY AccountValues
      <3>2. state.expires = {snap.expiry} \ {0}
        BY DEF StateResponse
      <3> HIDE DEF state, account
      <3>3. CASE snap.expiry = 0
        BY <3>1, <3>2, <3>3 DEF ZeroUnix
      <3>4. CASE snap.expiry # 0
        <4>1. Unix(snap.expiry) # ZeroUnix
          BY <2>1, <3>4, UnixOfInstant
        <4>2. state.expires = {snap.expiry}
          BY <3>2, <3>4
        <4> QED
          BY <3>1, <3>4, <4>1, <4>2
      <3> QED
        BY <3>3, <3>4
    <2>4. ASSUME NEW i \in DOMAIN snap.properties
          PROVE  LET samples == PropertySamples(snap.properties[i])
                     entry == state.properties[i]
                 IN  /\ Values("last_sample", samples) = {Unix(h.time) : h \in entry.latestHour}
                     /\ ZeroUnix \notin Values("last_sample", samples)
                     /\ Values("latest_hour", samples) =
                           IF entry.latestHour = {} THEN {0}
                                                    ELSE {h.kWh : h \in entry.latestHour}
                     /\ Values("today", samples) = {entry.today}
                     /\ entry.inverter = Labels("inverter", samples) \ {"noSerial"}
      <3> DEFINE p == snap.properties[i]
                 samples == PropertySamples(p)
                 entry == PropertyToState(p)
      <3>1. state.properties[i] = entry
        BY <2>4 DEF StateResponse
      <3>2. p \in Entry
        BY <2>1
      <3> HIDE DEF p
      <3>3. /\ p.hour.time \in Nat
            /\ p.hour.time = 0 => p.hour.kWh = 0
            /\ p.inverter \in InverterKind
        BY <3>2, EntryFacts
      <3>4. IF p.hour.time = 0
              THEN entry.latestHour = {}
              ELSE entry.latestHour = {[time |-> p.hour.time, kWh |-> p.hour.kWh]}
        BY HourShown
      <3>5. entry.today = p.today /\ entry.inverter = {p.inverter} \cap {"serial"}
        BY DEF PropertyToState
      <3>6. /\ Values("last_sample", samples) = {Unix(t) : t \in {p.hour.time} \ {0}}
            /\ Values("latest_hour", samples) = {p.hour.kWh}
            /\ Values("today", samples) = {p.today}
            /\ Labels("inverter", samples) = {p.inverter} \ {"none"}
        BY SampleValues
      <3> HIDE DEF samples, entry
      <3>7. entry.inverter = Labels("inverter", samples) \ {"noSerial"}
        BY <3>3, <3>5, <3>6 DEF InverterKind
      <3>8. CASE p.hour.time = 0
        BY <3>1, <3>3, <3>4, <3>5, <3>6, <3>7, <3>8 DEF samples, p
      <3>9. CASE p.hour.time # 0
        <4> DEFINE only == [time |-> p.hour.time, kWh |-> p.hour.kWh]
        <4>1. only.time = p.hour.time /\ only.kWh = p.hour.kWh
          OBVIOUS
        <4>2. entry.latestHour = {only}
          BY <3>4, <3>9
        <4> HIDE DEF only
        <4>3. /\ {Unix(h.time) : h \in entry.latestHour} = {Unix(p.hour.time)}
              /\ {h.kWh : h \in entry.latestHour} = {p.hour.kWh}
          BY <4>1, <4>2
        <4>4. Values("last_sample", samples) = {Unix(p.hour.time)}
          BY <3>6, <3>9
        <4>5. Unix(p.hour.time) # ZeroUnix
          BY <3>3, <3>9, UnixOfInstant
        <4> QED
          BY <3>1, <3>5, <3>6, <3>7, <4>2, <4>3, <4>4, <4>5 DEF samples, p
      <3> QED
        BY <3>8, <3>9
    <2> QED
      BY <2>2, <2>3, <2>4 DEF SurfacesAgree
  <1> QED
    BY <1>1, TypeCorrect, PTL

=============================================================================
