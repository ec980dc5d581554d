---------------------------- MODULE SnapshotFeed ----------------------------
(* What the poller promises those who read its Snapshot (the /metrics        *)
(* collector and /api/state), with no word of ticks, calls or retries: a     *)
(* sequence of publications, each a complete result, a partial one or a      *)
(* failure, that ends for good when the session is lost.                     *)
EXTENDS Integers

CONSTANTS
    Property,   \* the installations the account may list
    Absent,     \* the entry of a property that is not in the snapshot
    Interval    \* the least time between two publications

VARIABLES
    feed        \* what a reader sees: [ok, authFailed, lastPollAt, lastSuccessAt,
                \* properties, scrapeErrors]

FeedInit ==
    /\ ~feed.ok
    /\ ~feed.authFailed
    /\ feed.lastPollAt = 0
    /\ feed.lastSuccessAt = 0
    /\ feed.properties = [p \in Property |-> Absent]
    /\ \A o \in DOMAIN feed.scrapeErrors : feed.scrapeErrors[o] = 0

\* A property's next entry is of a later day, or of the same day and with the
\* same total for the day before.
Follows(old, new) ==
    \/ old = Absent
    \/ new = Absent
    \/ new.today > old.today
    \/ new.today = old.today /\ new.yesterday = old.yesterday

\* Publications are spaced, failures are only ever added to the counters, and
\* nothing is published once the session is lost.
Publish ==
    /\ ~feed.authFailed
    /\ feed.lastPollAt # 0 => feed'.lastPollAt >= feed.lastPollAt + Interval
    /\ feed'.lastPollAt > feed.lastPollAt
    /\ \A o \in DOMAIN feed.scrapeErrors :
          feed'.scrapeErrors[o] >= feed.scrapeErrors[o]

PublishResult ==
    /\ Publish
    /\ ~feed'.authFailed
    /\ \A p \in Property : Follows(feed.properties[p], feed'.properties[p])
    /\ feed'.lastSuccessAt = IF feed'.ok THEN feed'.lastPollAt ELSE feed.lastSuccessAt

\* The last values stay, marked as stale; the session may be lost with this.
PublishFailure ==
    /\ Publish
    /\ ~feed'.ok
    /\ UNCHANGED <<feed.properties, feed.lastSuccessAt>>

FeedNext == PublishResult \/ PublishFailure

FeedSpec == FeedInit /\ [][FeedNext]_feed

=============================================================================
