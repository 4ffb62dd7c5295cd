---------------------------- MODULE HotStoreClock ----------------------------
(***************************************************************************)
(* The hot store against the clock.  Eviction and throughput buckets       *)
(* follow the timestamps that producers put in their readings, while the   *)
(* TTL of a bucket and the windows that the metrics services sum follow    *)
(* the servers' clock.  Producers may be late by any amount and ahead of   *)
(* the servers by at most MaxAhead; readings reach the store in any order. *)
(***************************************************************************)
EXTENDS HotStore

CONSTANTS
    ThroughputTTL,  \* THROUGHPUT_TTL_SECONDS, in ticks
    MaxWindow,      \* longest window_seconds a client may ask for, in seconds
    MaxAhead,       \* how far a producer's clock may be ahead, in ticks
    MaxTime         \* bound: the clock stops here

ASSUME HotStoreClockAssumption ==
    /\ ThroughputTTL \in Nat \ {0}
    /\ MaxWindow \in Nat \ {0}
    /\ MaxAhead \in Nat
    /\ MaxTime \in Nat

VARIABLES
    now,        \* the clock
    expiresAt,  \* when the TTL of a bucket runs out
    counted     \* history: times the script counted in a bucket, up to the cap

clockVars == <<hotVars, now, expiresAt, counted>>

-----------------------------------------------------------------------------
ClockInit ==
    /\ HotInit
    /\ now = 0
    /\ expiresAt = [b \in Buckets |-> 0]
    /\ counted = [b \in Buckets |-> 0]

\* persist_reading at time now: INCR and EXPIRE renew the bucket's TTL.
PersistNow(r) ==
    /\ r.ts <= now + MaxAhead
    /\ StoreReading(r)
    /\ expiresAt' = [expiresAt EXCEPT ![Bucket(r)] = now + ThroughputTTL]
    /\ counted' = [counted EXCEPT ![Bucket(r)] = Bump(@)]
    /\ UNCHANGED now

\* Time passes; a key is gone once its deadline is in the past.
Tick ==
    /\ now < MaxTime
    /\ now' = now + 1
    /\ ExpireBuckets({b \in Buckets : expiresAt[b] < now'})
    /\ UNCHANGED <<expiresAt, counted>>

ClockNext == Tick \/ \E r \in Readings : PersistNow(r)

ClockSpec == ClockInit /\ [][ClockNext]_clockVars

-----------------------------------------------------------------------------
\* One second too many.
WrongWindow(w) == {(now \div TicksPerSecond) - i : i \in 0..w}

\* get_current_throughput and get_throughput_metrics: the seconds whose keys
\* the MGET names, the current one and the window - 1 before it.
Window(w) == {(now \div TicksPerSecond) - i : i \in 0..(w - 1)}

ClockTypeOK ==
    /\ HotTypeOK
    /\ now \in 0..MaxTime
    /\ expiresAt \in [Buckets -> 0..(MaxTime + ThroughputTTL)]
    /\ counted \in [Buckets -> 0..CounterCap]

(***************************************************************************)
(* A window that the metrics services may sum is complete: no counter in   *)
(* it has expired, as long as the TTL covers the window and the producers' *)
(* lead.  The code's TTL is 3600 and its largest window 3600, so at the    *)
(* largest window nothing is left for producers ahead of the servers.      *)
(***************************************************************************)
WindowIsComplete ==
    \A w \in 1..MaxWindow :
        w * TicksPerSecond + MaxAhead <= ThroughputTTL =>
            \A b \in Window(w) \intersect Buckets : throughput[b] = counted[b]

(***************************************************************************)
(* A range query over the last Retention - MaxAhead by the servers' clock  *)
(* finds every reading stored: only a reading from the future can evict    *)
(* one that is still within the hour.                                      *)
(***************************************************************************)
RecentIsKept ==
    \A r \in stored : r.ts > now + MaxAhead - Retention => r \in hot
=============================================================================
