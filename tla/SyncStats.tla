------------------------------ MODULE SyncStats ------------------------------
(***************************************************************************)
(* What a follower makes of its samples: spikes/s1-time-sync/src/stats.rs. *)
(* Histograms of two resolutions and their percentiles, the 1.5x filter on *)
(* round trips, and for each burst length an estimator of the clock.       *)
(*                                                                         *)
(* Three times the code keeps a value, and how far it is from the one      *)
(* before, in a histogram and as a maximum: that is a track here.          *)
(***************************************************************************)
EXTENDS Integers, Sequences, SequencesExt

CONSTANTS
    FINE_US, FINE_LIMIT_US, COARSE_US, COARSE_BUCKETS,
    RTT_TOLERANCE_NUM, RTT_TOLERANCE_DEN,
    BURSTS,     \* the burst lengths
    I64_MAX,
    None

ASSUME StatsAssumption ==
    /\ FINE_US \in Nat \ {0} /\ FINE_LIMIT_US \in Nat \ {0} /\ COARSE_US \in Nat \ {0}
    /\ COARSE_BUCKETS \in Nat \ {0} /\ FINE_LIMIT_US % FINE_US = 0
    /\ RTT_TOLERANCE_DEN \in Nat \ {0} /\ RTT_TOLERANCE_NUM \in Nat
    /\ RTT_TOLERANCE_NUM >= RTT_TOLERANCE_DEN
    /\ I64_MAX \in Nat
    /\ None \notin [rtt : Nat, offset : Int] /\ None \notin Int
    /\ BURSTS \in Seq({n \in Nat : n > 0 /\ n % 2 = 0})

FINE_BUCKETS == FINE_LIMIT_US \div FINE_US
BUCKETS == FINE_BUCKETS + COARSE_BUCKETS

\* Rust's x / 2.
Half(x) == IF x >= 0 THEN x \div 2 ELSE -((-x) \div 2)
Distance(x, y) == IF x < y THEN y - x ELSE x - y

------------------------------------------------------------------------------
Empty == [i \in 0 .. BUCKETS - 1 |-> 0]

BucketOf(value) ==
    IF value <= 0 THEN 0
    ELSE IF value < FINE_LIMIT_US THEN value \div FINE_US
    ELSE Min({FINE_BUCKETS + ((value - FINE_LIMIT_US) \div COARSE_US), BUCKETS - 1})

EdgeOf(i) ==
    IF i < FINE_BUCKETS THEN (i + 1) * FINE_US
    ELSE FINE_LIMIT_US + ((i - FINE_BUCKETS + 1) * COARSE_US)

Bump(histogram, value) == [histogram EXCEPT ![BucketOf(value)] = @ + 1]

\* How many values each bucket and those before it hold.
Seen(histogram) ==
    LET seen[i \in 0 .. BUCKETS - 1] == histogram[i] + (IF i = 0 THEN 0 ELSE seen[i - 1])
    IN  seen

Total(histogram) == Seen(histogram)[BUCKETS - 1]

\* A mutant of Percentile: the rank is rounded down.
PercentileFloor(histogram, p) ==
    LET total == Total(histogram)
        rank == (total * p) \div 100
    IN  IF total = 0 THEN -1
        ELSE EdgeOf(Min({i \in 0 .. BUCKETS - 1 : Seen(histogram)[i] >= rank}))

\* The upper edge of the bucket in which the p-th percentile lies.
Percentile(histogram, p) ==
    LET total == Total(histogram)
        rank == ((total * p) + 99) \div 100
    IN  IF total = 0 THEN -1
        ELSE EdgeOf(Min({i \in 0 .. BUCKETS - 1 : Seen(histogram)[i] >= rank}))

------------------------------------------------------------------------------
NoTrack == [last |-> None, jitter |-> Empty, worst |-> 0]

\* A mutant of Follow: a new extreme replaces the worst even if it is smaller.
FollowLatest(track, value) ==
    IF track.last = None
    THEN [track EXCEPT !.last = value]
    ELSE LET jitter == Distance(value, track.last)
         IN  [last |-> value, jitter |-> Bump(track.jitter, jitter), worst |-> jitter]

Follow(track, value) ==
    IF track.last = None
    THEN [track EXCEPT !.last = value]
    ELSE LET jitter == Distance(value, track.last)
         IN  [last |-> value, jitter |-> Bump(track.jitter, jitter),
              worst |-> Max({track.worst, jitter})]

NewBurst ==
    [best |-> NoTrack, median |-> NoTrack, residual |-> Empty, worst_residual |-> 0,
     window |-> <<>>, pending |-> None, previous |-> None, first |-> None, windows |-> 0]

\* A mutant of Median: the middle of the window as it came.
MedianUnsorted(window) ==
    Half(window[Len(window) \div 2] + window[(Len(window) \div 2) + 1])

\* sort_unstable(): the window in an order in which it does not fall.
Orders(window) ==
    {p \in Bijection(1 .. Len(window), 1 .. Len(window)) :
        \A i, j \in 1 .. Len(window) : i < j => window[p[i]] <= window[p[j]]}

Median(window) ==
    LET order == CHOOSE p \in Orders(window) : TRUE
        middle == Len(window) \div 2
    IN  Half(window[order[middle]] + window[order[middle + 1]])

\* How far the estimate is from what the rate of the two before predicts.
Residual(b, estimate) == Distance(estimate, (2 * b.best.last) - b.previous)

\* A window is complete: its quickest exchange is the estimate.
Close(b, now, quickest, window) ==
    LET rated == b.best.last # None /\ b.previous # None
    IN  [best |-> Follow(b.best, quickest.offset),
         median |-> Follow(b.median, Median(window)),
         residual |-> IF rated THEN Bump(b.residual, Residual(b, quickest.offset))
                      ELSE b.residual,
         worst_residual |-> IF rated
                            THEN Max({b.worst_residual, Residual(b, quickest.offset)})
                            ELSE b.worst_residual,
         window |-> <<>>,
         pending |-> None,
         previous |-> b.best.last,
         first |-> IF b.first = None THEN [t |-> now, offset |-> quickest.offset] ELSE b.first,
         windows |-> b.windows + 1]

\* A mutant of Quicker: the slowest of the window is chosen.
Slower(pending, rtt, offset) ==
    IF pending = None \/ rtt > pending.rtt THEN [rtt |-> rtt, offset |-> offset] ELSE pending

Quicker(pending, rtt, offset) ==
    IF pending = None \/ rtt < pending.rtt THEN [rtt |-> rtt, offset |-> offset] ELSE pending

BurstAdd(b, now, n, rtt, offset) ==
    LET quickest == Quicker(b.pending, rtt, offset)
        window == Append(b.window, offset)
    IN  IF Len(window) < n
        THEN [b EXCEPT !.pending = quickest, !.window = window]
        ELSE Close(b, now, quickest, window)

------------------------------------------------------------------------------
NewSamples ==
    [rtt |-> Empty, all |-> NoTrack, kept |-> NoTrack,
     best |-> [i \in DOMAIN BURSTS |-> NewBurst],
     min_rtt |-> I64_MAX, n |-> 0, n_kept |-> 0]

\* A mutant of Passes: what is just within tolerance is discarded.
PassesStrictly(rtt, min_rtt) == rtt * RTT_TOLERANCE_DEN < min_rtt * RTT_TOLERANCE_NUM

Passes(rtt, min_rtt) == rtt * RTT_TOLERANCE_DEN <= min_rtt * RTT_TOLERANCE_NUM

\* A mutant of Add: only the samples kept are counted.
AddCountsKept(s, now, rtt, offset) ==
    LET min_rtt == Min({s.min_rtt, rtt})
        passes == Passes(rtt, min_rtt)
    IN  [s EXCEPT !.n = IF passes THEN @ + 1 ELSE @,
                  !.best = [i \in DOMAIN BURSTS |-> BurstAdd(@[i], now, BURSTS[i], rtt, offset)],
                  !.min_rtt = min_rtt,
                  !.rtt = Bump(@, rtt),
                  !.all = Follow(@, offset),
                  !.kept = IF passes THEN Follow(@, offset) ELSE @,
                  !.n_kept = IF passes THEN @ + 1 ELSE @]

Add(s, now, rtt, offset) ==
    LET min_rtt == Min({s.min_rtt, rtt})
        passes == Passes(rtt, min_rtt)
    IN  [s EXCEPT !.n = @ + 1,
                  !.best = [i \in DOMAIN BURSTS |-> BurstAdd(@[i], now, BURSTS[i], rtt, offset)],
                  !.min_rtt = min_rtt,
                  !.rtt = Bump(@, rtt),
                  !.all = Follow(@, offset),
                  !.kept = IF passes THEN Follow(@, offset) ELSE @,
                  !.n_kept = IF passes THEN @ + 1 ELSE @]
==============================================================================
