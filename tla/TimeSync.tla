------------------------------- MODULE TimeSync -------------------------------
(***************************************************************************)
(* Time sync over ordinary WiFi: sync.rs and the loop of main.rs in        *)
(* spikes/s1-time-sync.  A master announces itself and answers requests; a *)
(* follower asks, and takes a sample of the master's clock from the four   *)
(* stamps t1 to t4 of each answer.                                         *)
(*                                                                         *)
(* Time is the follower's clock.  A datagram is put into net with the time *)
(* at which its receiver will read it, which is after any delay of the air *)
(* and of the receiver's loop, and steps happen in the order of time.      *)
(* Both clocks run at one rate, for the length of an exchange.             *)
(***************************************************************************)
EXTENDS SyncStats

CONSTANTS
    TICK_INTERVAL, REQUEST_INTERVAL,
    Delays,     \* how long a datagram ordinarily takes
    Late,       \* how long it takes if the access point holds it
    Busy,       \* how long an answer takes
    Skews,      \* what a master's clock may be ahead
    MaxTime,    \* bound: how long a run is
    MaxFaults   \* bound: datagrams lost, repeated or late

ASSUME SyncAssumption ==
    /\ TICK_INTERVAL \in Nat \ {0} /\ REQUEST_INTERVAL \in Nat \ {0}
    /\ Delays \subseteq Nat /\ Late \subseteq Nat /\ Busy \subseteq Nat
    /\ Skews \subseteq Int
    /\ MaxTime \in 0 .. I64_MAX /\ MaxFaults \in Nat

VARIABLES
    now, net, faults,
    \* the master
    skew,           \* its clock, less the follower's
    next_tick, answered,
    \* the follower
    master,         \* has it found a master?
    next_request, sent, heard, samples, first_offset,
    taken           \* history: every sample and what it should have been

masterVars == <<skew, next_tick, answered>>
followerVars == <<master, next_request, sent, heard, samples, first_offset, taken>>
vars == <<now, net, faults, masterVars, followerVars>>

Init ==
    /\ now = 0 /\ net = {} /\ faults = 0
    /\ skew \in Skews /\ next_tick = 0 /\ answered = 0
    /\ master = FALSE /\ next_request = 0
    /\ sent = 0 /\ heard = 0 /\ samples = NewSamples /\ first_offset = None
    /\ taken = <<>>

\* What happens next happens at t, and nothing is due before.
At(t) ==
    /\ t <= MaxTime
    /\ t <= next_tick /\ t <= next_request
    /\ \A m \in net : t <= m.at
    /\ now' = t

\* The datagrams of rest stay, and m leaves at t: it arrives once after an
\* ordinary delay, or is lost, repeated or late.
Send(rest, t, m) ==
    \E arrivals \in SUBSET (Delays \cup Late) :
        /\ net' = rest \cup {[m EXCEPT !.at = t + d] : d \in arrivals}
        /\ \/ (\E d \in Delays : arrivals = {d}) /\ UNCHANGED faults
           \/ /\ ~\E d \in Delays : arrivals = {d}
              /\ faults < MaxFaults
              /\ faults' = faults + 1

------------------------------------------------------------------------------
\* on_tick of a master.
Tick ==
    /\ At(next_tick)
    /\ next_tick' = next_tick + TICK_INTERVAL
    /\ Send(net, next_tick, [type |-> "TICK", at |-> 0])
    /\ UNCHANGED <<skew, answered, followerVars>>

\* on_tick of a follower: it asks if it knows whom.
Ask ==
    /\ At(next_request)
    /\ next_request' = next_request + REQUEST_INTERVAL
    /\ \/ /\ ~master
          /\ UNCHANGED <<sent, net, faults>>
       \/ /\ master
          /\ sent' = sent + 1
          /\ Send(net, next_request, [type |-> "SYNC_REQ", at |-> 0, t1 |-> next_request])
    /\ UNCHANGED <<masterVars, master, heard, samples, first_offset, taken>>

\* on_datagram of a master.  That the answer also says the skew is history.
Answer(m) ==
    /\ m.type = "SYNC_REQ" /\ At(m.at)
    /\ answered' = answered + 1
    /\ \E busy \in Busy :
        Send(net \ {m}, m.at + busy,
             [type |-> "SYNC_RESP", at |-> 0, t1 |-> m.t1,
              t2 |-> m.at + skew, t3 |-> m.at + busy + skew, skew |-> skew])
    /\ UNCHANGED <<skew, next_tick, followerVars>>

\* on_datagram of a follower: an announcement.
Find(m) ==
    /\ m.type = "TICK" /\ At(m.at)
    /\ net' = net \ {m}
    /\ master' = TRUE
    /\ UNCHANGED <<faults, masterVars, next_request, sent, heard, samples, first_offset, taken>>

\* A mutant of Offset: the return path is not subtracted.
OffsetOneWay(m) == m.t2 - m.t1

Offset(m) == Half((m.t2 - m.t1) + (m.t3 - m.at))
RoundTrip(m) == (m.at - m.t1) - (m.t3 - m.t2)

\* on_datagram of a follower: an answer.  One with a negative round trip is heard
\* and is no sample.
Hear(m) ==
    /\ m.type = "SYNC_RESP" /\ At(m.at)
    /\ net' = net \ {m}
    /\ heard' = heard + 1
    /\ IF RoundTrip(m) < 0
       THEN UNCHANGED <<samples, first_offset, taken>>
       ELSE /\ first_offset' = IF first_offset = None THEN [t |-> m.at, offset |-> Offset(m)]
                               ELSE first_offset
            /\ samples' = Add(samples, m.at, RoundTrip(m), Offset(m))
            /\ taken' = Append(taken, [rtt |-> RoundTrip(m), offset |-> Offset(m),
                                       skew |-> m.skew])
    /\ UNCHANGED <<faults, masterVars, master, next_request, sent>>

\* The master starts again.  Its clock is another, and what was on the way to it
\* is gone.
Restart ==
    /\ faults < MaxFaults /\ faults' = faults + 1
    /\ skew' \in Skews \ {skew}
    /\ net' = {m \in net : m.type # "SYNC_REQ"}
    /\ next_tick' = now
    /\ answered' = 0
    /\ UNCHANGED <<now, followerVars>>

Next ==
    \/ Tick \/ Ask \/ Restart
    \/ \E m \in net : Answer(m) \/ Find(m) \/ Hear(m)

Spec == Init /\ [][Next]_vars

------------------------------------------------------------------------------
Samples == 1 .. Len(taken)

Ticks == [type : {"TICK"}, at : Nat]
Requests == [type : {"SYNC_REQ"}, at : Nat, t1 : Nat]
Answers == [type : {"SYNC_RESP"}, at : Nat, t1 : Nat, t2 : Int, t3 : Int, skew : Int]

\* The variables have their types, and the statistics have seen every sample.
SyncTypeOK ==
    /\ now \in Nat /\ skew \in Int /\ faults \in 0 .. MaxFaults
    /\ next_tick \in Nat /\ next_request \in Nat
    /\ answered \in Nat /\ sent \in Nat /\ heard \in Nat
    /\ master \in BOOLEAN
    /\ net \subseteq Ticks \cup Requests \cup Answers
    /\ taken \in Seq([rtt : Nat, offset : Int, skew : Int])
    /\ samples.n = Len(taken)

\* Twice the error of sample i, but for the rounding of the division.
Error(i) == 2 * Distance(taken[i].offset, taken[i].skew)

\* A sample is wrong by no more than half its round trip and a microsecond's
\* rounding, whatever was lost, repeated, late, out of order or answered by a master
\* that has restarted since (sync.rs on_datagram).
WithinHalfRoundTrip == \A i \in Samples : Error(i) <= taken[i].rtt + 1

MinRtt(last) == Min({taken[i].rtt : i \in 1 .. last})

\* Samples that were within tolerance of the least round trip up to then.
Survivors ==
    {i \in Samples :
        taken[i].rtt * RTT_TOLERANCE_DEN <= MinRtt(i) * RTT_TOLERANCE_NUM}

\* The filter keeps exactly the samples within tolerance of the least round trip so
\* far, the first among them, and what it keeps last is right to within the
\* tolerance (stats.rs Samples::add).
FilterKeepsTheQuick ==
    Len(taken) > 0 =>
        /\ samples.n_kept = Cardinality(Survivors)
        /\ 1 \in Survivors
        /\ samples.kept.last = taken[Max(Survivors)].offset
        /\ (Error(Max(Survivors)) - 1) * RTT_TOLERANCE_DEN
             <= MinRtt(Max(Survivors)) * RTT_TOLERANCE_NUM

\* The samples of the w-th window of n.
Window(n, w) == ((w - 1) * n) + 1 .. w * n

\* The estimate of a burst is a sample of its last whole window whose error is at
\* most half the quickest round trip of that window, whatever came between windows
\* (stats.rs Burst::add).
BurstTakesTheQuickest ==
    \A k \in DOMAIN BURSTS :
        LET b == samples.best[k]
            w == Len(taken) \div BURSTS[k]
        IN  /\ b.windows = w
            /\ w > 0 => \E i \in Window(BURSTS[k], w) :
                            /\ b.best.last = taken[i].offset
                            /\ \A j \in Window(BURSTS[k], w) : Error(i) <= taken[j].rtt + 1

\* The median estimate of a burst has no more than half of its window on either
\* side, so that it is right if more than half of them are (stats.rs Burst::add).
MedianInTheMiddle ==
    \A k \in DOMAIN BURSTS :
        LET b == samples.best[k]
            in == Window(BURSTS[k], b.windows)
        IN  b.windows > 0 =>
                /\ 2 * Cardinality({i \in in : taken[i].offset < b.median.last}) <= BURSTS[k]
                /\ 2 * Cardinality({i \in in : taken[i].offset > b.median.last}) <= BURSTS[k]

\* Both estimates of a burst are of its own last window, whatever came before,
\* between and after the windows, and whichever samples were late.
BurstEstimates == BurstTakesTheQuickest /\ MedianInTheMiddle

\* v is the p-th percentile of the round trips by nearest rank.
NearestRank(v, p) ==
    /\ 100 * Cardinality({i \in Samples : taken[i].rtt <= v}) >= p * Len(taken)
    /\ 100 * Cardinality({i \in Samples : taken[i].rtt < v}) < p * Len(taken)

\* What is printed as a percentile is above the true one by no more than the width
\* of its bucket, unless that is beyond the last bucket (stats.rs percentile).
PercentileBracketsTheRank ==
    \A p \in {50, 95, 99} : \A v \in {taken[i].rtt : i \in Samples} :
        NearestRank(v, p) =>
            LET shown == Percentile(samples.rtt, p)
            IN  \/ v < shown /\ shown - v <= (IF v < FINE_LIMIT_US THEN FINE_US ELSE COARSE_US)
                \/ v >= EdgeOf(BUCKETS - 1) /\ shown = EdgeOf(BUCKETS - 1)

\* The estimate of the w-th window of n: its first sample of the least round trip.
Estimate(n, w) ==
    LET in == Window(n, w)
        quickest == {i \in in : \A j \in in : taken[i].rtt <= taken[j].rtt}
    IN  taken[Min(quickest)].offset

\* Each sample after the first counts once as jitter.  Of the windows of a burst, each
\* after the first counts once as jitter and each after the second as residual.  The
\* worst of each kind is the largest there was: successive samples, successive
\* estimates, and what a constant rate does not explain of an estimate (stats.rs
\* Samples::add and Burst::add).
JitterCountedOnce ==
    /\ Len(taken) > 0 =>
        /\ Total(samples.all.jitter) = Len(taken) - 1
        /\ samples.all.worst = Max({Distance(taken[i].offset, taken[i - 1].offset) :
                                        i \in 2 .. Len(taken)} \cup {0})
    /\ \A k \in DOMAIN BURSTS :
        LET b == samples.best[k]
            E(w) == Estimate(BURSTS[k], w)
        IN  /\ Total(b.best.jitter) = Max({0, b.windows - 1})
            /\ Total(b.median.jitter) = Max({0, b.windows - 1})
            /\ Total(b.residual) = Max({0, b.windows - 2})
            /\ b.best.worst = Max({Distance(E(w), E(w - 1)) : w \in 2 .. b.windows} \cup {0})
            /\ b.worst_residual = Max({Distance(E(w), (2 * E(w - 1)) - E(w - 2)) :
                                        w \in 3 .. b.windows} \cup {0})
==============================================================================
