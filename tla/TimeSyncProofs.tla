---------------------------- MODULE TimeSyncProofs ----------------------------
(***************************************************************************)
(* What a sample of the master's clock is worth, what the filter keeps and *)
(* what the bursts estimate, at every delay, skew, interval and number of  *)
(* faults.                                                                 *)
(***************************************************************************)
EXTENDS TimeSync, FiniteSetTheorems, FunctionTheorems, WellFoundedInduction, TLAPS

\* Rust's x / 2 is the integer within half of it.
LEMMA Halves ==
    ASSUME NEW x \in Int
    PROVE  /\ Half(x) \in Int
           /\ (2 * Half(x)) - x \in {-1, 0, 1}
  <1>1. ASSUME NEW n \in Nat
        PROVE  n \div 2 \in Nat /\ n - (2 * (n \div 2)) \in {0, 1}
    OBVIOUS
  <1>2. CASE x >= 0
    BY <1>1, <1>2 DEF Half
  <1>3. CASE x < 0
    <2>1. -x \in Nat
      BY <1>3
    <2> QED
      BY <1>1, <1>3, <2>1 DEF Half
  <1> QED
    BY <1>2, <1>3

\* The stamps of what is on its way are in the order in which they were taken: a
\* request was stamped before it arrives, and an answer's stamps, all on the
\* follower's clock, come one after another.
Ordered(m) ==
    /\ m.type = "SYNC_REQ" => m.t1 <= m.at
    /\ m.type = "SYNC_RESP" =>
        /\ m.t1 <= m.t2 - m.skew
        /\ m.t2 <= m.t3
        /\ m.t3 - m.skew <= m.at

StampsInOrder == \A m \in net : Ordered(m)

SyncInv == SyncTypeOK /\ StampsInOrder /\ WithinHalfRoundTrip

\* What is in the air after a sending: what was left, and copies of the datagram,
\* each with some time of arrival that is not before it left.
LEMMA Sending ==
    ASSUME SyncTypeOK, NEW rest, NEW t \in Nat, NEW m, Send(rest, t, m)
    PROVE  /\ \A c \in net' : c \in rest \/ \E d \in Nat : c = [m EXCEPT !.at = t + d]
           /\ faults' \in 0 .. MaxFaults
  <1>1. PICK arrivals \in SUBSET (Delays \cup Late) :
            /\ net' = rest \cup {[m EXCEPT !.at = t + d] : d \in arrivals}
            /\ faults' = faults \/ (faults < MaxFaults /\ faults' = faults + 1)
    BY DEF Send
  <1>2. arrivals \subseteq Nat
    BY SyncAssumption
  <1>3. faults' \in 0 .. MaxFaults
    BY <1>1, SyncAssumption DEF SyncTypeOK
  <1> QED
    BY <1>1, <1>2, <1>3

\* The arithmetic of an answer: if its stamps are in order, the sample taken of it
\* has a natural round trip and is wrong by at most half of that.
LEMMA Sample ==
    ASSUME NEW m \in Answers, Ordered(m)
    PROVE  /\ RoundTrip(m) \in Nat
           /\ Offset(m) \in Int
           /\ 2 * Distance(Offset(m), m.skew) <= RoundTrip(m) + 1
  <1> DEFINE x == (m.t2 - m.t1) + (m.t3 - m.at)
  <1>1. /\ m.t1 \in Nat /\ m.t2 \in Int /\ m.t3 \in Int /\ m.at \in Nat /\ m.skew \in Int
        /\ m.t1 <= m.t2 - m.skew /\ m.t2 <= m.t3 /\ m.t3 - m.skew <= m.at
    BY DEF Ordered, Answers
  <1>2. RoundTrip(m) \in Nat
    BY <1>1 DEF RoundTrip
  <1>3. Offset(m) \in Int /\ (2 * Offset(m)) - x \in {-1, 0, 1}
    <2>1. x \in Int
      BY <1>1
    <2>2. Offset(m) = Half(x)
      BY DEF Offset
    <2> QED
      BY <2>1, <2>2, Halves
  <1>4. /\ x - (2 * m.skew) <= RoundTrip(m)
        /\ (2 * m.skew) - x <= RoundTrip(m)
    BY <1>1 DEF RoundTrip
  <1>5. x \in Int
    BY <1>1
  <1> HIDE DEF x
  <1>6. 2 * Distance(Offset(m), m.skew) <= RoundTrip(m) + 1
    BY <1>1, <1>2, <1>3, <1>4, <1>5 DEF Distance
  <1> QED
    BY <1>2, <1>3, <1>6

LEMMA InitEstablishes == Init => SyncInv
  <1> SUFFICES ASSUME Init PROVE SyncInv
    OBVIOUS
  <1>1. SyncTypeOK
    <2>1. samples.n = Len(taken)
      BY DEF Init, NewSamples
    <2>2. skew \in Int /\ faults \in 0 .. MaxFaults
      BY SyncAssumption DEF Init
    <2>3. taken \in Seq([rtt : Nat, offset : Int, skew : Int])
      BY DEF Init
    <2>4. net \subseteq Ticks \cup Requests \cup Answers
      BY DEF Init
    <2>5. now = 0 /\ next_tick = 0 /\ next_request = 0 /\ answered = 0
      BY DEF Init
    <2>6. sent = 0 /\ heard = 0 /\ master = FALSE
      BY DEF Init
    <2> QED
      BY <2>1, <2>2, <2>3, <2>4, <2>5, <2>6 DEF SyncTypeOK
  <1>2. StampsInOrder
    BY DEF Init, StampsInOrder
  <1>3. WithinHalfRoundTrip
    BY DEF Init, WithinHalfRoundTrip, Samples
  <1> QED
    BY <1>1, <1>2, <1>3 DEF SyncInv

LEMMA TickPreserves ==
    ASSUME SyncInv, Tick
    PROVE  SyncInv'
  <1> DEFINE m == [type |-> "TICK", at |-> 0]
  <1> USE DEF SyncInv
  <1>1. next_tick \in Nat /\ now' = next_tick /\ next_tick' \in Nat
    BY SyncAssumption DEF Tick, At, SyncTypeOK
  <1>2. /\ \A c \in net' : c \in net \/ \E d \in Nat : c = [m EXCEPT !.at = next_tick + d]
        /\ faults' \in 0 .. MaxFaults
    BY <1>1, Sending DEF Tick
  <1>3. \A c \in net' : c \in net \/ (c \in Ticks /\ c.type = "TICK")
    BY <1>1, <1>2 DEF Ticks
  <1>4. net' \subseteq Ticks \cup Requests \cup Answers
    BY <1>3 DEF SyncTypeOK
  <1>5. SyncTypeOK'
    BY <1>1, <1>2, <1>4 DEF Tick, SyncTypeOK, followerVars
  <1>6. StampsInOrder'
    BY <1>3 DEF StampsInOrder, Ordered
  <1>7. WithinHalfRoundTrip'
    BY DEF Tick, followerVars, WithinHalfRoundTrip, Samples, Error
  <1> QED
    BY <1>5, <1>6, <1>7

LEMMA AskPreserves ==
    ASSUME SyncInv, Ask
    PROVE  SyncInv'
  <1> DEFINE m == [type |-> "SYNC_REQ", at |-> 0, t1 |-> next_request]
  <1> USE DEF SyncInv
  <1>1. next_request \in Nat /\ now' = next_request /\ next_request' \in Nat
    BY SyncAssumption DEF Ask, At, SyncTypeOK
  <1>2. CASE ~master /\ UNCHANGED <<sent, net, faults>>
    <2>1. SyncTypeOK'
      BY <1>1, <1>2 DEF Ask, SyncTypeOK, masterVars
    <2>2. StampsInOrder'
      BY <1>2 DEF StampsInOrder, Ordered
    <2>3. WithinHalfRoundTrip'
      BY DEF Ask, WithinHalfRoundTrip, Samples, Error
    <2> QED
      BY <2>1, <2>2, <2>3
  <1>3. CASE sent' = sent + 1 /\ Send(net, next_request, m)
    <2>1. /\ \A c \in net' :
                c \in net \/ \E d \in Nat : c = [m EXCEPT !.at = next_request + d]
          /\ faults' \in 0 .. MaxFaults
      BY <1>1, <1>3, Sending
    <2>2. \A c \in net' : c \in net \/ (c \in Requests /\ Ordered(c))
      BY <1>1, <2>1 DEF Requests, Ordered
    <2>3. net' \subseteq Ticks \cup Requests \cup Answers
      BY <2>2 DEF SyncTypeOK
    <2>4. SyncTypeOK'
      BY <1>1, <1>3, <2>1, <2>3 DEF Ask, SyncTypeOK, masterVars
    <2>5. StampsInOrder'
      BY <2>2 DEF StampsInOrder
    <2>6. WithinHalfRoundTrip'
      BY DEF Ask, WithinHalfRoundTrip, Samples, Error
    <2> QED
      BY <2>4, <2>5, <2>6
  <1> QED
    BY <1>2, <1>3 DEF Ask

LEMMA AnswerPreserves ==
    ASSUME SyncInv, NEW q \in net, Answer(q)
    PROVE  SyncInv'
  <1> USE DEF SyncInv
  <1>1. PICK busy \in Busy :
            Send(net \ {q}, q.at + busy,
                 [type |-> "SYNC_RESP", at |-> 0, t1 |-> q.t1, t2 |-> q.at + skew,
                  t3 |-> q.at + busy + skew, skew |-> skew])
    BY DEF Answer
  <1> DEFINE m == [type |-> "SYNC_RESP", at |-> 0, t1 |-> q.t1, t2 |-> q.at + skew,
                   t3 |-> q.at + busy + skew, skew |-> skew]
  <1>2. /\ busy \in Nat /\ skew \in Int
        /\ q.at \in Nat /\ q.t1 \in Nat /\ q.t1 <= q.at
    <2>1. q \in Requests
      BY DEF Answer, SyncTypeOK, Ticks, Answers, Requests
    <2> QED
      BY <2>1, SyncAssumption DEF SyncTypeOK, StampsInOrder, Ordered, Requests
  <1>3. /\ \A c \in net' :
              c \in net \ {q} \/ \E d \in Nat : c = [m EXCEPT !.at = q.at + busy + d]
        /\ faults' \in 0 .. MaxFaults
    <2>1. q.at + busy \in Nat
      BY <1>2
    <2> QED
      BY <1>1, <2>1, Sending
  <1>4. \A c \in net' : c \in net \/ (c \in Answers /\ Ordered(c))
    <2> SUFFICES ASSUME NEW c \in net', NEW d \in Nat,
                        c = [m EXCEPT !.at = q.at + busy + d]
                 PROVE  c \in Answers /\ Ordered(c)
      BY <1>3
    <2> HIDE <1>1, <1>3
    <2>1. c = [type |-> "SYNC_RESP", at |-> q.at + busy + d, t1 |-> q.t1,
               t2 |-> q.at + skew, t3 |-> q.at + busy + skew, skew |-> skew]
      OBVIOUS
    <2> QED
      BY <1>2, <2>1 DEF Answers, Ordered
  <1>5. net' \subseteq Ticks \cup Requests \cup Answers
    BY <1>4 DEF SyncTypeOK
  <1>6. SyncTypeOK'
    <2>1. UNCHANGED <<skew, next_tick, master, next_request, sent, heard, samples, taken>>
      BY DEF Answer, followerVars
    <2>2. now' \in Nat /\ answered' \in Nat
      BY <1>2 DEF Answer, At, SyncTypeOK
    <2>3. faults' \in 0 .. MaxFaults
      BY <1>3
    <2> QED
      BY <1>5, <2>1, <2>2, <2>3 DEF SyncTypeOK
  <1>7. StampsInOrder'
    BY <1>4 DEF StampsInOrder
  <1>8. WithinHalfRoundTrip'
    BY DEF Answer, followerVars, WithinHalfRoundTrip, Samples, Error
  <1> QED
    BY <1>6, <1>7, <1>8

LEMMA FindPreserves ==
    ASSUME SyncInv, NEW m \in net, Find(m)
    PROVE  SyncInv'
  <1> USE DEF SyncInv
  <1>1. now' = m.at /\ m.at \in Nat /\ net' \subseteq net
    BY DEF Find, At, SyncTypeOK, Ticks, Requests, Answers
  <1>2. SyncTypeOK'
    BY <1>1 DEF Find, SyncTypeOK, masterVars
  <1>3. StampsInOrder'
    BY <1>1 DEF StampsInOrder
  <1>4. WithinHalfRoundTrip'
    BY DEF Find, WithinHalfRoundTrip, Samples, Error
  <1> QED
    BY <1>2, <1>3, <1>4

\* What is added to the statistics is counted.
LEMMA Counted ==
    ASSUME NEW t, NEW rtt, NEW offset, samples' = Add(samples, t, rtt, offset),
           samples.n \in Nat
    PROVE  samples'.n = samples.n + 1
  BY DEF Add

LEMMA HearPreserves ==
    ASSUME SyncInv, NEW m \in net, Hear(m)
    PROVE  SyncInv'
  <1> USE DEF SyncInv
  <1> DEFINE sample == [rtt |-> RoundTrip(m), offset |-> Offset(m), skew |-> m.skew]
  <1>1. m \in Answers
    BY DEF Hear, SyncTypeOK, Ticks, Requests, Answers
  <1>2. Ordered(m)
    BY DEF StampsInOrder
  <1>3. /\ RoundTrip(m) \in Nat /\ Offset(m) \in Int /\ m.skew \in Int
        /\ 2 * Distance(Offset(m), m.skew) <= RoundTrip(m) + 1
    BY <1>1, <1>2, Sample DEF Answers
  <1>4. /\ samples' = Add(samples, m.at, RoundTrip(m), Offset(m))
        /\ taken' = Append(taken, sample)
    BY <1>3 DEF Hear
  <1>5. /\ taken' \in Seq([rtt : Nat, offset : Int, skew : Int])
        /\ Len(taken') = Len(taken) + 1
        /\ taken'[Len(taken')] = sample
        /\ \A i \in 1 .. Len(taken) : taken'[i] = taken[i]
    BY <1>3, <1>4 DEF SyncTypeOK
  <1>6. now' = m.at /\ m.at \in Nat /\ net' \subseteq net
    BY <1>1 DEF Hear, At, Answers
  <1>7. samples'.n = Len(taken')
    BY <1>4, <1>5, Counted DEF SyncTypeOK
  <1>8. SyncTypeOK'
    BY <1>5, <1>6, <1>7 DEF Hear, SyncTypeOK, masterVars
  <1>9. StampsInOrder'
    BY <1>6 DEF StampsInOrder
  <1>10. WithinHalfRoundTrip'
    <2> SUFFICES ASSUME NEW i \in 1 .. Len(taken')
                 PROVE  2 * Distance(taken'[i].offset, taken'[i].skew) <= taken'[i].rtt + 1
      BY DEF WithinHalfRoundTrip, Samples, Error
    <2>1. CASE i = Len(taken')
      BY <1>3, <1>5, <2>1
    <2>2. CASE i # Len(taken')
      <3>1. i \in 1 .. Len(taken)
        BY <1>5, <2>2 DEF SyncTypeOK
      <3> QED
        BY <1>5, <3>1 DEF WithinHalfRoundTrip, Samples, Error
    <2> QED
      BY <2>1, <2>2
  <1> QED
    BY <1>8, <1>9, <1>10

LEMMA RestartPreserves ==
    ASSUME SyncInv, Restart
    PROVE  SyncInv'
  <1> USE DEF SyncInv
  <1>1. net' \subseteq net
    BY DEF Restart
  <1>2. SyncTypeOK'
    BY <1>1, SyncAssumption DEF Restart, SyncTypeOK, followerVars
  <1>3. StampsInOrder'
    BY <1>1 DEF StampsInOrder
  <1>4. WithinHalfRoundTrip'
    BY DEF Restart, followerVars, WithinHalfRoundTrip, Samples, Error
  <1> QED
    BY <1>2, <1>3, <1>4

LEMMA StepsPreserve ==
    ASSUME SyncInv, [Next]_vars
    PROVE  SyncInv'
  <1>1. CASE UNCHANGED vars
    <2>1. SyncTypeOK'
      BY <1>1 DEF SyncInv, SyncTypeOK, vars, masterVars, followerVars
    <2>2. StampsInOrder'
      BY <1>1 DEF SyncInv, StampsInOrder, Ordered, vars
    <2>3. WithinHalfRoundTrip'
      BY <1>1 DEF SyncInv, WithinHalfRoundTrip, Samples, Error, vars, followerVars
    <2> QED
      BY <2>1, <2>2, <2>3 DEF SyncInv
  <1>2. CASE Next
    BY <1>2, TickPreserves, AskPreserves, AnswerPreserves, FindPreserves, HearPreserves,
       RestartPreserves DEF Next
  <1> QED
    BY <1>1, <1>2

\* The variables of master and follower keep their types, and the statistics have
\* seen every sample taken.
THEOREM SyncTypeCorrect == Spec => []SyncTypeOK
  <1>1. SyncInv => SyncTypeOK
    BY DEF SyncInv
  <1> QED
    BY <1>1, InitEstablishes, StepsPreserve, PTL DEF Spec

\* Whatever the delays, intervals, clocks and faults, every sample taken is wrong by
\* no more than half its round trip, but for the division's rounding.
THEOREM SamplesWithinHalfRoundTrip == Spec => []WithinHalfRoundTrip
  <1>1. SyncInv => WithinHalfRoundTrip
    BY DEF SyncInv
  <1> QED
    BY <1>1, InitEstablishes, StepsPreserve, PTL DEF Spec

\* An answer that arrives has a natural round trip, so that the guard against a
\* negative one never discards a sample (sync.rs on_datagram).
NoneDiscarded == \A m \in net : m.type = "SYNC_RESP" => RoundTrip(m) >= 0

\* Within one run of both clocks at one rate the guard against a negative round trip
\* is never needed.
THEOREM NoRoundTripIsNegative == Spec => []NoneDiscarded
  <1>1. SyncInv => NoneDiscarded
    <2> SUFFICES ASSUME SyncInv, NEW m \in net, m.type = "SYNC_RESP"
                 PROVE  RoundTrip(m) >= 0
      BY DEF NoneDiscarded
    <2>1. m \in Answers
      BY DEF SyncInv, SyncTypeOK, Ticks, Requests, Answers
    <2>2. Ordered(m)
      BY DEF SyncInv, StampsInOrder
    <2> QED
      BY <2>1, <2>2, Sample
  <1> QED
    BY <1>1, InitEstablishes, StepsPreserve, PTL DEF Spec

------------------------------------------------------------------------------
(***************************************************************************)
(* The filter.                                                             *)
(***************************************************************************)
Sampled == [rtt : Nat, offset : Int, skew : Int]

\* The least and the greatest of a set, once one is known.
LEMMA LeastOf ==
    ASSUME NEW S, S \subseteq Int, NEW m \in S, \A y \in S : m <= y
    PROVE  Min(S) = m
  <1>1. Min(S) \in S /\ \A y \in S : Min(S) <= y
    BY DEF Min
  <1>2. Min(S) <= m /\ m <= Min(S) /\ Min(S) \in Int /\ m \in Int
    BY <1>1
  <1> QED
    BY <1>2

LEMMA GreatestOf ==
    ASSUME NEW S, S \subseteq Int, NEW m \in S, \A y \in S : y <= m
    PROVE  Max(S) = m
  <1>1. Max(S) \in S /\ \A y \in S : Max(S) >= y
    BY DEF Max
  <1>2. Max(S) <= m /\ m <= Max(S) /\ Max(S) \in Int /\ m \in Int
    BY <1>1
  <1> QED
    BY <1>2

\* The statistics have the least round trip and the survivors of the samples so
\* far, and the last of the survivors.
FilterInv ==
    /\ \A i \in Samples : MinRtt(i) \in Nat
    /\ taken = << >> => samples.min_rtt = I64_MAX /\ samples.n_kept = 0
    /\ taken # << >> =>
           /\ samples.min_rtt \in {taken[i].rtt : i \in Samples}
           /\ \A i \in Samples : samples.min_rtt <= taken[i].rtt
           /\ samples.n_kept = Cardinality(Survivors)
           /\ 1 \in Survivors
           /\ \E s \in Survivors :
                  /\ \A i \in Survivors : i <= s
                  /\ samples.kept.last = taken[s].offset

\* What the filter was is no other when a sample is added.
LEMMA SoFar ==
    ASSUME taken \in Seq(Sampled), NEW s \in Sampled, taken' = Append(taken, s)
    PROVE  /\ Len(taken) \in Nat /\ Len(taken') = Len(taken) + 1
           /\ taken' # << >>
           /\ \A i \in Samples : taken'[i] = taken[i]
           /\ taken'[Len(taken) + 1] = s
           /\ \A i \in Samples : MinRtt(i)' = MinRtt(i)
  <1>1. /\ Len(taken) \in Nat /\ Len(taken') = Len(taken) + 1 /\ taken' # << >>
        /\ \A i \in 1 .. Len(taken) : taken'[i] = taken[i]
        /\ taken'[Len(taken) + 1] = s
    OBVIOUS
  <1>2. ASSUME NEW i \in Samples PROVE MinRtt(i)' = MinRtt(i)
    <2>1. \A j \in 1 .. i : taken'[j] = taken[j]
      BY <1>1, <1>2 DEF Samples
    <2>2. {taken'[j].rtt : j \in 1 .. i} = {taken[j].rtt : j \in 1 .. i}
      BY <2>1
    <2> QED
      BY <2>2 DEF MinRtt
  <1> QED
    BY <1>1, <1>2 DEF Samples

\* A product grows with its factors.
LEMMA Scaled ==
    /\ \A x \in Int, y \in Int, m \in Nat : x <= y => x * m <= y * m
    /\ \A x \in Nat, m \in Nat, n \in Nat : m <= n => x * m <= x * n
  <1>1. ASSUME NEW x \in Int, NEW y \in Int, NEW m \in Nat, x <= y
        PROVE  x * m <= y * m
    <2>1. PICK d \in Nat : y = x + d
      <3>1. y - x \in Nat /\ y = x + (y - x)
        BY <1>1
      <3> QED
        BY <3>1
    <2>2. d * m \in Nat /\ (x + d) * m = (x * m) + (d * m)
      OBVIOUS
    <2> QED
      BY <2>1, <2>2
  <1>2. ASSUME NEW x \in Nat, NEW m \in Nat, NEW n \in Nat, m <= n
        PROVE  x * m <= x * n
    <2>1. m * x <= n * x /\ m * x = x * m /\ n * x = x * n
      BY <1>1, <1>2
    <2> QED
      BY <2>1
  <1> QED
    BY <1>1, <1>2

LEMMA LeastOfFew ==
    ASSUME NEW a \in Nat, NEW b \in Nat
    PROVE  /\ Min({a}) = a
           /\ Min({a, b}) = IF b <= a THEN b ELSE a
  <1>1. Min({a}) = a
    <2>1. {a} \subseteq Int /\ a \in {a} /\ \A y \in {a} : a <= y
      OBVIOUS
    <2> QED
      BY <2>1, LeastOf
  <1> DEFINE least == IF b <= a THEN b ELSE a
  <1>2. {a, b} \subseteq Int /\ least \in {a, b} /\ \A y \in {a, b} : least <= y
    OBVIOUS
  <1> HIDE DEF least
  <1>3. Min({a, b}) = least
    BY <1>2, LeastOf
  <1> QED
    BY <1>1, <1>3 DEF least

\* The statistics' least round trip is that of the samples.
LEMMA LeastSoFar ==
    ASSUME SyncTypeOK, FilterInv, NEW s \in Sampled, s.rtt <= I64_MAX,
           taken' = Append(taken, s), samples'.min_rtt = Min({samples.min_rtt, s.rtt})
    PROVE  /\ samples'.min_rtt \in {taken'[i].rtt : i \in 1 .. Len(taken')}
           /\ \A i \in 1 .. Len(taken') : samples'.min_rtt <= taken'[i].rtt
           /\ samples'.min_rtt = Min({taken'[i].rtt : i \in 1 .. Len(taken')})
           /\ samples'.min_rtt \in Nat
  <1> DEFINE n == Len(taken)
             old == samples.min_rtt
             new == samples'.min_rtt
             S == {taken'[i].rtt : i \in 1 .. n + 1}
  <1>1. /\ n \in Nat /\ Len(taken') = n + 1
        /\ \A i \in 1 .. n : taken'[i] = taken[i]
        /\ taken'[n + 1] = s
        /\ taken \in Seq(Sampled) /\ s.rtt \in Nat
    BY SoFar DEF SyncTypeOK, Sampled, Samples
  <1>2. \A i \in 1 .. n : taken[i] \in Sampled
    BY <1>1
  <1>3. \A i \in 1 .. n : taken[i].rtt \in Nat
    BY <1>2 DEF Sampled
  <1>4. old \in Nat
    BY <1>1, <1>3, StatsAssumption DEF FilterInv, Samples
  <1>5. new = IF s.rtt <= old THEN s.rtt ELSE old
    BY <1>1, <1>4, LeastOfFew
  <1> HIDE DEF n, old, new
  <1>6. ASSUME new \in S, \A i \in 1 .. n + 1 : new <= taken'[i].rtt
        PROVE  Min(S) = new
    <2>1. \A i \in 1 .. n + 1 : taken'[i].rtt \in Int
      BY <1>1, <1>3
    <2>2. S \subseteq Int /\ \A y \in S : new <= y
      BY <1>6, <2>1
    <2> HIDE DEF S
    <2> QED
      BY <1>6, <2>2, LeastOf
  <1>7. new \in Nat /\ new \in S /\ \A i \in 1 .. n + 1 : new <= taken'[i].rtt
    <2>1. CASE taken = << >>
      <3>1. n = 0 /\ new = s.rtt
        BY <1>1, <1>4, <1>5, <2>1, StatsAssumption DEF FilterInv, n, old
      <3> QED
        BY <1>1, <3>1
    <2>2. CASE taken # << >>
      <3>1. old \in {taken[i].rtt : i \in 1 .. n} /\ \A i \in 1 .. n : old <= taken[i].rtt
        BY <2>2 DEF FilterInv, Samples, n, old
      <3>2. \A i \in 1 .. n + 1 : new <= taken'[i].rtt
        BY <1>1, <1>3, <1>4, <1>5, <3>1
      <3>3. new \in S
        BY <1>1, <1>5, <3>1
      <3> QED
        BY <1>1, <1>4, <1>5, <3>2, <3>3
    <2> QED
      BY <2>1, <2>2
  <1>8. Min(S) = new
    BY <1>6, <1>7
  <1> QED
    BY <1>1, <1>7, <1>8 DEF new

\* What an added sample does to the survivors.
LEMMA SurvivorsGrow ==
    ASSUME SyncTypeOK, FilterInv, NEW s \in Sampled, s.rtt <= I64_MAX,
           taken' = Append(taken, s), samples'.min_rtt = Min({samples.min_rtt, s.rtt})
    PROVE  Survivors' = Survivors \cup
               (IF Passes(s.rtt, samples'.min_rtt) THEN {Len(taken) + 1} ELSE {})
  <1>1. PICK n \in Nat : n = Len(taken)
    BY DEF SyncTypeOK
  <1>2. /\ Len(taken') = n + 1
        /\ \A i \in 1 .. n : taken'[i] = taken[i]
        /\ taken'[n + 1] = s
        /\ \A i \in 1 .. n : MinRtt(i)' = MinRtt(i)
    BY <1>1, SoFar DEF SyncTypeOK, Sampled, Samples
  <1>3. MinRtt(n + 1)' = samples'.min_rtt
    BY <1>2, LeastSoFar DEF MinRtt
  <1>4. Survivors' = {i \in 1 .. n + 1 :
                         taken'[i].rtt * RTT_TOLERANCE_DEN <= MinRtt(i)' * RTT_TOLERANCE_NUM}
    BY <1>2 DEF Survivors, Samples
  <1>5. Survivors = {i \in 1 .. n :
                         taken[i].rtt * RTT_TOLERANCE_DEN <= MinRtt(i) * RTT_TOLERANCE_NUM}
    BY <1>1 DEF Survivors, Samples
  <1>6. \A i \in 1 .. n : i \in 1 .. n + 1
    BY <1>1
  <1>7. ASSUME NEW i \in 1 .. n PROVE i \in Survivors' <=> i \in Survivors
    BY <1>2, <1>4, <1>5, <1>6, <1>7
  <1>8. n + 1 \in Survivors' <=> Passes(s.rtt, samples'.min_rtt)
    <2>1. n + 1 \in 1 .. n + 1
      BY <1>1
    <2>2. n + 1 \in Survivors' <=>
              taken'[n + 1].rtt * RTT_TOLERANCE_DEN <= MinRtt(n + 1)' * RTT_TOLERANCE_NUM
      BY <1>4, <2>1
    <2> QED
      BY <1>2, <1>3, <2>2 DEF Passes
  <1>9. Survivors \subseteq 1 .. n /\ Survivors' \subseteq 1 .. n + 1
    BY <1>4, <1>5
  <1>10. \A i \in 1 .. n + 1 : i \in 1 .. n \/ i = n + 1
    BY <1>1
  <1> QED
    BY <1>1, <1>7, <1>8, <1>9, <1>10

\* What add() does to what the filter keeps.
LEMMA Filtered ==
    ASSUME NEW t, NEW rtt, NEW offset, samples' = Add(samples, t, rtt, offset)
    PROVE  /\ samples'.min_rtt = Min({samples.min_rtt, rtt})
           /\ samples'.n_kept = IF Passes(rtt, samples'.min_rtt)
                                THEN samples.n_kept + 1 ELSE samples.n_kept
           /\ samples'.kept = IF Passes(rtt, samples'.min_rtt)
                              THEN Follow(samples.kept, offset) ELSE samples.kept
  BY DEF Add

\* A track ends in what it followed last.
LEMMA Followed ==
    ASSUME NEW track, NEW value
    PROVE  Follow(track, value).last = value
  BY DEF Follow

LEMMA FilterAdd ==
    ASSUME SyncTypeOK, FilterInv, NEW s \in Sampled, s.rtt <= I64_MAX,
           taken' = Append(taken, s), NEW t, samples' = Add(samples, t, s.rtt, s.offset)
    PROVE  FilterInv'
  <1>1. PICK n \in Nat : n = Len(taken)
    BY DEF SyncTypeOK
  <1>2. /\ Len(taken') = n + 1 /\ taken' # << >>
        /\ \A i \in 1 .. n : taken'[i] = taken[i]
        /\ taken'[n + 1] = s
    BY <1>1, SoFar DEF SyncTypeOK, Sampled, Samples
  <1>3. /\ samples'.min_rtt = Min({samples.min_rtt, s.rtt})
        /\ samples'.n_kept = IF Passes(s.rtt, samples'.min_rtt)
                             THEN samples.n_kept + 1 ELSE samples.n_kept
        /\ samples'.kept = IF Passes(s.rtt, samples'.min_rtt)
                           THEN Follow(samples.kept, s.offset) ELSE samples.kept
    BY Filtered
  <1>4. /\ samples'.min_rtt \in {taken'[i].rtt : i \in Samples'}
        /\ \A i \in Samples' : samples'.min_rtt <= taken'[i].rtt
        /\ samples'.min_rtt \in Nat
    BY <1>3, LeastSoFar DEF Samples
  <1>5. Survivors' = Survivors \cup
            (IF Passes(s.rtt, samples'.min_rtt) THEN {n + 1} ELSE {})
    BY <1>1, <1>3, SurvivorsGrow
  <1>6. Survivors \subseteq 1 .. n /\ n + 1 \notin Survivors
        /\ IsFiniteSet(Survivors) /\ Cardinality(Survivors) \in Nat
    <2>1. Survivors \subseteq 1 .. n
      BY <1>1 DEF Survivors, Samples
    <2>2. IsFiniteSet(1 .. n) /\ n + 1 \notin 1 .. n
      BY <1>1, FS_Interval
    <2>3. IsFiniteSet(Survivors)
      BY <2>1, <2>2, FS_Subset
    <2> QED
      BY <2>1, <2>2, <2>3, FS_CardinalityType
  <1>7. Cardinality(Survivors \cup {n + 1}) = Cardinality(Survivors) + 1
    BY <1>6, FS_AddElement
  <1> DEFINE Typed == \A i \in Samples' : MinRtt(i)' \in Nat
  <1>8. Typed
    <2>1. \A i \in 1 .. n : MinRtt(i)' = MinRtt(i) /\ MinRtt(i) \in Nat
      BY <1>1, SoFar DEF SyncTypeOK, Sampled, Samples, FilterInv
    <2>2. MinRtt(n + 1)' = samples'.min_rtt
      BY <1>2, <1>3, LeastSoFar DEF MinRtt
    <2>3. Samples' = 1 .. n + 1
      BY <1>2 DEF Samples
    <2>4. \A i \in 1 .. n + 1 : i \in 1 .. n \/ i = n + 1
      BY <1>1
    <2> QED
      BY <1>4, <2>1, <2>2, <2>3, <2>4
  <1> HIDE DEF Typed
  <1>9. SUFFICES /\ samples'.n_kept = Cardinality(Survivors')
                 /\ 1 \in Survivors'
                 /\ \E k \in Survivors' :
                        /\ \A i \in Survivors' : i <= k
                        /\ samples'.kept.last = taken'[k].offset
    BY <1>2, <1>4, <1>8 DEF FilterInv, Typed
  <1>10. CASE Passes(s.rtt, samples'.min_rtt)
    <2>1. Survivors' = Survivors \cup {n + 1}
      BY <1>5, <1>10
    <2>2. samples'.n_kept = Cardinality(Survivors')
      <3>1. samples.n_kept = Cardinality(Survivors)
        <4>1. CASE taken = << >>
          <5>1. Survivors = {}
            BY <1>1, <1>6, <4>1
          <5> QED
            BY <4>1, <5>1, FS_EmptySet DEF FilterInv
        <4>2. CASE taken # << >>
          BY <4>2 DEF FilterInv
        <4> QED
          BY <4>1, <4>2
      <3> QED
        BY <1>3, <1>7, <1>10, <2>1, <3>1
    <2>3. 1 \in Survivors'
      <3>1. CASE taken = << >>
        BY <1>1, <2>1, <3>1
      <3>2. CASE taken # << >>
        BY <2>1, <3>2 DEF FilterInv
      <3> QED
        BY <3>1, <3>2
    <2>4. samples'.kept.last = taken'[n + 1].offset
      BY <1>2, <1>3, <1>10, Followed
    <2>5. n + 1 \in Survivors' /\ \A i \in Survivors' : i <= n + 1
      BY <1>1, <1>6, <2>1
    <2> QED
      BY <2>2, <2>3, <2>4, <2>5
  <1>11. CASE ~Passes(s.rtt, samples'.min_rtt)
    <2>1. Survivors' = Survivors
      BY <1>5, <1>11
    <2>2. samples'.n_kept = samples.n_kept /\ samples'.kept = samples.kept
      BY <1>3, <1>11
    <2>3. taken # << >>
      <3>1. SUFFICES ASSUME taken = << >> PROVE FALSE
        OBVIOUS
      <3>2. s.rtt \in Nat /\ samples'.min_rtt = s.rtt
        <4>1. s.rtt \in Nat /\ n = 0 /\ I64_MAX \in Nat /\ samples.min_rtt = I64_MAX
          BY <1>1, <3>1, StatsAssumption DEF FilterInv, Sampled
        <4> QED
          BY <1>3, <4>1, LeastOfFew
      <3>3. s.rtt * RTT_TOLERANCE_DEN <= s.rtt * RTT_TOLERANCE_NUM
        BY <3>2, StatsAssumption, Scaled
      <3> QED
        BY <1>11, <3>2, <3>3 DEF Passes
    <2>4. PICK k \in Survivors :
              /\ \A i \in Survivors : i <= k
              /\ samples.kept.last = taken[k].offset
      BY <2>3 DEF FilterInv
    <2>5. taken'[k] = taken[k]
      BY <1>2, <1>6, <2>4
    <2>6. samples'.n_kept = Cardinality(Survivors') /\ 1 \in Survivors'
      BY <2>1, <2>2, <2>3 DEF FilterInv
    <2> QED
      BY <2>1, <2>2, <2>4, <2>5, <2>6
  <1> QED
    BY <1>10, <1>11

LEMMA FilterInit == Init => FilterInv
  <1> SUFFICES ASSUME Init PROVE FilterInv
    OBVIOUS
  <1>1. taken = << >> /\ Samples = {}
    BY DEF Init, Samples
  <1>2. samples.min_rtt = I64_MAX /\ samples.n_kept = 0
    BY DEF Init, NewSamples
  <1> QED
    BY <1>1, <1>2 DEF FilterInv

LEMMA FilterNext ==
    ASSUME SyncInv, FilterInv, [Next]_vars
    PROVE  FilterInv'
  <1>1. ASSUME UNCHANGED <<samples, taken>> PROVE FilterInv'
    <2>1. /\ Samples' = Samples
          /\ \A i \in Samples : MinRtt(i)' = MinRtt(i)
      BY <1>1 DEF Samples, MinRtt
    <2>2. Survivors' = Survivors
      BY <1>1, <2>1 DEF Survivors
    <2> QED
      BY <1>1, <2>1, <2>2 DEF FilterInv
  <1>2. CASE Tick \/ Ask \/ Restart \/ (\E m \in net : Answer(m) \/ Find(m)) \/ UNCHANGED vars
    BY <1>1, <1>2 DEF Tick, Ask, Restart, Answer, Find, vars, followerVars
  <1>3. ASSUME NEW m \in net, Hear(m) PROVE FilterInv'
    <2> DEFINE s == [rtt |-> RoundTrip(m), offset |-> Offset(m), skew |-> m.skew]
    <2>1. m \in Answers /\ Ordered(m)
      BY <1>3 DEF SyncInv, StampsInOrder, Hear, SyncTypeOK, Ticks, Requests, Answers
    <2>2. RoundTrip(m) \in Nat /\ Offset(m) \in Int /\ m.skew \in Int
      BY <2>1, Sample DEF Answers
    <2>3. s.rtt <= I64_MAX
      <3>1. m.at \in Nat /\ m.t1 \in Nat /\ m.t2 \in Int /\ m.t3 \in Int /\ m.t2 <= m.t3
        BY <2>1 DEF Ordered, Answers
      <3>2. RoundTrip(m) <= m.at
        BY <3>1 DEF RoundTrip
      <3>3. m.at <= I64_MAX
        BY <1>3, <3>1, SyncAssumption, StatsAssumption DEF Hear, At
      <3> QED
        BY <2>2, <3>1, <3>2, <3>3, StatsAssumption
    <2>4. taken' = Append(taken, s) /\ samples' = Add(samples, m.at, s.rtt, s.offset)
      BY <1>3, <2>2 DEF Hear
    <2>5. s \in Sampled
      BY <2>2 DEF Sampled
    <2> HIDE DEF s
    <2> QED
      BY <2>3, <2>4, <2>5, FilterAdd DEF SyncInv
  <1> QED
    BY <1>2, <1>3 DEF Next

\* The filter keeps exactly the quick samples, and what it keeps last is right to
\* within the tolerance, at every tolerance, delay and clock and with any number of
\* faults.
THEOREM FilterKeepsTheQuickHolds == Spec => []FilterKeepsTheQuick
  <1> DEFINE I == SyncInv /\ FilterInv
  <1>1. Init => I
    BY InitEstablishes, FilterInit
  <1>2. I /\ [Next]_vars => I'
    BY StepsPreserve, FilterNext
  <1>3. I => FilterKeepsTheQuick
    <2> SUFFICES ASSUME I, Len(taken) > 0 PROVE FilterKeepsTheQuick
      BY DEF FilterKeepsTheQuick
    <2>1. /\ samples.n_kept = Cardinality(Survivors) /\ 1 \in Survivors
      BY DEF FilterInv
    <2>2. PICK k \in Survivors :
              /\ \A i \in Survivors : i <= k
              /\ samples.kept.last = taken[k].offset
      BY DEF FilterInv
    <2>3. Survivors \subseteq Int /\ k \in Samples
      BY DEF Survivors, Samples
    <2>4. Max(Survivors) = k
      BY <2>2, <2>3, GreatestOf
    <2>5. taken[k] \in Sampled
      <3>1. taken \in Seq(Sampled) /\ k \in 1 .. Len(taken)
        BY <2>3 DEF SyncInv, SyncTypeOK, Sampled, Samples
      <3> QED
        BY <3>1
    <2>6. Error(k) \in Int /\ Error(k) - 1 <= taken[k].rtt /\ taken[k].rtt \in Nat
      BY <2>3, <2>5 DEF SyncInv, WithinHalfRoundTrip, Error, Distance, Sampled
    <2>7. (Error(k) - 1) * RTT_TOLERANCE_DEN <= taken[k].rtt * RTT_TOLERANCE_DEN
      BY <2>6, StatsAssumption, Scaled
    <2>8. taken[k].rtt * RTT_TOLERANCE_DEN <= MinRtt(k) * RTT_TOLERANCE_NUM
      BY DEF Survivors
    <2>9. MinRtt(k) \in Nat
      BY <2>3 DEF FilterInv
    <2>10. /\ (Error(k) - 1) * RTT_TOLERANCE_DEN \in Int
           /\ taken[k].rtt * RTT_TOLERANCE_DEN \in Int
           /\ MinRtt(k) * RTT_TOLERANCE_NUM \in Int
      BY <2>6, <2>9, StatsAssumption
    <2>11. (Error(k) - 1) * RTT_TOLERANCE_DEN <= MinRtt(k) * RTT_TOLERANCE_NUM
      BY <2>7, <2>8, <2>10
    <2> QED
      BY <2>1, <2>2, <2>4, <2>11 DEF FilterKeepsTheQuick
  <1> QED
    BY <1>1, <1>2, <1>3, PTL DEF Spec

------------------------------------------------------------------------------
(***************************************************************************)
(* The bursts.  What is said of one is said of its state b, its length n   *)
(* and the samples s that it has been given.                               *)
(***************************************************************************)
Exchanges == [rtt : Nat, offset : Int]

\* q is the first of the quickest exchanges of s among those of in.
Quickest(q, in, s) ==
    /\ \E i \in in :
           /\ q.rtt = s[i].rtt /\ q.offset = s[i].offset
           /\ \A j \in in : j < i => q.rtt < s[j].rtt
    /\ \A j \in in : q.rtt <= s[j].rtt

\* The samples that its open window holds.
Open(b, n, s) == (b.windows * n) + 1 .. Len(s)

\* A burst has its fields and no others.
Fields(b) ==
    b = [best |-> b.best, median |-> b.median, residual |-> b.residual,
         worst_residual |-> b.worst_residual, window |-> b.window, pending |-> b.pending,
         previous |-> b.previous, first |-> b.first, windows |-> b.windows]


\* A burst is between two windows or within one, of whose samples it holds the
\* quickest, and its estimate is the quickest of its last whole window.
InStep(b, n, s) ==
    /\ Fields(b) /\ b.windows \in Nat /\ b.window \in Seq(Int) /\ Len(b.window) < n
    /\ Len(s) = (b.windows * n) + Len(b.window)
OpenQuickest(b, n, s) ==
    IF b.window = << >> THEN b.pending = None
    ELSE b.pending \in Exchanges /\ Quickest(b.pending, Open(b, n, s), s)
LastQuickest(b, n, s) ==
    b.windows > 0 =>
        \E q \in Exchanges : b.best.last = q.offset /\ Quickest(q, Window(n, b.windows), s)
BurstOK(b, n, s) == InStep(b, n, s) /\ OpenQuickest(b, n, s) /\ LastQuickest(b, n, s)

\* The numbers of a burst, typed once.
LEMMA BurstCounts ==
    ASSUME NEW b, NEW n \in Nat \ {0}, NEW s \in Seq(Sampled), InStep(b, n, s)
    PROVE  /\ b.windows * n \in Nat /\ Len(b.window) \in Nat /\ Len(s) \in Nat
           /\ b.windows * n <= Len(s)
           /\ (b.windows + 1) * n = (b.windows * n) + n
           /\ ((b.windows + 1) - 1) * n = b.windows * n
  <1>1. b.windows \in Nat /\ Len(b.window) \in Nat /\ Len(s) \in Nat
    BY DEF InStep
  <1>2. b.windows * n \in Nat /\ (b.windows + 1) * n = (b.windows * n) + n
    BY <1>1
  <1>3. (b.windows + 1) - 1 = b.windows
    BY <1>1
  <1> QED
    BY <1>1, <1>2, <1>3 DEF InStep

\* An offset more in a window.
LEMMA OneOffsetMore ==
    ASSUME NEW w \in Seq(Int), NEW x \in Int
    PROVE  Append(w, x) \in Seq(Int) /\ Len(Append(w, x)) = Len(w) + 1 /\ Append(w, x) # << >>
  <1>1. Append(w, x) \in Seq(Int)
    OBVIOUS
  <1>2. Len(Append(w, x)) = Len(w) + 1 /\ Len(w) \in Nat
    OBVIOUS
  <1>3. Len(Append(w, x)) # 0
    BY <1>2
  <1> QED
    BY <1>1, <1>2, <1>3

\* A sample more does not change those before it.
LEMMA OneMore ==
    ASSUME NEW s \in Seq(Sampled), NEW e \in Sampled, NEW u, u = Append(s, e)
    PROVE  /\ u \in Seq(Sampled) /\ Len(s) \in Nat /\ Len(u) = Len(s) + 1
           /\ u[Len(s) + 1] = e
           /\ \A i \in 1 .. Len(s) : u[i] = s[i] /\ s[i] \in Sampled
  OBVIOUS

\* The quickest of a window and of one sample more.
LEMMA Quickened ==
    ASSUME NEW b, NEW n \in Nat \ {0}, NEW s \in Seq(Sampled), BurstOK(b, n, s),
           NEW e \in Sampled, NEW u, u = Append(s, e),
           NEW q, q = Quicker(b.pending, e.rtt, e.offset)
    PROVE  q \in Exchanges /\ Quickest(q, (b.windows * n) + 1 .. Len(u), u)
  <1> DEFINE lo == (b.windows * n) + 1
             m == Len(s)
  <1>1. /\ lo \in Nat /\ m \in Nat /\ Len(b.window) \in Nat /\ 1 <= lo
        /\ lo <= m + 1 /\ m + 1 = lo + Len(b.window)
    <2>1. PICK whole \in Nat : whole = b.windows * n
      BY BurstCounts DEF BurstOK
    <2>2. m \in Nat /\ Len(b.window) \in Nat /\ m = whole + Len(b.window) /\ lo = whole + 1
      BY <2>1, BurstCounts DEF BurstOK, InStep
    <2> QED
      BY <2>1, <2>2
  <1>2. /\ Len(u) = m + 1 /\ u[m + 1] = e
        /\ \A i \in 1 .. m : u[i] = s[i] /\ s[i] \in Sampled
    BY OneMore
  <1>3. e.rtt \in Nat /\ e.offset \in Int
    BY DEF Sampled
  <1>4. \A i \in lo .. m + 1 : i \in lo .. m \/ i = m + 1
    BY <1>1
  <1>5. \A i \in lo .. m : i \in 1 .. m /\ i \in lo .. m + 1
    BY <1>1
  <1>6. m + 1 \in lo .. m + 1
    BY <1>1
  <1> DEFINE fresh == [rtt |-> e.rtt, offset |-> e.offset]
  <1>7. fresh \in Exchanges /\ fresh.rtt = e.rtt /\ fresh.offset = e.offset
    BY <1>3 DEF Exchanges
  <1>8. CASE b.window = << >>
    <2>1. b.pending = None /\ lo = m + 1
      BY <1>1, <1>8 DEF BurstOK, OpenQuickest
    <2>2. q = fresh
      BY <2>1 DEF Quicker
    <2>3. \A i \in lo .. m + 1 : i = m + 1
      BY <1>1, <2>1
    <2> HIDE DEF lo, m, fresh
    <2>4. Quickest(q, lo .. m + 1, u)
      BY <1>2, <1>3, <1>6, <1>7, <2>2, <2>3 DEF Quickest
    <2> QED
      BY <1>2, <1>7, <2>2, <2>4 DEF lo
  <1>9. CASE b.window # << >>
    <2>1. b.pending \in Exchanges /\ Quickest(b.pending, lo .. m, s)
      BY <1>9 DEF BurstOK, OpenQuickest, Open
    <2>2. b.pending # None /\ b.pending.rtt \in Nat
      BY <2>1, StatsAssumption DEF Exchanges
    <2>3. q = IF e.rtt < b.pending.rtt THEN fresh ELSE b.pending
      BY <2>2 DEF Quicker
    <2> HIDE DEF lo, m, fresh
    <2>4. PICK i \in lo .. m :
              /\ b.pending.rtt = s[i].rtt /\ b.pending.offset = s[i].offset
              /\ \A j \in lo .. m : j < i => b.pending.rtt < s[j].rtt
      BY <2>1 DEF Quickest
    <2>5. \A j \in lo .. m : b.pending.rtt <= s[j].rtt /\ u[j] = s[j] /\ s[j].rtt \in Nat
      BY <1>2, <1>5, <2>1 DEF Quickest, Sampled
    <2>6. CASE e.rtt < b.pending.rtt
      <3>1. q = fresh /\ q.rtt = e.rtt
        BY <1>7, <2>3, <2>6
      <3>2. ASSUME NEW j \in lo .. m + 1 PROVE q.rtt <= u[j].rtt
        <4>1. CASE j \in lo .. m
          <5>1. PICK x \in Nat : x = u[j].rtt /\ b.pending.rtt <= x
            BY <2>5, <4>1
          <5>2. PICK y \in Nat : y = b.pending.rtt
            BY <2>2
          <5>3. PICK z \in Nat : z = e.rtt
            BY <1>3
          <5>4. z < y
            BY <2>6, <5>2, <5>3
          <5>5. y <= x
            BY <5>1, <5>2
          <5>6. z <= x
            BY <5>4, <5>5
          <5> QED
            BY <3>1, <5>1, <5>3, <5>6
        <4>2. CASE j = m + 1
          BY <1>2, <1>3, <1>7, <2>2, <2>6, <3>1, <4>2
        <4> QED
          BY <1>4, <4>1, <4>2
      <3>3. ASSUME NEW j \in lo .. m + 1, j < m + 1 PROVE q.rtt < u[j].rtt
        <4>1. j \in lo .. m
          BY <1>1, <1>4, <3>3
        <4>2. u[j].rtt \in Nat /\ b.pending.rtt <= u[j].rtt
          BY <2>5, <4>1
        <4>3. PICK x \in Nat, y \in Nat, z \in Nat :
                  x = u[j].rtt /\ y = b.pending.rtt /\ z = e.rtt
          BY <1>3, <2>2, <4>2
        <4>4. z < y /\ y <= x
          BY <2>6, <4>2, <4>3
        <4>5. z < x
          BY <4>4
        <4> QED
          BY <3>1, <4>3, <4>5
      <3>4. Quickest(q, lo .. m + 1, u)
        BY <1>2, <1>6, <1>7, <3>1, <3>2, <3>3 DEF Quickest
      <3> QED
        BY <1>2, <1>7, <3>1, <3>4 DEF lo
    <2>7. CASE ~(e.rtt < b.pending.rtt)
      <3>1. q = b.pending
        BY <2>3, <2>7
      <3>2. ASSUME NEW j \in lo .. m + 1 PROVE q.rtt <= u[j].rtt
        <4>1. CASE j \in lo .. m
          <5>1. u[j].rtt \in Nat /\ b.pending.rtt <= u[j].rtt
            BY <2>5, <4>1
          <5> QED
            BY <1>3, <1>7, <2>2, <2>7, <3>1, <5>1
        <4>2. CASE j = m + 1
          BY <1>2, <1>3, <1>7, <2>2, <2>7, <3>1, <4>2
        <4> QED
          BY <1>4, <4>1, <4>2
      <3>3. ASSUME NEW j \in lo .. m + 1, j < i PROVE q.rtt < u[j].rtt
        <4>1. j \in lo .. m
          BY <1>1, <1>4, <3>3
        <4> QED
          BY <2>4, <2>5, <3>1, <3>3, <4>1
      <3>4. Quickest(q, lo .. m + 1, u)
        BY <1>5, <2>4, <2>5, <3>1, <3>2, <3>3 DEF Quickest
      <3> QED
        BY <1>2, <2>1, <3>1, <3>4 DEF lo
    <2> QED
      BY <2>6, <2>7
  <1> QED
    BY <1>8, <1>9

\* An open window with one sample more.
Filled(b, q, window) == [b EXCEPT !.pending = q, !.window = window]

\* What is left of a burst whose window and quickest exchange are others.
LEMMA Changed ==
    ASSUME NEW b, Fields(b), NEW q, NEW window,
           NEW c, c = Filled(b, q, window)
    PROVE  c = [best |-> b.best, median |-> b.median, residual |-> b.residual,
                worst_residual |-> b.worst_residual, window |-> window, pending |-> q,
                previous |-> b.previous, first |-> b.first, windows |-> b.windows]
  BY DEF Fields, Filled

\* What a window and its quickest exchange make of a burst, if it is whole or not.
Becomes(b, n, q, window, c) ==
    /\ Len(window) < n =>
           /\ Fields(c) /\ c.windows = b.windows /\ c.window = window /\ c.pending = q
           /\ c.best = b.best /\ c.median = b.median /\ c.previous = b.previous
           /\ c.residual = b.residual /\ c.worst_residual = b.worst_residual
    /\ ~(Len(window) < n) =>
           /\ Fields(c) /\ c.windows = b.windows + 1 /\ c.window = << >> /\ c.pending = None
           /\ c.best = Follow(b.best, q.offset)
           /\ c.median = Follow(b.median, Median(window))
           /\ c.previous = b.best.last
           /\ IF b.best.last # None /\ b.previous # None
              THEN /\ c.residual = Bump(b.residual, Residual(b, q.offset))
                   /\ c.worst_residual = Max({b.worst_residual, Residual(b, q.offset)})
              ELSE c.residual = b.residual /\ c.worst_residual = b.worst_residual

\* What a sample makes of a burst, whether or not its window is whole.
LEMMA Added ==
    ASSUME NEW b, Fields(b), NEW t, NEW n, NEW rtt, NEW offset,
           NEW window, window = Append(b.window, offset),
           NEW q, q = Quicker(b.pending, rtt, offset),
           NEW c, c = BurstAdd(b, t, n, rtt, offset)
    PROVE  Becomes(b, n, q, window, c)
  <1>1. ASSUME Len(window) < n
        PROVE  c = [best |-> b.best, median |-> b.median, residual |-> b.residual,
                    worst_residual |-> b.worst_residual, window |-> window, pending |-> q,
                    previous |-> b.previous, first |-> b.first, windows |-> b.windows]
    <2>1. c = Filled(b, q, window)
      BY <1>1 DEF BurstAdd, Filled
    <2> QED
      BY <2>1, Changed
  <1>2. ASSUME ~(Len(window) < n)
        PROVE  c = Close(b, t, q, window)
    BY <1>2 DEF BurstAdd
  <1>3. ASSUME Len(window) < n
        PROVE  /\ Fields(c) /\ c.windows = b.windows /\ c.window = window /\ c.pending = q
               /\ c.best = b.best /\ c.median = b.median /\ c.previous = b.previous
               /\ c.residual = b.residual /\ c.worst_residual = b.worst_residual
    BY <1>1, <1>3 DEF Fields
  <1>4. ASSUME ~(Len(window) < n)
        PROVE  /\ Fields(c) /\ c.windows = b.windows + 1
               /\ c.window = << >> /\ c.pending = None
               /\ c.best = Follow(b.best, q.offset)
               /\ c.median = Follow(b.median, Median(window))
               /\ c.previous = b.best.last
    BY <1>2, <1>4 DEF Fields, Close
  <1>5. ASSUME ~(Len(window) < n)
        PROVE  IF b.best.last # None /\ b.previous # None
               THEN /\ c.residual = Bump(b.residual, Residual(b, q.offset))
                    /\ c.worst_residual = Max({b.worst_residual, Residual(b, q.offset)})
               ELSE c.residual = b.residual /\ c.worst_residual = b.worst_residual
    BY <1>2, <1>5 DEF Close
  <1> QED
    BY <1>3, <1>4, <1>5 DEF Becomes

\* A sample given to a burst keeps it in order.
LEMMA BurstKeeps ==
    ASSUME NEW b, NEW n \in Nat \ {0}, NEW s \in Seq(Sampled), BurstOK(b, n, s),
           NEW e \in Sampled, NEW u, u = Append(s, e), NEW t,
           NEW c, c = BurstAdd(b, t, n, e.rtt, e.offset)
    PROVE  BurstOK(c, n, u)
  <1> DEFINE window == Append(b.window, e.offset)
             q == Quicker(b.pending, e.rtt, e.offset)
  <1>1. /\ b.windows \in Nat /\ b.windows * n \in Nat /\ Len(b.window) \in Nat /\ Len(s) \in Nat
        /\ b.windows * n <= Len(s) /\ (b.windows + 1) * n = (b.windows * n) + n
        /\ ((b.windows + 1) - 1) * n = b.windows * n
        /\ Len(b.window) < n /\ Len(s) = (b.windows * n) + Len(b.window)
    BY BurstCounts DEF BurstOK, InStep
  <1>2. /\ Len(u) = Len(s) + 1 /\ \A i \in 1 .. Len(s) : u[i] = s[i]
    BY OneMore
  <1>3. e.offset \in Int
    BY DEF Sampled
  <1>4. /\ window \in Seq(Int) /\ Len(window) = Len(b.window) + 1 /\ window # << >>
    <2>1. PICK w \in Seq(Int) : w = b.window
      BY DEF BurstOK, InStep
    <2>2. /\ Append(w, e.offset) \in Seq(Int) /\ Len(Append(w, e.offset)) = Len(w) + 1
          /\ Append(w, e.offset) # << >>
      BY <1>3, OneOffsetMore
    <2> QED
      BY <2>1, <2>2
  <1>5. q \in Exchanges /\ Quickest(q, (b.windows * n) + 1 .. Len(u), u)
    BY Quickened
  <1>6. Fields(b)
    BY DEF BurstOK, InStep
  <1>7. window = Append(b.window, e.offset) /\ q = Quicker(b.pending, e.rtt, e.offset)
    OBVIOUS
  <1> HIDE DEF window, q
  <1>8. Becomes(b, n, q, window, c)
    BY <1>6, <1>7, Added
  <1>9. CASE Len(window) < n
    <2>1. /\ Fields(c) /\ c.windows = b.windows /\ c.window = window
          /\ c.pending = q /\ c.best = b.best
      BY <1>8, <1>9 DEF Becomes
    <2>2. InStep(c, n, u)
      <3>1. PICK whole \in Nat : whole = b.windows * n
        BY <1>1
      <3>2. PICK held \in Nat : held = Len(b.window)
        BY <1>1
      <3>3. Len(s) = whole + held
        BY <1>1, <3>1, <3>2
      <3>4. Len(u) = (whole + held) + 1
        BY <1>2, <3>3
      <3>5. Len(window) = held + 1
        BY <1>4, <3>2
      <3>6. Len(u) = whole + Len(window)
        BY <3>4, <3>5
      <3> QED
        BY <1>1, <1>4, <1>9, <2>1, <3>1, <3>6 DEF InStep
    <2>3. OpenQuickest(c, n, u)
      BY <1>4, <1>5, <2>1 DEF OpenQuickest, Open
    <2>4. LastQuickest(c, n, u)
      <3>1. SUFFICES ASSUME b.windows > 0
                     PROVE  \E p \in Exchanges : b.best.last = p.offset
                                /\ Quickest(p, Window(n, b.windows), u)
        BY <2>1 DEF LastQuickest
      <3>2. PICK p \in Exchanges : b.best.last = p.offset /\ Quickest(p, Window(n, b.windows), s)
        BY <3>1 DEF BurstOK, LastQuickest
      <3>3. \A i \in Window(n, b.windows) : i \in 1 .. Len(s)
        <4>1. (b.windows - 1) * n \in Nat
          <5>1. b.windows - 1 \in Nat
            BY <1>1, <3>1
          <5> QED
            BY <5>1
        <4>2. PICK lo \in Nat, hi \in Nat, m \in Nat :
                  lo = (b.windows - 1) * n /\ hi = b.windows * n /\ m = Len(s) /\ hi <= m
          BY <1>1, <4>1
        <4>3. Window(n, b.windows) = lo + 1 .. hi
          BY <4>2 DEF Window
        <4>4. \A i \in lo + 1 .. hi : i \in 1 .. m
          BY <4>2
        <4> QED
          BY <4>2, <4>3, <4>4
      <3>4. Quickest(p, Window(n, b.windows), u)
        BY <1>2, <3>2, <3>3 DEF Quickest
      <3> QED
        BY <3>2, <3>4
    <2> QED
      BY <2>2, <2>3, <2>4 DEF BurstOK
  <1>10. CASE ~(Len(window) < n)
    <2>1. Len(window) = n
      BY <1>1, <1>4, <1>10
    <2>2. /\ Fields(c) /\ c.windows = b.windows + 1 /\ c.window = << >>
          /\ c.pending = None /\ c.best = Follow(b.best, q.offset)
      BY <1>8, <1>10 DEF Becomes
    <2>3. Len(u) = (b.windows + 1) * n /\ b.windows + 1 \in Nat
      <3>1. PICK whole \in Nat : whole = b.windows * n
        BY <1>1
      <3>2. Len(s) = whole + Len(b.window) /\ Len(s) \in Nat /\ Len(b.window) \in Nat
        BY <1>1, <3>1
      <3>3. Len(b.window) + 1 = n
        BY <1>4, <2>1
      <3>4. Len(s) + 1 = whole + n
        BY <3>2, <3>3
      <3>5. Len(u) = whole + n
        BY <1>2, <3>4
      <3> QED
        BY <1>1, <3>1, <3>5
    <2>4. InStep(c, n, u)
      <3>1. << >> \in Seq(Int) /\ Len(<< >>) = 0
        OBVIOUS
      <3> QED
        BY <1>1, <2>2, <2>3, <3>1 DEF InStep
    <2>5. OpenQuickest(c, n, u)
      BY <2>2 DEF OpenQuickest
    <2>6. c.best.last = q.offset
      BY <2>2, Followed
    <2>7. Window(n, c.windows) = (b.windows * n) + 1 .. Len(u)
      BY <1>1, <2>2, <2>3 DEF Window
    <2>8. LastQuickest(c, n, u)
      BY <1>5, <2>6, <2>7 DEF LastQuickest
    <2> QED
      BY <2>4, <2>5, <2>8 DEF BurstOK
  <1> QED
    BY <1>9, <1>10

------------------------------------------------------------------------------
(***************************************************************************)
(* The median of a window.                                                 *)
(***************************************************************************)

\* A set with no more members than another: each goes to a place of its own.
LEMMA NoMore ==
    ASSUME NEW S, NEW T, IsFiniteSet(T), NEW f \in [S -> T],
           \A x, y \in S : f[x] = f[y] => x = y
    PROVE  IsFiniteSet(S) /\ Cardinality(S) <= Cardinality(T)
  <1>1. f \in Injection(S, T)
    BY DEF Injection, IsInjective
  <1> QED
    BY <1>1, FS_Injection

\* Every window has an order: its places by what is not above them.
LEMMA HasAnOrder ==
    ASSUME NEW window \in Seq(Int)
    PROVE  Orders(window) # {}
  <1> DEFINE n == Len(window)
             P == 1 .. n
             Under(i) == {j \in P : window[j] < window[i] \/ (window[j] = window[i] /\ j <= i)}
             rank == [i \in P |-> Cardinality(Under(i))]
  <1>1. n \in Nat /\ \A i \in P : window[i] \in Int
    OBVIOUS
  <1>2. IsFiniteSet(P) /\ Cardinality(P) = n
    <2> HIDE DEF n
    <2>1. 1 \in Int /\ n \in Int /\ (IF 1 > n THEN 0 ELSE n - 1 + 1) = n
      BY <1>1
    <2> QED
      BY <2>1, FS_Interval
  <1> HIDE DEF n
  <1>3. ASSUME NEW i \in P
        PROVE  /\ IsFiniteSet(Under(i)) /\ i \in Under(i)
               /\ rank[i] = Cardinality(Under(i)) /\ rank[i] \in P
    <2>1. Under(i) \subseteq P /\ i \in Under(i)
      <3>1. i <= i
        BY <1>1, <1>3
      <3> QED
        BY <1>3, <3>1
    <2>2. IsFiniteSet(Under(i)) /\ Cardinality(Under(i)) <= n
      BY <1>2, <2>1, FS_Subset
    <2>3. Cardinality(Under(i)) \in Nat /\ Cardinality(Under(i)) # 0
      BY <2>1, <2>2, FS_CardinalityType, FS_EmptySet
    <2> QED
      BY <1>1, <2>1, <2>2, <2>3
  <1>4. ASSUME NEW a \in P, NEW b \in P, a # b, a \in Under(b)
        PROVE  rank[a] < rank[b]
    <2>1. window[a] \in Int /\ window[b] \in Int /\ a \in Int /\ b \in Int
      BY <1>1
    <2>2. window[a] < window[b] \/ (window[a] = window[b] /\ a < b)
      BY <1>4, <2>1
    <2>3. b \notin Under(a)
      BY <2>1, <2>2
    <2>4. ASSUME NEW j \in Under(a) PROVE j \in Under(b)
      <3>1. window[j] \in Int /\ j \in Int /\ j \in P
        BY <1>1, <2>4
      <3>2. window[j] < window[a] \/ (window[j] = window[a] /\ j <= a)
        BY <2>4
      <3>3. window[j] < window[b] \/ (window[j] = window[b] /\ j <= b)
        BY <2>1, <2>2, <3>1, <3>2
      <3> QED
        BY <3>1, <3>3
    <2>5. Under(a) \subseteq Under(b) /\ Under(a) # Under(b)
      BY <1>3, <2>3, <2>4
    <2> HIDE DEF Under, rank
    <2>6. Cardinality(Under(a)) <= Cardinality(Under(b))
          /\ Cardinality(Under(a)) # Cardinality(Under(b))
      BY <1>3, <2>5, FS_Subset
    <2>7. rank[a] = Cardinality(Under(a)) /\ rank[b] = Cardinality(Under(b))
          /\ rank[a] \in Int /\ rank[b] \in Int
      BY <1>1, <1>3
    <2> QED
      BY <2>6, <2>7
  <1>5. ASSUME NEW a \in P, NEW b \in P PROVE a \in Under(b) \/ b \in Under(a)
    BY <1>1
  <1>6. rank \in [P -> P]
    BY <1>3
  <1> HIDE DEF Under, rank
  <1>7. ASSUME NEW a \in P, NEW b \in P, rank[a] = rank[b]
        PROVE  a = b
    <2>1. rank[a] \in Int /\ rank[b] \in Int
      BY <1>1, <1>6
    <2> QED
      BY <1>4, <1>5, <1>7, <2>1
  <1>8. rank \in Bijection(P, P)
    <2>1. rank \in Injection(P, P)
      BY <1>6, <1>7 DEF Injection, IsInjective
    <2>2. rank \in Surjection(P, P)
      BY <1>2, <2>1, FS_Injection
    <2> QED
      BY <2>1, <2>2 DEF Bijection
  <1> DEFINE order == [r \in P |-> CHOOSE i \in P : rank[i] = r]
  <1>9. \A r \in P : order[r] \in P /\ rank[order[r]] = r
    BY <1>8 DEF Bijection, Surjection
  <1> HIDE DEF order
  <1>10. order \in [P -> P] /\ (\A x, y \in P : order[x] = order[y] => x = y)
    <2>1. order \in [P -> P]
      BY <1>9 DEF order
    <2> QED
      BY <1>9, <2>1
  <1>11. order \in Bijection(P, P)
    <2>1. order \in Injection(P, P)
      BY <1>10 DEF Injection, IsInjective
    <2>2. order \in Surjection(P, P)
      BY <1>2, <2>1, FS_Injection
    <2> QED
      BY <2>1, <2>2 DEF Bijection
  <1>12. ASSUME NEW i \in P, NEW j \in P, i < j
         PROVE  window[order[i]] <= window[order[j]]
    <2>1. /\ order[i] \in P /\ order[j] \in P
          /\ rank[order[i]] = i /\ rank[order[j]] = j /\ i \in Int /\ j \in Int
      BY <1>1, <1>9
    <2>2. order[i] \in Under(order[j])
      <3>1. SUFFICES ASSUME order[j] \in Under(order[i]) PROVE FALSE
        BY <1>5, <2>1
      <3>2. order[j] # order[i]
        BY <1>12, <2>1
      <3>3. j < i
        BY <1>4, <2>1, <3>1, <3>2
      <3> QED
        BY <1>12, <2>1, <3>3
    <2> QED
      BY <1>1, <2>1, <2>2 DEF Under
  <1> QED
    BY <1>11, <1>12 DEF Orders, n

\* Rust's halves lie between what they are halves of.
LEMMA HalfBetween ==
    ASSUME NEW a \in Int, NEW b \in Int, a <= b
    PROVE  Half(a + b) \in Int /\ a <= Half(a + b) /\ Half(a + b) <= b
  <1>1. Half(a + b) \in Int /\ (2 * Half(a + b)) - (a + b) \in {-1, 0, 1}
    BY Halves
  <1> QED
    BY <1>1

\* No more than half of a window is below its median, and no more than half above.
LEMMA MedianIsMiddle ==
    ASSUME NEW window \in Seq(Int), NEW h \in Nat \ {0}, Len(window) = 2 * h
    PROVE  /\ Median(window) \in Int
           /\ LET low == {j \in 1 .. Len(window) : window[j] < Median(window)}
                  high == {j \in 1 .. Len(window) : window[j] > Median(window)}
              IN  /\ IsFiniteSet(low) /\ Cardinality(low) <= h
                  /\ IsFiniteSet(high) /\ Cardinality(high) <= h
  <1> DEFINE n == Len(window)
             P == 1 .. n
             order == CHOOSE p \in Orders(window) : TRUE
             a == window[order[h]]
             b == window[order[h + 1]]
             v == Median(window)
             low == {j \in P : window[j] < v}
             high == {j \in P : window[j] > v}
             place == [j \in P |-> CHOOSE i \in P : order[i] = j]
  <1>1. n \div 2 = h /\ n \in Nat /\ n = 2 * h /\ \A i \in P : window[i] \in Int
    OBVIOUS
  <1>2. order \in Orders(window)
    BY HasAnOrder
  <1>3. /\ order \in [P -> P] /\ \A j \in P : \E i \in P : order[i] = j
        /\ \A i, j \in P : i < j => window[order[i]] <= window[order[j]]
    BY <1>2 DEF Orders, Bijection, Injection, Surjection
  <1>4. v = Half(a + b)
    BY <1>1 DEF Median
  <1> HIDE DEF n, order
  <1>5. h \in P /\ h + 1 \in P
    BY <1>1
  <1>6. a \in Int /\ b \in Int /\ a <= b
    <2>1. order[h] \in P /\ order[h + 1] \in P
      BY <1>3, <1>5
    <2>2. h < h + 1
      OBVIOUS
    <2>3. a <= b
      BY <1>3, <1>5, <2>2
    <2> QED
      BY <1>1, <2>1, <2>3
  <1> HIDE DEF a, b, v
  <1>7. v \in Int /\ a <= v /\ v <= b
    BY <1>4, <1>6, HalfBetween
  <1>8. ASSUME NEW j \in P
        PROVE  place[j] \in P /\ order[place[j]] = j
    BY <1>3, <1>8
  <1> HIDE DEF place
  <1>9. \A x, y \in P : place[x] = place[y] => x = y
    BY <1>8
  <1>10. ASSUME NEW j \in P, window[j] < v PROVE place[j] \in 1 .. h
    <2>1. /\ place[j] \in P /\ window[order[place[j]]] = window[j]
          /\ window[j] \in Int
      BY <1>1, <1>8
    <2>2. SUFFICES ASSUME h + 1 <= place[j] PROVE FALSE
      BY <1>1, <2>1
    <2>3. b <= window[j]
      <3>1. CASE place[j] = h + 1
        BY <1>6, <2>1, <3>1 DEF b
      <3>2. CASE h + 1 < place[j]
        BY <1>3, <1>5, <2>1, <3>2 DEF b
      <3> QED
        BY <1>1, <2>1, <2>2, <3>1, <3>2
    <2> QED
      BY <1>6, <1>7, <1>10, <2>1, <2>3
  <1>11. ASSUME NEW j \in P, window[j] > v PROVE place[j] \in h + 1 .. n
    <2>1. /\ place[j] \in P /\ window[order[place[j]]] = window[j]
          /\ window[j] \in Int
      BY <1>1, <1>8
    <2>2. SUFFICES ASSUME place[j] <= h PROVE FALSE
      BY <1>1, <2>1
    <2>3. window[j] <= a
      <3>1. CASE place[j] = h
        BY <1>6, <2>1, <3>1 DEF a
      <3>2. CASE place[j] < h
        BY <1>3, <1>5, <2>1, <3>2 DEF a
      <3> QED
        BY <1>1, <2>1, <2>2, <3>1, <3>2
    <2> QED
      BY <1>6, <1>7, <1>11, <2>1, <2>3
  <1>12. IsFiniteSet(low) /\ Cardinality(low) <= h
    <2> DEFINE f == [j \in low |-> place[j]]
    <2>1. f \in [low -> 1 .. h] /\ \A x, y \in low : f[x] = f[y] => x = y
      BY <1>9, <1>10
    <2>2. IsFiniteSet(1 .. h) /\ Cardinality(1 .. h) = h
      <3>1. 1 \in Int /\ h \in Int /\ ~(1 > h) /\ (h - 1) + 1 = h
        OBVIOUS
      <3> QED
        BY <3>1, FS_Interval
    <2> HIDE DEF f, low
    <2> QED
      BY <2>1, <2>2, NoMore
  <1>13. IsFiniteSet(high) /\ Cardinality(high) <= h
    <2> DEFINE f == [j \in high |-> place[j]]
    <2>1. f \in [high -> h + 1 .. n] /\ \A x, y \in high : f[x] = f[y] => x = y
      BY <1>9, <1>11
    <2>2. IsFiniteSet(h + 1 .. n) /\ Cardinality(h + 1 .. n) = h
      <3>1. h + 1 \in Int /\ n \in Int /\ ~(h + 1 > n) /\ (n - (h + 1)) + 1 = h
        BY <1>1
      <3> QED
        BY <3>1, FS_Interval
    <2> HIDE DEF f, high
    <2>3. IsFiniteSet(high) /\ Cardinality(high) <= Cardinality(h + 1 .. n)
      BY <2>1, <2>2, NoMore
    <2> QED
      BY <2>2, <2>3
  <1> QED
    BY <1>7, <1>12, <1>13 DEF v, n

\* What a burst holds of its open window are the offsets of its samples, and its
\* median estimate has no more than half of its last window on either side.
Splits(v, n, in, s) ==
    /\ 2 * Cardinality({i \in in : s[i].offset < v}) <= n
    /\ 2 * Cardinality({i \in in : s[i].offset > v}) <= n
Held(b, n, s) == \A j \in 1 .. Len(b.window) : b.window[j] = s[(b.windows * n) + j].offset
LastMedian(b, n, s) == b.windows > 0 => Splits(b.median.last, n, Window(n, b.windows), s)
MedianOK(b, n, s) == Held(b, n, s) /\ LastMedian(b, n, s)

\* The median of the n offsets that follow the first m splits the samples they are of.
LEMMA MedianSplits ==
    ASSUME NEW window \in Seq(Int), NEW h \in Nat \ {0}, NEW n, n = 2 * h, Len(window) = n,
           NEW m \in Nat, NEW u, \A j \in 1 .. n : window[j] = u[m + j].offset
    PROVE  Splits(Median(window), n, m + 1 .. m + n, u)
  <1> DEFINE v == Median(window)
             low == {j \in 1 .. n : window[j] < v}
             high == {j \in 1 .. n : window[j] > v}
             below == {i \in m + 1 .. m + n : u[i].offset < v}
             above == {i \in m + 1 .. m + n : u[i].offset > v}
  <1>1. /\ IsFiniteSet(low) /\ Cardinality(low) <= h
        /\ IsFiniteSet(high) /\ Cardinality(high) <= h
    BY MedianIsMiddle
  <1>2. ASSUME NEW i \in m + 1 .. m + n
        PROVE  i - m \in 1 .. n /\ window[i - m] = u[i].offset
    <2>1. i - m \in 1 .. n /\ m + (i - m) = i
      OBVIOUS
    <2>2. window[i - m] = u[m + (i - m)].offset
      BY <2>1
    <2>3. u[m + (i - m)] = u[i]
      BY <2>1
    <2> QED
      BY <2>1, <2>2, <2>3
  <1> HIDE DEF v
  <1>3. Cardinality(below) \in Nat /\ Cardinality(below) <= h
    <2> DEFINE f == [i \in below |-> i - m]
    <2>0. \A i \in below : i - m \in low
      BY <1>2
    <2>1. f \in [below -> low] /\ \A x, y \in below : f[x] = f[y] => x = y
      <3>1. f \in [below -> low]
        BY <2>0
      <3>2. ASSUME NEW x \in m + 1 .. m + n, NEW y \in m + 1 .. m + n, x - m = y - m
            PROVE  x = y
        BY <3>2
      <3>3. ASSUME NEW x \in below, NEW y \in below, f[x] = f[y] PROVE x = y
        BY <3>2, <3>3
      <3> QED
        BY <3>1, <3>3
    <2> HIDE DEF f, low, below
    <2>2. IsFiniteSet(below) /\ Cardinality(below) <= Cardinality(low)
      BY <1>1, <2>1, NoMore
    <2>3. Cardinality(below) \in Nat /\ Cardinality(low) \in Nat
      BY <1>1, <2>2, FS_CardinalityType
    <2>4. Cardinality(low) <= h
      BY <1>1
    <2> HIDE DEF f, low, below
    <2> QED
      BY <2>2, <2>3, <2>4
  <1>4. Cardinality(above) \in Nat /\ Cardinality(above) <= h
    <2> DEFINE f == [i \in above |-> i - m]
    <2>0. \A i \in above : i - m \in high
      BY <1>2
    <2>1. f \in [above -> high] /\ \A x, y \in above : f[x] = f[y] => x = y
      <3>1. f \in [above -> high]
        BY <2>0
      <3>2. ASSUME NEW x \in m + 1 .. m + n, NEW y \in m + 1 .. m + n, x - m = y - m
            PROVE  x = y
        BY <3>2
      <3>3. ASSUME NEW x \in above, NEW y \in above, f[x] = f[y] PROVE x = y
        BY <3>2, <3>3
      <3> QED
        BY <3>1, <3>3
    <2> HIDE DEF f, high, above
    <2>2. IsFiniteSet(above) /\ Cardinality(above) <= Cardinality(high)
      BY <1>1, <2>1, NoMore
    <2>3. Cardinality(above) \in Nat /\ Cardinality(high) \in Nat
      BY <1>1, <2>2, FS_CardinalityType
    <2> QED
      BY <1>1, <2>2, <2>3
  <1> HIDE DEF below, above
  <1>5. 2 * Cardinality(below) <= n /\ 2 * Cardinality(above) <= n
    BY <1>3, <1>4
  <1> QED
    BY <1>5 DEF Splits, below, above, v

\* A sample given to a burst keeps its medians in the middle.
LEMMA MedianKeeps ==
    ASSUME NEW b, NEW h \in Nat \ {0}, NEW n, n = 2 * h, NEW s \in Seq(Sampled),
           BurstOK(b, n, s), MedianOK(b, n, s),
           NEW e \in Sampled, NEW u, u = Append(s, e), NEW t,
           NEW c, c = BurstAdd(b, t, n, e.rtt, e.offset)
    PROVE  MedianOK(c, n, u)
  <1> DEFINE window == Append(b.window, e.offset)
             q == Quicker(b.pending, e.rtt, e.offset)
  <1>0. n \in Nat \ {0}
    OBVIOUS
  <1>1. /\ b.windows \in Nat /\ b.windows * n \in Nat /\ Len(b.window) \in Nat /\ Len(s) \in Nat
        /\ b.windows * n <= Len(s) /\ (b.windows + 1) * n = (b.windows * n) + n
        /\ ((b.windows + 1) - 1) * n = b.windows * n
        /\ Len(b.window) < n /\ Len(s) = (b.windows * n) + Len(b.window)
    BY <1>0, BurstCounts DEF BurstOK, InStep
  <1>2. /\ Len(u) = Len(s) + 1 /\ u[Len(s) + 1] = e
        /\ \A i \in 1 .. Len(s) : u[i] = s[i]
    BY OneMore
  <1>3. e.offset \in Int
    BY DEF Sampled
  <1>4. /\ window \in Seq(Int) /\ Len(window) = Len(b.window) + 1
        /\ window[Len(b.window) + 1] = e.offset
        /\ \A j \in 1 .. Len(b.window) : window[j] = b.window[j]
    BY <1>3 DEF BurstOK, InStep
  <1>5. Fields(b)
    BY DEF BurstOK, InStep
  <1>6. window = Append(b.window, e.offset) /\ q = Quicker(b.pending, e.rtt, e.offset)
    OBVIOUS
  <1> HIDE DEF window, q
  <1>7. Becomes(b, n, q, window, c)
    BY <1>5, <1>6, Added
  <1>8. PICK whole \in Nat : whole = b.windows * n
    BY <1>1
  <1>9. ASSUME NEW j \in 1 .. Len(window)
        PROVE  window[j] = u[whole + j].offset
    <2>1. CASE j \in 1 .. Len(b.window)
      <3>1. whole + j \in 1 .. Len(s)
        <4>1. PICK held \in Nat : held = Len(b.window) /\ Len(s) = whole + held
          BY <1>1, <1>8
        <4> QED
          BY <2>1, <4>1
      <3> QED
        BY <1>2, <1>4, <1>8, <2>1, <3>1 DEF MedianOK, Held
    <2>2. CASE j = Len(b.window) + 1
      <3>1. whole + j = Len(s) + 1
        BY <1>1, <1>8, <2>2
      <3> QED
        BY <1>2, <1>4, <2>2, <3>1
    <2>3. j \in 1 .. Len(b.window) \/ j = Len(b.window) + 1
      <3>1. PICK l \in Nat : l = Len(b.window)
        BY <1>1
      <3>2. j \in 1 .. l + 1
        BY <1>4, <3>1
      <3>3. j \in 1 .. l \/ j = l + 1
        BY <3>2
      <3> QED
        BY <3>1, <3>3
    <2> QED
      BY <2>1, <2>2, <2>3
  <1>10. CASE Len(window) < n
    <2>1. c.windows = b.windows /\ c.window = window /\ c.median = b.median
      BY <1>7, <1>10 DEF Becomes
    <2>2. Held(c, n, u)
      <3>1. c.windows * n = whole
        BY <1>8, <2>1
      <3>2. \A j \in 1 .. Len(window) : c.window[j] = u[(c.windows * n) + j].offset
        BY <1>9, <2>1, <3>1
      <3> QED
        BY <2>1, <3>2 DEF Held
    <2>3. LastMedian(c, n, u)
      <3>1. SUFFICES ASSUME b.windows > 0
                     PROVE  Splits(b.median.last, n, Window(n, b.windows), u)
        BY <2>1 DEF LastMedian
      <3>2. Splits(b.median.last, n, Window(n, b.windows), s)
        BY <3>1 DEF MedianOK, LastMedian
      <3>3. \A i \in Window(n, b.windows) : i \in 1 .. Len(s)
        <4>1. b.windows - 1 \in Nat
          BY <1>1, <3>1
        <4>2. (b.windows - 1) * n \in Nat
          BY <4>1
        <4> QED
          BY <1>1, <4>2 DEF Window
      <3>4. \A i \in Window(n, b.windows) : u[i].offset = s[i].offset
        BY <1>2, <3>3
      <3>5. /\ {i \in Window(n, b.windows) : u[i].offset < b.median.last}
                 = {i \in Window(n, b.windows) : s[i].offset < b.median.last}
            /\ {i \in Window(n, b.windows) : u[i].offset > b.median.last}
                 = {i \in Window(n, b.windows) : s[i].offset > b.median.last}
        BY <3>4
      <3> QED
        BY <3>2, <3>5 DEF Splits
    <2> QED
      BY <2>2, <2>3 DEF MedianOK
  <1>11. CASE ~(Len(window) < n)
    <2>1. Len(window) = n
      BY <1>1, <1>4, <1>11
    <2>2. /\ c.windows = b.windows + 1 /\ c.window = << >>
          /\ c.median = Follow(b.median, Median(window))
      BY <1>7, <1>11 DEF Becomes
    <2>3. c.median.last = Median(window)
      BY <2>2, Followed
    <2>4. Window(n, c.windows) = whole + 1 .. whole + n
      BY <1>1, <1>8, <2>2 DEF Window
    <2>5. Splits(Median(window), n, whole + 1 .. whole + n, u)
      BY <1>4, <1>9, <2>1, MedianSplits
    <2>6. Held(c, n, u)
      BY <2>2 DEF Held
    <2> QED
      BY <2>3, <2>4, <2>5, <2>6 DEF MedianOK, LastMedian
  <1> QED
    BY <1>10, <1>11

------------------------------------------------------------------------------
(***************************************************************************)
(* Every burst is in order, from the first sample to the last.             *)
(***************************************************************************)
BurstsInv ==
    \A k \in DOMAIN BURSTS :
        /\ BurstOK(samples.best[k], BURSTS[k], taken)
        /\ MedianOK(samples.best[k], BURSTS[k], taken)

\* A window has an even number of samples.
LEMMA EvenBursts ==
    ASSUME NEW k \in DOMAIN BURSTS
    PROVE  BURSTS[k] \in Nat \ {0} /\ \E h \in Nat \ {0} : BURSTS[k] = 2 * h
  <1>1. BURSTS[k] \in Nat /\ BURSTS[k] > 0 /\ BURSTS[k] % 2 = 0
    BY StatsAssumption
  <1>2. PICK n \in Nat : n = BURSTS[k] /\ n > 0 /\ n % 2 = 0
    BY <1>1
  <1>3. n \div 2 \in Nat \ {0} /\ n = 2 * (n \div 2)
    BY <1>2
  <1> QED
    BY <1>2, <1>3

\* A burst to which nothing was given is in order.
LEMMA NewInOrder ==
    ASSUME NEW n \in Nat \ {0}, NEW s, s = << >>
    PROVE  BurstOK(NewBurst, n, s) /\ MedianOK(NewBurst, n, s)
  <1> DEFINE b == NewBurst
  <1>1. b.windows = 0 /\ b.window = << >> /\ b.pending = None /\ Fields(b)
    BY DEF NewBurst, Fields
  <1> HIDE DEF b
  <1>2. 0 * n = 0 /\ Len(<< >>) = 0 /\ << >> \in Seq(Int) /\ 0 < n
    OBVIOUS
  <1>3. InStep(b, n, s)
    BY <1>1, <1>2 DEF InStep
  <1>4. BurstOK(b, n, s)
    BY <1>1, <1>3 DEF BurstOK, OpenQuickest, LastQuickest
  <1>5. MedianOK(b, n, s)
    BY <1>1, <1>2 DEF MedianOK, Held, LastMedian
  <1> QED
    BY <1>4, <1>5 DEF b

LEMMA BurstsInit == Init => BurstsInv
  <1> SUFFICES ASSUME Init, NEW k \in DOMAIN BURSTS
               PROVE  /\ BurstOK(samples.best[k], BURSTS[k], taken)
                      /\ MedianOK(samples.best[k], BURSTS[k], taken)
    BY DEF BurstsInv
  <1>1. samples.best[k] = NewBurst /\ taken = << >>
    BY DEF Init, NewSamples
  <1> QED
    BY <1>1, EvenBursts, NewInOrder

\* Each burst is given what is added to the statistics.
LEMMA Given ==
    ASSUME NEW t, NEW rtt, NEW offset, samples' = Add(samples, t, rtt, offset),
           NEW k \in DOMAIN BURSTS
    PROVE  samples'.best[k] = BurstAdd(samples.best[k], t, BURSTS[k], rtt, offset)
  BY DEF Add

LEMMA BurstsNext ==
    ASSUME SyncInv, BurstsInv, [Next]_vars
    PROVE  BurstsInv'
  <1>1. ASSUME UNCHANGED <<samples, taken>> PROVE BurstsInv'
    BY <1>1 DEF BurstsInv
  <1>2. CASE Tick \/ Ask \/ Restart \/ (\E m \in net : Answer(m) \/ Find(m)) \/ UNCHANGED vars
    BY <1>1, <1>2 DEF Tick, Ask, Restart, Answer, Find, vars, followerVars
  <1>3. ASSUME NEW m \in net, Hear(m) PROVE BurstsInv'
    <2>1. m \in Answers /\ Ordered(m)
      BY <1>3 DEF SyncInv, StampsInOrder, Hear, SyncTypeOK, Ticks, Requests, Answers
    <2>2. RoundTrip(m) \in Nat /\ Offset(m) \in Int /\ m.skew \in Int
      BY <2>1, Sample DEF Answers
    <2>3. PICK e \in Sampled :
              /\ e.rtt = RoundTrip(m) /\ e.offset = Offset(m)
              /\ e = [rtt |-> RoundTrip(m), offset |-> Offset(m), skew |-> m.skew]
      BY <2>2 DEF Sampled
    <2>4. taken' = Append(taken, e) /\ samples' = Add(samples, m.at, e.rtt, e.offset)
      BY <1>3, <2>2, <2>3 DEF Hear
    <2>5. ASSUME NEW k \in DOMAIN BURSTS
          PROVE  /\ BurstOK(samples'.best[k], BURSTS[k], taken')
                 /\ MedianOK(samples'.best[k], BURSTS[k], taken')
      <3>1. PICK n \in Nat \ {0}, h \in Nat \ {0} : n = BURSTS[k] /\ n = 2 * h
        BY EvenBursts
      <3>2. PICK b : b = samples.best[k]
        OBVIOUS
      <3>3. PICK s \in Seq(Sampled) : s = taken
        BY DEF SyncInv, SyncTypeOK, Sampled
      <3>4. PICK u : u = taken' /\ u = Append(s, e)
        BY <2>4, <3>3
      <3>5. PICK c : c = samples'.best[k] /\ c = BurstAdd(b, m.at, n, e.rtt, e.offset)
        <4>1. samples'.best[k] = BurstAdd(samples.best[k], m.at, BURSTS[k], e.rtt, e.offset)
          BY <2>4, Given
        <4> QED
          BY <3>1, <3>2, <4>1
      <3>6. BurstOK(b, n, s) /\ MedianOK(b, n, s)
        BY <3>1, <3>2, <3>3 DEF BurstsInv
      <3>7. BurstOK(c, n, u)
        BY <3>4, <3>5, <3>6, BurstKeeps
      <3>8. MedianOK(c, n, u)
        BY <3>1, <3>4, <3>5, <3>6, MedianKeeps
      <3> QED
        BY <3>1, <3>4, <3>5, <3>7, <3>8
    <2> QED
      BY <2>5 DEF BurstsInv
  <1> QED
    BY <1>2, <1>3 DEF Next

\* So many whole windows as divide what was taken.
LEMMA Whole ==
    ASSUME NEW l \in Nat, NEW n \in Nat \ {0}, NEW w \in Nat, NEW r \in Nat,
           r < n, l = (w * n) + r
    PROVE  l \div n = w
  OBVIOUS

\* Both estimates of every burst are of its own last window, the one as right as that
\* window's quickest exchange and the other in the middle of it, at every burst
\* length, delay and clock and with any number of faults.
THEOREM BurstEstimatesHolds == Spec => []BurstEstimates
  <1> DEFINE I == SyncInv /\ BurstsInv
  <1>1. Init => I
    BY InitEstablishes, BurstsInit
  <1>2. I /\ [Next]_vars => I'
    BY StepsPreserve, BurstsNext
  <1>3. I => BurstEstimates
    <2> SUFFICES ASSUME I PROVE BurstEstimates
      OBVIOUS
    <2>1. taken \in Seq(Sampled)
      BY DEF SyncInv, SyncTypeOK, Sampled
    <2>2. ASSUME NEW k \in DOMAIN BURSTS
          PROVE  LET b == samples.best[k]
                     w == Len(taken) \div BURSTS[k]
                 IN  /\ b.windows = w
                     /\ w > 0 => \E i \in Window(BURSTS[k], w) :
                            /\ b.best.last = taken[i].offset
                            /\ \A j \in Window(BURSTS[k], w) : Error(i) <= taken[j].rtt + 1
      <3>1. PICK n \in Nat \ {0} : n = BURSTS[k]
        BY EvenBursts
      <3>2. PICK b : b = samples.best[k]
        OBVIOUS
      <3>3. BurstOK(b, n, taken)
        BY <3>1, <3>2 DEF BurstsInv
      <3>4. /\ b.windows \in Nat /\ Len(b.window) \in Nat /\ Len(b.window) < n
            /\ Len(taken) \in Nat /\ Len(taken) = (b.windows * n) + Len(b.window)
            /\ b.windows * n \in Nat /\ b.windows * n <= Len(taken)
        BY <2>1, <3>3, BurstCounts DEF BurstOK, InStep
      <3>5. Len(taken) \div n = b.windows
        BY <3>4, Whole
      <3>6. ASSUME b.windows > 0
            PROVE  \E i \in Window(n, b.windows) :
                       /\ b.best.last = taken[i].offset
                       /\ \A j \in Window(n, b.windows) : Error(i) <= taken[j].rtt + 1
        <4>1. PICK q \in Exchanges :
                  b.best.last = q.offset /\ Quickest(q, Window(n, b.windows), taken)
          BY <3>3, <3>6 DEF BurstOK, LastQuickest
        <4>2. PICK i \in Window(n, b.windows) :
                  q.rtt = taken[i].rtt /\ q.offset = taken[i].offset
          BY <4>1 DEF Quickest
        <4>3. ASSUME NEW j \in Window(n, b.windows)
              PROVE  j \in Samples /\ taken[j] \in Sampled
          <5>1. b.windows - 1 \in Nat
            BY <3>4, <3>6
          <5>2. (b.windows - 1) * n \in Nat
            BY <5>1
          <5>3. j \in 1 .. Len(taken)
            BY <3>4, <5>2 DEF Window
          <5> QED
            BY <2>1, <5>3 DEF Samples
        <4>4. ASSUME NEW j \in Window(n, b.windows)
              PROVE  Error(i) <= taken[j].rtt + 1
          <5>1. Error(i) <= taken[i].rtt + 1
            BY <4>3 DEF SyncInv, WithinHalfRoundTrip
          <5>2. taken[i].rtt <= taken[j].rtt
            BY <4>1, <4>2 DEF Quickest
          <5>3. taken[i] \in Sampled /\ taken[j] \in Sampled
            BY <4>3
          <5>4. taken[i].rtt \in Nat /\ taken[j].rtt \in Nat /\ Error(i) \in Int
            BY <5>3 DEF Sampled, Error, Distance
          <5> QED
            BY <5>1, <5>2, <5>4
        <4> QED
          BY <4>1, <4>2, <4>4
      <3> QED
        BY <3>1, <3>2, <3>5, <3>6
    <2>3. BurstTakesTheQuickest
      BY <2>2 DEF BurstTakesTheQuickest
    <2>4. MedianInTheMiddle
      BY DEF MedianInTheMiddle, BurstsInv, MedianOK, LastMedian, Splits
    <2> QED
      BY <2>3, <2>4 DEF BurstEstimates
  <1> QED
    BY <1>1, <1>2, <1>3, PTL DEF Spec

------------------------------------------------------------------------------
(***************************************************************************)
(* Histograms: what they have seen, and the percentiles.                   *)
(***************************************************************************)
\* A set of numbers that is not empty has a least.
LEMMA WellOrder ==
    ASSUME NEW T, T \subseteq Nat, T # {}
    PROVE  \E m \in T : \A k \in T : m <= k
  <1> DEFINE R == OpToRel(<, Nat)
  <1>1. IsWellFoundedOn(R, Nat)
    BY NatLessThanWellFounded
  <1>2. ASSUME NEW x \in Nat, NEW y \in Nat, x < y
        PROVE  <<x, y>> \in R
    BY <1>2 DEF OpToRel
  <1> HIDE DEF R
  <1>3. PICK m \in T : \A y \in T : ~(<<y, m>> \in R)
    BY <1>1, WFMin
  <1>4. ASSUME NEW k \in T PROVE m <= k
    <2>1. k \in Nat /\ m \in Nat /\ ~(<<k, m>> \in R)
      BY <1>3
    <2>2. ~(k < m)
      BY <2>1, <1>2
    <2> QED
      BY <2>1, <2>2
  <1> QED
    BY <1>4

Histograms == [0 .. BUCKETS - 1 -> Nat]

\* A quotient and what is left.
LEMMA Quotient ==
    ASSUME NEW a \in Nat, NEW d \in Nat \ {0}
    PROVE  /\ a \div d \in Nat /\ a % d \in Nat /\ a % d < d
           /\ a = (d * (a \div d)) + (a % d)
  OBVIOUS

\* There are fine buckets and coarse ones.
LEMMA Buckets ==
    /\ FINE_BUCKETS \in Nat \ {0} /\ FINE_LIMIT_US = FINE_US * FINE_BUCKETS
    /\ BUCKETS \in Nat /\ BUCKETS = FINE_BUCKETS + COARSE_BUCKETS /\ BUCKETS > FINE_BUCKETS
  <1>1. PICK l \in Nat \ {0}, d \in Nat \ {0} : l = FINE_LIMIT_US /\ d = FINE_US /\ l % d = 0
    BY StatsAssumption
  <1>2. l \div d \in Nat /\ l = (d * (l \div d)) + 0
    BY <1>1, Quotient
  <1>3. PICK f \in Nat : f = l \div d /\ l = d * f
    BY <1>2
  <1>4. f # 0
    BY <1>3
  <1>5. FINE_BUCKETS = f
    BY <1>1, <1>3 DEF FINE_BUCKETS
  <1> QED
    BY <1>1, <1>3, <1>4, <1>5, StatsAssumption DEF BUCKETS

\* The running count of a histogram.
Counts(f, h, n) ==
    /\ f \in [0 .. n -> Nat]
    /\ f[0] = h[0]
    /\ \A i \in 1 .. n : f[i] = h[i] + f[i - 1]

LEMMA CountsExist ==
    ASSUME NEW N \in Nat, NEW h \in [0 .. N -> Nat]
    PROVE  \E f : Counts(f, h, N)
  <1> DEFINE T == {n \in 0 .. N : ~ \E f : Counts(f, h, n)}
  <1>1. SUFFICES ASSUME T # {} PROVE FALSE
    BY SMT
  <1>2. T \subseteq Nat
    OBVIOUS
  <1>3. PICK m \in T : \A k \in T : m <= k
    <2> HIDE DEF T
    <2> QED
      BY <1>1, <1>2, WellOrder
  <1>4. m \in 0 .. N
    OBVIOUS
  <1>5. CASE m = 0
    <2> DEFINE g == [i \in 0 .. 0 |-> h[0]]
    <2>1. g \in [0 .. 0 -> Nat] /\ g[0] = h[0]
      BY <1>4
    <2>2. Counts(g, h, 0)
      BY <2>1 DEF Counts
    <2> QED
      BY <1>5, <2>2
  <1>6. CASE m # 0
    <2>1. m - 1 \in 0 .. N /\ m - 1 \notin T
      BY <1>3, <1>4, <1>6
    <2>2. PICK f : Counts(f, h, m - 1)
      BY <2>1
    <2> DEFINE g == [i \in 0 .. m |-> IF i = m THEN h[m] + f[m - 1] ELSE f[i]]
    <2>3. f \in [0 .. m - 1 -> Nat] /\ m \in Nat /\ h[m] \in Nat
      BY <1>4, <2>2 DEF Counts
    <2>4. m - 1 \in 0 .. m - 1
      BY <1>4, <1>6
    <2>5. \A i \in 0 .. m : g[i] = IF i = m THEN h[m] + f[m - 1] ELSE f[i]
      OBVIOUS
    <2>6. \A i \in 0 .. m : i = m \/ i \in 0 .. m - 1
      BY <1>4
    <2>7. g \in [0 .. m -> Nat]
      BY <2>3, <2>4, <2>6
    <2>8. g[0] = h[0]
      BY <1>4, <1>6, <2>2, <2>5 DEF Counts
    <2>9. ASSUME NEW i \in 1 .. m PROVE g[i] = h[i] + g[i - 1]
      <3>1. i \in 0 .. m /\ i - 1 \in 0 .. m /\ i - 1 # m
        BY <1>4
      <3>2. g[i - 1] = f[i - 1]
        BY <2>5, <3>1
      <3>3. CASE i = m
        BY <2>5, <3>1, <3>2, <3>3
      <3>4. CASE i # m
        <4>1. i \in 1 .. m - 1
          BY <1>4, <3>4
        <4>2. f[i] = h[i] + f[i - 1]
          BY <2>2, <4>1 DEF Counts
        <4> QED
          BY <2>5, <3>1, <3>2, <3>4, <4>2
      <3> QED
        BY <3>3, <3>4
    <2> HIDE DEF g
    <2>10. Counts(g, h, m)
      BY <2>7, <2>8, <2>9 DEF Counts
    <2> QED
      BY <2>10
  <1> QED
    BY <1>5, <1>6

LEMMA SeenCounts ==
    ASSUME NEW h \in Histograms
    PROVE  Counts(Seen(h), h, BUCKETS - 1)
  <1>1. PICK N \in Nat : N = BUCKETS - 1
    BY Buckets
  <1>2. PICK f : Counts(f, h, N)
    BY <1>1, CountsExist DEF Histograms
  <1> DEFINE Is(g) == g = [i \in 0 .. N |-> h[i] + (IF i = 0 THEN 0 ELSE g[i - 1])]
             s == CHOOSE g : Is(g)
  <1>3. Seen(h) = s
    BY <1>1 DEF Seen
  <1>4. Is(f)
    <2>1. f \in [0 .. N -> Nat] /\ h \in [0 .. N -> Nat]
      BY <1>1, <1>2 DEF Counts, Histograms
    <2>2. ASSUME NEW i \in 0 .. N PROVE f[i] = h[i] + (IF i = 0 THEN 0 ELSE f[i - 1])
      BY <1>2, <2>1 DEF Counts
    <2> QED
      BY <2>1, <2>2
  <1>5. Is(s)
    <2> HIDE DEF Is
    <2> QED
      BY <1>4
  <1> HIDE DEF s
  <1>6. \A i \in 0 .. N : s[i] = h[i] + (IF i = 0 THEN 0 ELSE s[i - 1])
    BY <1>5
  <1>7. DOMAIN s = 0 .. N /\ s = [i \in 0 .. N |-> s[i]]
    BY <1>5
  <1>8. h \in [0 .. N -> Nat]
    BY <1>1 DEF Histograms
  <1>9. \A i \in 0 .. N : s[i] \in Nat
    <2> DEFINE T == {i \in 0 .. N : s[i] \notin Nat}
    <2>1. SUFFICES ASSUME T # {} PROVE FALSE
      BY SMT
    <2>2. T \subseteq Nat
      OBVIOUS
    <2>3. PICK m \in T : \A k \in T : m <= k
      <3> HIDE DEF T
      <3> QED
        BY <2>1, <2>2, WellOrder
    <2>4. CASE m = 0
      BY <1>6, <1>8, <2>3, <2>4
    <2>5. CASE m # 0
      <3>1. m - 1 \in 0 .. N /\ m - 1 \notin T
        BY <2>3, <2>5
      <3> QED
        BY <1>6, <1>8, <2>3, <2>5, <3>1
    <2> QED
      BY <2>4, <2>5
  <1>10. s \in [0 .. N -> Nat]
    BY <1>7, <1>9
  <1>11. s[0] = h[0]
    BY <1>6, <1>8
  <1>12. \A i \in 1 .. N : s[i] = h[i] + s[i - 1]
    BY <1>6
  <1> QED
    BY <1>1, <1>3, <1>10, <1>11, <1>12 DEF Counts

\* Every value has a bucket.
LEMMA BucketTyped ==
    ASSUME NEW v \in Int
    PROVE  BucketOf(v) \in 0 .. BUCKETS - 1
  <1>1. PICK l \in Nat \ {0}, d \in Nat \ {0}, f \in Nat \ {0}, n \in Nat, c \in Nat \ {0} :
            /\ l = FINE_LIMIT_US /\ d = FINE_US /\ f = FINE_BUCKETS /\ n = BUCKETS
            /\ c = COARSE_US /\ l = d * f /\ n > f
    BY Buckets, StatsAssumption
  <1>2. CASE v <= 0
    BY <1>1, <1>2 DEF BucketOf
  <1>3. CASE 0 < v /\ v < l
    <2>1. v \div d \in Nat /\ v % d \in Nat /\ v = (d * (v \div d)) + (v % d)
      BY <1>3, Quotient
    <2>2. PICK q \in Nat, r \in Nat : q = v \div d /\ v = (d * q) + r
      BY <2>1
    <2>3. q < f
      <3>1. SUFFICES ASSUME f <= q PROVE FALSE
        OBVIOUS
      <3>2. d * f <= d * q
        BY <3>1, Scaled
      <3>3. d * f \in Nat /\ d * q \in Nat
        OBVIOUS
      <3> QED
        BY <1>1, <1>3, <2>2, <3>2, <3>3
    <2> QED
      BY <1>1, <1>3, <2>2, <2>3 DEF BucketOf
  <1>4. CASE l <= v
    <2>1. PICK q \in Nat : q = (v - l) \div c
      <3>1. v - l \in Nat
        BY <1>4
      <3> QED
        BY <3>1, Quotient
    <2>2. BucketOf(v) = Min({f + q, n - 1})
      BY <1>1, <1>4, <2>1 DEF BucketOf
    <2>3. n - 1 \in Nat /\ f + q \in Nat
      BY <1>1
    <2>4. BucketOf(v) = IF n - 1 <= f + q THEN n - 1 ELSE f + q
      BY <2>2, <2>3, LeastOfFew
    <2> QED
      BY <1>1, <2>3, <2>4
  <1> QED
    BY <1>1, <1>2, <1>3, <1>4

LEMMA Bumped ==
    ASSUME NEW h \in Histograms, NEW v \in Int
    PROVE  /\ Bump(h, v) \in Histograms
           /\ \A i \in 0 .. BUCKETS - 1 :
                  Bump(h, v)[i] = h[i] + (IF i = BucketOf(v) THEN 1 ELSE 0)
  <1>1. PICK b \in 0 .. BUCKETS - 1 : b = BucketOf(v)
    BY BucketTyped
  <1>2. Bump(h, v) = [h EXCEPT ![b] = h[b] + 1]
    BY <1>1 DEF Bump
  <1>3. h \in [0 .. BUCKETS - 1 -> Nat]
    BY DEF Histograms
  <1>4. /\ [h EXCEPT ![b] = h[b] + 1] \in [0 .. BUCKETS - 1 -> Nat]
        /\ \A i \in 0 .. BUCKETS - 1 :
               [h EXCEPT ![b] = h[b] + 1][i] = h[i] + (IF i = b THEN 1 ELSE 0)
    BY <1>3
  <1> QED
    BY <1>1, <1>2, <1>4 DEF Histograms

\* One value more is seen from its bucket on.
LEMMA BumpSeen ==
    ASSUME NEW h \in Histograms, NEW v \in Int
    PROVE  \A i \in 0 .. BUCKETS - 1 :
               Seen(Bump(h, v))[i] = Seen(h)[i] + (IF BucketOf(v) <= i THEN 1 ELSE 0)
  <1>1. PICK N \in Nat : N = BUCKETS - 1
    BY Buckets
  <1>2. PICK b \in 0 .. N : b = BucketOf(v)
    BY <1>1, BucketTyped
  <1>3. PICK g \in [0 .. N -> Nat] :
            /\ g = Bump(h, v) /\ g \in Histograms
            /\ \A i \in 0 .. N : g[i] = h[i] + (IF i = b THEN 1 ELSE 0)
    BY <1>1, <1>2, Bumped DEF Histograms
  <1>4. PICK old : old = Seen(h) /\ Counts(old, h, N)
    BY <1>1, SeenCounts
  <1>5. PICK new : new = Seen(g) /\ Counts(new, g, N)
    BY <1>1, <1>3, SeenCounts
  <1> DEFINE T == {i \in 0 .. N : new[i] # old[i] + (IF b <= i THEN 1 ELSE 0)}
  <1>6. SUFFICES ASSUME T # {} PROVE FALSE
    <2>1. T = {} => \A i \in 0 .. N : new[i] = old[i] + (IF b <= i THEN 1 ELSE 0)
      BY SMT
    <2> HIDE DEF T
    <2> QED
      BY <1>1, <1>2, <1>3, <1>4, <1>5, <1>6, <2>1
  <1>7. T \subseteq Nat
    OBVIOUS
  <1>8. PICK m \in T : \A k \in T : m <= k
    <2> HIDE DEF T
    <2> QED
      BY <1>6, <1>7, WellOrder
  <1>9. m \in 0 .. N /\ new[m] # old[m] + (IF b <= m THEN 1 ELSE 0)
    OBVIOUS
  <1>10. h \in [0 .. N -> Nat]
    BY <1>1 DEF Histograms
  <1>11. CASE m = 0
    BY <1>2, <1>3, <1>4, <1>5, <1>9, <1>10, <1>11 DEF Counts
  <1>12. CASE m # 0
    <2>1. m - 1 \in 0 .. N /\ m - 1 \notin T
      BY <1>8, <1>9, <1>12
    <2>2. new[m - 1] = old[m - 1] + (IF b <= m - 1 THEN 1 ELSE 0)
      BY <2>1
    <2>3. m \in 1 .. N
      BY <1>9, <1>12
    <2>4. new[m] = g[m] + new[m - 1] /\ old[m] = h[m] + old[m - 1]
      BY <1>4, <1>5, <2>3 DEF Counts
    <2>5. old[m - 1] \in Nat /\ h[m] \in Nat /\ g[m] = h[m] + (IF m = b THEN 1 ELSE 0)
      BY <1>3, <1>4, <1>9, <1>10, <2>1 DEF Counts
    <2>6. PICK x \in Nat, y \in Nat : x = old[m - 1] /\ y = h[m]
      BY <2>5
    <2>7. old[m] = y + x
      BY <2>4, <2>6
    <2>8. new[m] = (y + (IF m = b THEN 1 ELSE 0)) + (x + (IF b <= m - 1 THEN 1 ELSE 0))
      BY <2>2, <2>4, <2>5, <2>6
    <2> HIDE DEF T
    <2> QED
      BY <1>2, <1>9, <2>3, <2>7, <2>8
  <1> QED
    BY <1>9, <1>11, <1>12

\* One value more counts once.
LEMMA BumpTotal ==
    ASSUME NEW h \in Histograms, NEW v \in Int
    PROVE  Total(h) \in Nat /\ Total(Bump(h, v)) = Total(h) + 1
  <1>1. BUCKETS - 1 \in 0 .. BUCKETS - 1 /\ BucketOf(v) <= BUCKETS - 1
    BY Buckets, BucketTyped
  <1>2. Total(h) \in Nat
    BY <1>1, SeenCounts DEF Total, Counts
  <1> QED
    BY <1>1, <1>2, BumpSeen DEF Total

\* In an empty histogram nothing is seen.
LEMMA EmptySeen ==
    /\ Empty \in Histograms
    /\ \A i \in 0 .. BUCKETS - 1 : Seen(Empty)[i] = 0
    /\ Total(Empty) = 0
  <1>1. PICK N \in Nat : N = BUCKETS - 1
    BY Buckets
  <1>2. Empty \in Histograms /\ \A i \in 0 .. N : Empty[i] = 0
    BY <1>1 DEF Empty, Histograms
  <1>3. PICK s : s = Seen(Empty) /\ Counts(s, Empty, N)
    BY <1>1, <1>2, SeenCounts
  <1> DEFINE T == {i \in 0 .. N : s[i] # 0}
  <1>4. T = {}
    <2>1. SUFFICES ASSUME T # {} PROVE FALSE
      OBVIOUS
    <2>2. T \subseteq Nat
      OBVIOUS
    <2>3. PICK m \in T : \A k \in T : m <= k
      <3> HIDE DEF T
      <3> QED
        BY <2>1, <2>2, WellOrder
    <2>4. CASE m = 0
      BY <1>2, <1>3, <2>4 DEF Counts
    <2>5. CASE m # 0
      <3>1. m - 1 \in 0 .. N /\ m - 1 \notin T /\ m \in 1 .. N
        BY <2>3, <2>5
      <3>2. s[m - 1] = 0 /\ s[m] = Empty[m] + s[m - 1] /\ Empty[m] = 0
        BY <1>2, <1>3, <3>1 DEF Counts
      <3> QED
        BY <2>3, <3>2
    <2> QED
      BY <2>4, <2>5
  <1>5. \A i \in 0 .. N : s[i] = 0
    BY <1>4
  <1>6. N \in 0 .. N
    OBVIOUS
  <1> QED
    BY <1>1, <1>2, <1>3, <1>5, <1>6 DEF Total

------------------------------------------------------------------------------
\* A greater value is in no lower bucket.
LEMMA BucketMonotone ==
    ASSUME NEW x \in Int, NEW y \in Int, x <= y
    PROVE  BucketOf(x) <= BucketOf(y)
  <1>1. PICK l \in Nat \ {0}, d \in Nat \ {0}, f \in Nat \ {0}, n \in Nat, c \in Nat \ {0} :
            /\ l = FINE_LIMIT_US /\ d = FINE_US /\ f = FINE_BUCKETS /\ n = BUCKETS
            /\ c = COARSE_US /\ l = d * f /\ n > f
    BY Buckets, StatsAssumption
  <1>2. ASSUME NEW a \in Nat, NEW b \in Nat, NEW e \in Nat \ {0}, a <= b
        PROVE  a \div e \in Nat /\ b \div e \in Nat /\ a \div e <= b \div e
    <2>1. PICK q \in Nat, r \in Nat : q = a \div e /\ r < e /\ a = (e * q) + r
      BY Quotient
    <2>2. PICK p \in Nat, s \in Nat : p = b \div e /\ s < e /\ b = (e * p) + s
      BY Quotient
    <2>3. q <= p
      <3>1. SUFFICES ASSUME p + 1 <= q PROVE FALSE
        OBVIOUS
      <3>2. e * (p + 1) <= e * q /\ e * (p + 1) = (e * p) + e
        BY <3>1, Scaled
      <3>3. e * p \in Nat /\ e * q \in Nat
        OBVIOUS
      <3> QED
        BY <1>2, <2>1, <2>2, <3>2, <3>3
    <2> QED
      BY <2>1, <2>2, <2>3
  <1>3. BucketOf(x) \in 0 .. n - 1 /\ BucketOf(y) \in 0 .. n - 1
    BY <1>1, BucketTyped
  <1>4. CASE x <= 0
    BY <1>1, <1>3, <1>4 DEF BucketOf
  <1>5. CASE 0 < x /\ y < l
    <2>1. x \in Nat /\ y \in Nat /\ x \div d <= y \div d
      BY <1>2, <1>5
    <2> QED
      BY <1>1, <1>5, <2>1 DEF BucketOf
  <1> DEFINE Coarse(v) == IF n - 1 <= f + ((v - l) \div c) THEN n - 1 ELSE f + ((v - l) \div c)
  <1>6. ASSUME NEW v \in Int, l <= v
        PROVE  /\ v - l \in Nat /\ (v - l) \div c \in Nat
               /\ BucketOf(v) = Coarse(v)
    <2>1. v - l \in Nat
      BY <1>6
    <2>2. PICK q \in Nat : q = (v - l) \div c
      BY <2>1, Quotient
    <2>3. BucketOf(v) = Min({f + q, n - 1})
      BY <1>1, <1>6, <2>2 DEF BucketOf
    <2>4. n - 1 \in Nat /\ f + q \in Nat
      BY <1>1
    <2> QED
      BY <2>1, <2>2, <2>3, <2>4, LeastOfFew
  <1>7. CASE 0 < x /\ x < l /\ l <= y
    <2>1. BucketOf(x) = x \div d
      BY <1>1, <1>7 DEF BucketOf
    <2>2. PICK q \in Nat, r \in Nat : q = x \div d /\ x = (d * q) + r
      <3>1. x \in Nat
        BY <1>7
      <3> QED
        BY <3>1, Quotient
    <2>3. q < f
      <3>1. SUFFICES ASSUME f <= q PROVE FALSE
        OBVIOUS
      <3>2. d * f <= d * q /\ d * f \in Nat /\ d * q \in Nat
        BY <3>1, Scaled
      <3> QED
        BY <1>1, <1>7, <2>2, <3>2
    <2>4. BucketOf(y) >= f
      <3>1. PICK p \in Nat : p = (y - l) \div c /\ BucketOf(y) = Coarse(y)
        BY <1>6, <1>7
      <3> QED
        BY <1>1, <3>1
    <2> QED
      BY <1>3, <2>1, <2>2, <2>3, <2>4
  <1>8. CASE l <= x
    <2>1. l <= y
      BY <1>8
    <2>2. /\ x - l \in Nat /\ y - l \in Nat /\ x - l <= y - l
          /\ BucketOf(x) = Coarse(x) /\ BucketOf(y) = Coarse(y)
      BY <1>6, <1>8, <2>1
    <2>3. PICK p \in Nat, q \in Nat : p = (x - l) \div c /\ q = (y - l) \div c /\ p <= q
      BY <1>2, <2>2
    <2> QED
      BY <1>1, <2>2, <2>3
  <1> QED
    BY <1>4, <1>5, <1>7, <1>8

\* A value is below the upper edge of its bucket by no more than its width, or beyond
\* the last.
LEMMA EdgeOfItsBucket ==
    ASSUME NEW v \in Nat
    PROVE  LET edge == EdgeOf(BucketOf(v))
           IN  \/ v < edge /\ edge - v <= (IF v < FINE_LIMIT_US THEN FINE_US ELSE COARSE_US)
               \/ v >= EdgeOf(BUCKETS - 1) /\ edge = EdgeOf(BUCKETS - 1)
  <1>1. PICK l \in Nat \ {0}, d \in Nat \ {0}, f \in Nat \ {0}, n \in Nat, c \in Nat \ {0} :
            /\ l = FINE_LIMIT_US /\ d = FINE_US /\ f = FINE_BUCKETS /\ n = BUCKETS
            /\ c = COARSE_US /\ l = d * f /\ n > f
    BY Buckets, StatsAssumption
  <1>2. CASE v < l
    <2>1. PICK q \in Nat, r \in Nat : q = v \div d /\ r < d /\ v = (d * q) + r
      BY Quotient
    <2>2. BucketOf(v) = q
      <3>1. CASE v = 0
        <4>1. q = 0
          <5>1. SUFFICES ASSUME 1 <= q PROVE FALSE
            OBVIOUS
          <5>2. d * 1 <= d * q /\ d * 1 = d /\ d * q \in Nat
            BY <5>1, Scaled
          <5> QED
            BY <2>1, <3>1, <5>2
        <4> QED
          BY <3>1, <4>1 DEF BucketOf
      <3>2. CASE v # 0
        BY <1>1, <1>2, <2>1, <3>2 DEF BucketOf
      <3> QED
        BY <3>1, <3>2
    <2>3. q < f
      <3>1. SUFFICES ASSUME f <= q PROVE FALSE
        OBVIOUS
      <3>2. d * f <= d * q /\ d * f \in Nat /\ d * q \in Nat
        BY <3>1, Scaled
      <3> QED
        BY <1>1, <1>2, <2>1, <3>2
    <2>4. EdgeOf(BucketOf(v)) = (d * q) + d
      <3>1. (q + 1) * d = (d * q) + d
        OBVIOUS
      <3> QED
        BY <1>1, <2>2, <2>3, <3>1 DEF EdgeOf
    <2>5. PICK x \in Nat : x = d * q
      OBVIOUS
    <2>6. v < x + d /\ (x + d) - v <= d
      BY <2>1, <2>5
    <2> QED
      BY <1>1, <1>2, <2>4, <2>5, <2>6
  <1>3. CASE l <= v
    <2>1. v - l \in Nat
      BY <1>3
    <2>2. PICK q \in Nat, r \in Nat : q = (v - l) \div c /\ r < c /\ v - l = (c * q) + r
      BY <2>1, Quotient
    <2>3. BucketOf(v) = IF n - 1 <= f + q THEN n - 1 ELSE f + q
      <3>1. BucketOf(v) = Min({f + q, n - 1})
        BY <1>1, <1>3, <2>2 DEF BucketOf
      <3>2. n - 1 \in Nat /\ f + q \in Nat
        BY <1>1
      <3> QED
        BY <3>1, <3>2, LeastOfFew
    <2>4. PICK x \in Nat : x = c * q
      OBVIOUS
    <2>5. CASE f + q <= n - 1
      <3>1. BucketOf(v) = f + q
        BY <1>1, <2>3, <2>5
      <3>2. EdgeOf(f + q) = l + ((f + q - f + 1) * c)
        BY <1>1 DEF EdgeOf
      <3>3. (f + q - f + 1) * c = x + c
        BY <2>4
      <3>4. v < l + (x + c) /\ (l + (x + c)) - v <= c
        BY <2>2, <2>4
      <3> QED
        BY <1>1, <1>3, <3>1, <3>2, <3>3, <3>4
    <2>6. CASE ~(f + q <= n - 1)
      <3>1. BucketOf(v) = n - 1
        BY <1>1, <2>3, <2>6
      <3>2. PICK k \in Nat : k = (n - 1) - f + 1 /\ k <= q
        <4>1. (n - 1) - f + 1 \in Nat /\ (n - 1) - f + 1 <= q
          BY <1>1, <2>6
        <4> QED
          BY <4>1
      <3>3. EdgeOf(n - 1) = l + (k * c)
        BY <1>1, <3>2 DEF EdgeOf
      <3>4. k * c <= x
        <4>1. c * k <= c * q /\ c * k = k * c
          BY <3>2, Scaled
        <4> QED
          BY <2>4, <4>1
      <3>5. k * c \in Nat
        OBVIOUS
      <3>6. v >= l + (k * c)
        BY <2>2, <2>4, <3>4, <3>5
      <3> QED
        BY <1>1, <3>1, <3>3, <3>6
    <2> QED
      BY <1>1, <2>5, <2>6
  <1> QED
    BY <1>1, <1>2, <1>3

\* The round trips so far whose bucket is not above i.
Within(i, s) == {k \in 1 .. Len(s) : BucketOf(s[k].rtt) <= i}

\* The histogram of round trips has seen each sample in its bucket.
RttInv ==
    /\ samples.rtt \in Histograms
    /\ \A i \in 0 .. BUCKETS - 1 : Seen(samples.rtt)[i] = Cardinality(Within(i, taken))

LEMMA RttInit == Init => RttInv
  <1> SUFFICES ASSUME Init PROVE RttInv
    OBVIOUS
  <1>1. samples.rtt = Empty /\ taken = << >>
    BY DEF Init, NewSamples
  <1>2. \A i \in 0 .. BUCKETS - 1 : Within(i, taken) = {}
    BY <1>1 DEF Within
  <1> QED
    BY <1>1, <1>2, EmptySeen, FS_EmptySet DEF RttInv

\* What add() does to the histogram of round trips.
LEMMA RttBumped ==
    ASSUME NEW t, NEW rtt, NEW offset, samples' = Add(samples, t, rtt, offset)
    PROVE  samples'.rtt = Bump(samples.rtt, rtt)
  BY DEF Add

\* A step hears an answer, and adds a sample of it, or leaves the statistics alone.
LEMMA AddsOrLeaves ==
    ASSUME SyncInv, [Next]_vars
    PROVE  \/ UNCHANGED <<samples, taken>>
           \/ \E e \in Sampled, t \in Nat :
                  /\ taken \in Seq(Sampled) /\ taken' = Append(taken, e)
                  /\ samples' = Add(samples, t, e.rtt, e.offset)
  <1>1. CASE Tick \/ Ask \/ Restart \/ (\E m \in net : Answer(m) \/ Find(m)) \/ UNCHANGED vars
    BY <1>1 DEF Tick, Ask, Restart, Answer, Find, vars, followerVars
  <1>2. ASSUME NEW m \in net, Hear(m)
        PROVE  \E e \in Sampled, t \in Nat :
                  /\ taken \in Seq(Sampled) /\ taken' = Append(taken, e)
                  /\ samples' = Add(samples, t, e.rtt, e.offset)
    <2>1. m \in Answers /\ Ordered(m)
      BY <1>2 DEF SyncInv, StampsInOrder, Hear, SyncTypeOK, Ticks, Requests, Answers
    <2>2. RoundTrip(m) \in Nat /\ Offset(m) \in Int /\ m.skew \in Int /\ m.at \in Nat
      BY <2>1, Sample DEF Answers
    <2>3. PICK e \in Sampled :
              /\ e.rtt = RoundTrip(m) /\ e.offset = Offset(m)
              /\ e = [rtt |-> RoundTrip(m), offset |-> Offset(m), skew |-> m.skew]
      BY <2>2 DEF Sampled
    <2>4. taken' = Append(taken, e) /\ samples' = Add(samples, m.at, e.rtt, e.offset)
      BY <1>2, <2>2, <2>3 DEF Hear
    <2>5. taken \in Seq(Sampled)
      BY DEF SyncInv, SyncTypeOK, Sampled
    <2> QED
      BY <2>2, <2>4, <2>5
  <1> QED
    BY <1>1, <1>2 DEF Next

LEMMA RttNext ==
    ASSUME SyncInv, RttInv, [Next]_vars
    PROVE  RttInv'
  <1>1. CASE UNCHANGED <<samples, taken>>
    BY <1>1 DEF RttInv, Within
  <1>2. ASSUME NEW e \in Sampled, NEW t \in Nat,
               taken \in Seq(Sampled), taken' = Append(taken, e),
               samples' = Add(samples, t, e.rtt, e.offset)
        PROVE  RttInv'
    <2>1. PICK h \in Histograms : h = samples.rtt
      BY DEF RttInv
    <2>2. samples'.rtt = Bump(h, e.rtt) /\ e.rtt \in Int
      BY <1>2, <2>1, RttBumped DEF Sampled
    <2>3. PICK n \in Nat : n = Len(taken)
      BY <1>2
    <2>4. Len(taken') = n + 1 /\ taken'[n + 1] = e /\ \A k \in 1 .. n : taken'[k] = taken[k]
      BY <1>2, <2>3, OneMore
    <2>5. ASSUME NEW i \in 0 .. BUCKETS - 1
          PROVE  Seen(samples'.rtt)[i] = Cardinality(Within(i, taken'))
      <3>1. Within(i, taken) \subseteq 1 .. n /\ n + 1 \notin 1 .. n
        BY <2>3 DEF Within
      <3>2. IsFiniteSet(Within(i, taken))
        <4>1. IsFiniteSet(1 .. n) /\ Within(i, taken) \in SUBSET (1 .. n)
          BY <3>1, FS_Interval
        <4> QED
          BY <4>1, FS_Subset
      <3>3. \A k \in 1 .. n + 1 : k \in 1 .. n \/ k = n + 1
        OBVIOUS
      <3>4. \A k \in 1 .. n : k \in Within(i, taken') <=> k \in Within(i, taken)
        BY <2>3, <2>4 DEF Within
      <3>5. n + 1 \in Within(i, taken') <=> BucketOf(e.rtt) <= i
        BY <2>4 DEF Within
      <3>6. Within(i, taken') \subseteq 1 .. n + 1
        BY <2>4 DEF Within
      <3>7. Within(i, taken') =
                IF BucketOf(e.rtt) <= i THEN Within(i, taken) \cup {n + 1} ELSE Within(i, taken)
        <4> DEFINE in == BucketOf(e.rtt) <= i
                   S == Within(i, taken)
                   S2 == Within(i, taken')
        <4>1. /\ S \subseteq 1 .. n /\ n + 1 \notin 1 .. n
              /\ \A k \in 1 .. n + 1 : k \in 1 .. n \/ k = n + 1
              /\ \A k \in 1 .. n : k \in S2 <=> k \in S
              /\ n + 1 \in S2 <=> in
              /\ S2 \subseteq 1 .. n + 1
          BY <3>1, <3>3, <3>4, <3>5, <3>6
        <4> HIDE DEF in, S, S2
        <4>2. ASSUME in PROVE S2 = S \cup {n + 1}
          <5>1. \A k \in S2 : k \in S \cup {n + 1}
            BY <4>1
          <5>2. n + 1 \in S2 /\ \A k \in S : k \in S2
            BY <4>1, <4>2
          <5> QED
            BY <5>1, <5>2
        <4>3. ASSUME ~in PROVE S2 = S
          <5>1. \A k \in S2 : k \in S
            BY <4>1, <4>3
          <5>2. \A k \in S : k \in S2
            BY <4>1
          <5> QED
            BY <5>1, <5>2
        <4> QED
          BY <4>2, <4>3 DEF in, S, S2
      <3>8. Cardinality(Within(i, taken) \cup {n + 1}) = Cardinality(Within(i, taken)) + 1
        BY <3>1, <3>2, FS_AddElement
      <3>9. Seen(h)[i] = Cardinality(Within(i, taken)) /\ Cardinality(Within(i, taken)) \in Nat
        BY <2>1, <3>2, FS_CardinalityType DEF RttInv
      <3>10. Seen(samples'.rtt)[i] = Seen(h)[i] + (IF BucketOf(e.rtt) <= i THEN 1 ELSE 0)
        BY <2>2, BumpSeen
      <3> QED
        BY <3>7, <3>8, <3>9, <3>10
    <2> QED
      BY <2>2, <2>5, Bumped DEF RttInv
  <1> QED
    BY <1>1, <1>2, AddsOrLeaves

\* The rank of a percentile, rounded up, is reached by a count just when the count is
\* no less than that share of all.
LEMMA RoundedUp ==
    ASSUME NEW n \in Nat, NEW p \in Nat, NEW c \in Nat
    PROVE  LET rank == ((n * p) + 99) \div 100
           IN  rank \in Nat /\ (c >= rank <=> 100 * c >= p * n)
  <1>1. PICK x \in Nat : x = n * p /\ x = p * n
    OBVIOUS
  <1>2. (x + 99) \div 100 \in Nat /\ (c >= (x + 99) \div 100 <=> 100 * c >= x)
    OBVIOUS
  <1> QED
    BY <1>1, <1>2

\* What is shown as a percentile is the upper edge of the bucket in which the one of
\* that rank is.
LEMMA ShownEdge ==
    ASSUME RttInv, taken \in Seq(Sampled), NEW p \in Nat,
           NEW j \in Samples, NearestRank(taken[j].rtt, p)
    PROVE  Percentile(samples.rtt, p) = EdgeOf(BucketOf(taken[j].rtt))
  <1>1. PICK n \in Nat : n = Len(taken) /\ n # 0
    BY DEF Samples
  <1>2. ASSUME NEW k \in 1 .. n PROVE taken[k].rtt \in Nat
    <2>1. taken[k] \in Sampled
      BY <1>1
    <2> QED
      BY <2>1 DEF Sampled
  <1>3. PICK v \in Nat : v = taken[j].rtt
    BY <1>1, <1>2 DEF Samples
  <1>4. PICK b \in 0 .. BUCKETS - 1 : b = BucketOf(v)
    BY BucketTyped
  <1>5. PICK seen : /\ seen = Seen(samples.rtt)
                    /\ \A i \in 0 .. BUCKETS - 1 : seen[i] = Cardinality(Within(i, taken))
    BY DEF RttInv
  <1>6. \A S \in SUBSET (1 .. n) : IsFiniteSet(S) /\ Cardinality(S) \in Nat
    <2>1. IsFiniteSet(1 .. n)
      BY FS_Interval
    <2>2. ASSUME NEW S \in SUBSET (1 .. n) PROVE IsFiniteSet(S)
      BY <2>1, FS_Subset
    <2> QED
      BY <2>2, FS_CardinalityType
  <1>7. \A S, T \in SUBSET (1 .. n) : T \subseteq S => Cardinality(T) <= Cardinality(S)
    BY <1>6, FS_Subset
  <1> DEFINE low == {i \in 1 .. n : taken[i].rtt < v}
             upto == {i \in 1 .. n : taken[i].rtt <= v}
  <1>8. 100 * Cardinality(upto) >= p * n /\ ~(100 * Cardinality(low) >= p * n)
    <2>1. 100 * Cardinality(upto) >= p * n /\ 100 * Cardinality(low) < p * n
      BY <1>1, <1>3 DEF NearestRank, Samples
    <2>2. low \in SUBSET (1 .. n)
      OBVIOUS
    <2>3. Cardinality(low) \in Nat
      BY <1>6, <2>2
    <2> HIDE DEF low, upto
    <2> QED
      BY <2>1, <2>3
  <1>9. Total(samples.rtt) = n
    <2>1. BUCKETS - 1 \in 0 .. BUCKETS - 1
      BY Buckets
    <2>2. ASSUME NEW k \in 1 .. n PROVE BucketOf(taken[k].rtt) <= BUCKETS - 1
      <3>1. PICK x \in Int : x = taken[k].rtt
        BY <1>2
      <3>2. BucketOf(x) \in 0 .. BUCKETS - 1 /\ BUCKETS \in Nat
        BY BucketTyped, Buckets
      <3> QED
        BY <3>1, <3>2
    <2>3. Within(BUCKETS - 1, taken) = 1 .. n
      BY <1>1, <2>2 DEF Within
    <2>4. Cardinality(1 .. n) = n
      <3>1. 1 \in Int /\ n \in Int /\ ~(1 > n) /\ (n - 1) + 1 = n
        BY <1>1
      <3> QED
        BY <3>1, FS_Interval
    <2> QED
      BY <1>5, <2>1, <2>3, <2>4 DEF Total
  <1> DEFINE rank == ((n * p) + 99) \div 100
             reached == {i \in 0 .. BUCKETS - 1 : seen[i] >= rank}
  <1>10. ASSUME NEW i \in 0 .. BUCKETS - 1
         PROVE  Within(i, taken) \in SUBSET (1 .. n)
    BY <1>1 DEF Within
  <1>11. b \in reached
    <2>1. upto \subseteq Within(b, taken)
      <3> SUFFICES ASSUME NEW k \in 1 .. n, taken[k].rtt <= v
                   PROVE  BucketOf(taken[k].rtt) <= b
        BY <1>1 DEF Within
      <3> QED
        BY <1>2, <1>4, BucketMonotone
    <2>2. upto \in SUBSET (1 .. n) /\ Within(b, taken) \in SUBSET (1 .. n)
      BY <1>10
    <2> HIDE DEF upto
    <2>3. Cardinality(upto) \in Nat /\ Cardinality(Within(b, taken)) \in Nat
          /\ Cardinality(upto) <= Cardinality(Within(b, taken))
      BY <1>6, <1>7, <2>1, <2>2
    <2>4. Cardinality(upto) >= rank /\ rank \in Nat
      BY <1>8, <2>3, RoundedUp
    <2> HIDE DEF rank
    <2>5. seen[b] >= rank
      BY <1>5, <2>3, <2>4
    <2> QED
      BY <2>5
  <1>12. ASSUME NEW i \in reached PROVE b <= i
    <2>1. i \in 0 .. BUCKETS - 1 /\ seen[i] >= rank
      OBVIOUS
    <2>2. SUFFICES ASSUME i < b PROVE FALSE
      BY <1>4, <2>1, Buckets
    <2>3. Within(i, taken) \subseteq low
      <3> SUFFICES ASSUME NEW k \in 1 .. n, BucketOf(taken[k].rtt) <= i
                   PROVE  taken[k].rtt < v
        BY <1>1 DEF Within
      <3>1. SUFFICES ASSUME v <= taken[k].rtt PROVE FALSE
        BY <1>2
      <3>2. b <= BucketOf(taken[k].rtt) /\ BucketOf(taken[k].rtt) \in 0 .. BUCKETS - 1
        <4>1. PICK x \in Int : x = taken[k].rtt
          BY <1>2
        <4>2. v \in Int /\ v <= x
          BY <3>1, <4>1
        <4>3. BucketOf(v) <= BucketOf(x)
          BY <4>1, <4>2, BucketMonotone
        <4> QED
          BY <1>4, <4>1, <4>3, BucketTyped
      <3> QED
        BY <1>4, <2>1, <2>2, <3>2, Buckets
    <2>4. low \in SUBSET (1 .. n) /\ Within(i, taken) \in SUBSET (1 .. n)
      BY <1>10, <2>1
    <2> HIDE DEF low
    <2>5. Cardinality(low) \in Nat /\ Cardinality(Within(i, taken)) \in Nat
          /\ Cardinality(Within(i, taken)) <= Cardinality(low)
      BY <1>6, <1>7, <2>3, <2>4
    <2>6. ~(Cardinality(low) >= rank) /\ rank \in Nat
      BY <1>8, <2>5, RoundedUp
    <2> HIDE DEF rank
    <2>7. Cardinality(Within(i, taken)) >= rank
      BY <1>5, <2>1
    <2> QED
      BY <2>5, <2>6, <2>7
  <1>13. Min(reached) = b
    <2>1. reached \subseteq Int
      OBVIOUS
    <2> HIDE DEF reached
    <2> QED
      BY <1>11, <1>12, <2>1, LeastOf
  <1>14. Percentile(samples.rtt, p) = EdgeOf(Min(reached))
    BY <1>1, <1>5, <1>9 DEF Percentile
  <1> QED
    BY <1>3, <1>4, <1>13, <1>14

\* What is printed as a percentile is above the true one by no more than the width of
\* its bucket, or the last edge, at every width and number of buckets and of samples,
\* every delay and clock and with any number of faults.
THEOREM PercentileBracketsTheRankHolds == Spec => []PercentileBracketsTheRank
  <1> DEFINE I == SyncInv /\ RttInv
  <1>1. Init => I
    BY InitEstablishes, RttInit
  <1>2. I /\ [Next]_vars => I'
    BY StepsPreserve, RttNext
  <1>3. I => PercentileBracketsTheRank
    <2> SUFFICES ASSUME I, NEW p \in {50, 95, 99}, NEW j \in Samples,
                        NearestRank(taken[j].rtt, p)
                 PROVE  LET v == taken[j].rtt
                            shown == Percentile(samples.rtt, p)
                        IN  \/ /\ v < shown
                               /\ shown - v <= (IF v < FINE_LIMIT_US THEN FINE_US ELSE COARSE_US)
                            \/ v >= EdgeOf(BUCKETS - 1) /\ shown = EdgeOf(BUCKETS - 1)
      BY DEF PercentileBracketsTheRank
    <2>1. taken \in Seq(Sampled) /\ p \in Nat
      BY DEF SyncInv, SyncTypeOK, Sampled
    <2>2. Percentile(samples.rtt, p) = EdgeOf(BucketOf(taken[j].rtt))
      BY <2>1, ShownEdge
    <2>3. taken[j].rtt \in Nat
      <3>1. taken[j] \in Sampled
        BY <2>1 DEF Samples
      <3> QED
        BY <3>1 DEF Sampled
    <2> QED
      BY <2>2, <2>3, EdgeOfItsBucket
  <1> QED
    BY <1>1, <1>2, <1>3, PTL DEF Spec

------------------------------------------------------------------------------
(***************************************************************************)
(* What follows what: successive samples, estimates and residuals.  The    *)
(* values that a track or a burst has followed are f[1] .. f[m].           *)
(***************************************************************************)
Greatest(x, S) == x \in S /\ \A y \in S : y <= x

Between(f, m) == {Distance(f[i], f[i - 1]) : i \in 2 .. m} \cup {0}
Unexplained(f, m) == {Distance(f[i], (2 * f[i - 1]) - f[i - 2]) : i \in 3 .. m} \cup {0}

\* A track ends in the last value, and has counted and compared every distance
\* between two in turn.
TrackOK(track, f, m) ==
    /\ track \in [last : Int \cup {None}, jitter : Histograms, worst : Nat]
    /\ track.last = (IF m = 0 THEN None ELSE f[m])
    /\ Total(track.jitter) = (IF m = 0 THEN 0 ELSE m - 1)
    /\ Greatest(track.worst, Between(f, m))

LEMMA DistanceTyped ==
    ASSUME NEW x \in Int, NEW y \in Int
    PROVE  Distance(x, y) \in Nat
  BY DEF Distance

\* The greatest of what there was and one more.
LEMMA GreatestOfMore ==
    ASSUME NEW S, S \subseteq Nat, NEW x, Greatest(x, S), NEW y \in Nat
    PROVE  Greatest(Max({x, y}), S \cup {y})
  <1>1. x \in Nat /\ \A z \in S : z <= x
    BY DEF Greatest
  <1> DEFINE g == IF x <= y THEN y ELSE x
  <1>2. {x, y} \subseteq Int /\ g \in {x, y} /\ \A z \in {x, y} : z <= g
    BY <1>1
  <1> HIDE DEF g
  <1>3. Max({x, y}) = g
    BY <1>2, GreatestOf
  <1>4. g \in S \cup {y} /\ \A z \in S \cup {y} : z <= g
    <2>1. CASE x <= y
      <3>1. \A z \in S : z \in Nat /\ z <= x
        BY <1>1
      <3> QED
        BY <1>1, <2>1, <3>1 DEF g
    <2>2. CASE ~(x <= y)
      BY <1>1, <2>2 DEF g, Greatest
    <2> QED
      BY <2>1, <2>2
  <1> QED
    BY <1>3, <1>4 DEF Greatest

LEMMA NoTrackOK ==
    ASSUME NEW f
    PROVE  TrackOK(NoTrack, f, 0)
  <1>1. 2 .. 0 = {}
    OBVIOUS
  <1>2. Between(f, 0) = {0}
    BY <1>1 DEF Between
  <1>3. NoTrack \in [last : Int \cup {None}, jitter : Histograms, worst : Nat]
    BY EmptySeen DEF NoTrack
  <1> QED
    BY <1>2, <1>3, EmptySeen DEF TrackOK, Greatest, NoTrack

\* The distances between the values so far are no others when a value more is
\* followed.
LEMMA BetweenMore ==
    ASSUME NEW m \in Nat, NEW f, NEW g, \A i \in 1 .. m : g[i] = f[i]
    PROVE  /\ Between(g, m) = Between(f, m)
           /\ m > 0 => Between(g, m + 1) = Between(f, m) \cup {Distance(g[m + 1], f[m])}
           /\ m = 0 => Between(g, m + 1) = Between(f, m)
  <1>1. \A i \in 2 .. m : g[i] = f[i] /\ g[i - 1] = f[i - 1]
    <2>1. \A i \in 2 .. m : i \in 1 .. m /\ i - 1 \in 1 .. m
      OBVIOUS
    <2> QED
      BY <2>1
  <1>2. \A i \in 2 .. m : Distance(g[i], g[i - 1]) = Distance(f[i], f[i - 1])
    BY <1>1
  <1>3. Between(g, m) = Between(f, m)
    BY <1>2 DEF Between
  <1>4. ASSUME m > 0
        PROVE  Between(g, m + 1) = Between(f, m) \cup {Distance(g[m + 1], f[m])}
    <2>1. \A i \in 2 .. m + 1 : i \in 2 .. m \/ i = m + 1
      OBVIOUS
    <2>2. (m + 1) - 1 = m /\ g[m] = f[m] /\ m + 1 \in 2 .. m + 1
      BY <1>4
    <2>3. \A i \in 2 .. m : i \in 2 .. m + 1
      OBVIOUS
    <2>4. Between(g, m + 1) = Between(g, m) \cup {Distance(g[m + 1], g[(m + 1) - 1])}
      BY <1>4, <2>1, <2>2, <2>3 DEF Between
    <2> QED
      BY <1>3, <2>2, <2>4
  <1>5. ASSUME m = 0 PROVE Between(g, m + 1) = Between(f, m)
    <2>1. 2 .. 0 = {} /\ 2 .. 1 = {}
      OBVIOUS
    <2> QED
      BY <1>5, <2>1 DEF Between
  <1> QED
    BY <1>3, <1>4, <1>5

LEMMA FollowKeeps ==
    ASSUME NEW m \in Nat, NEW f, NEW g, \A i \in 1 .. m : g[i] = f[i] /\ f[i] \in Int,
           NEW track, TrackOK(track, f, m), NEW x \in Int, g[m + 1] = x
    PROVE  TrackOK(Follow(track, x), g, m + 1)
  <1> DEFINE new == Follow(track, x)
  <1>1. track \in [last : Int \cup {None}, jitter : Histograms, worst : Nat]
    BY DEF TrackOK
  <1>2. \A i \in 1 .. m : g[i] = f[i]
    OBVIOUS
  <1>3. CASE m = 0
    <2>1. track.last = None
      BY <1>3 DEF TrackOK
    <2>2. new = [track EXCEPT !.last = x]
      BY <2>1 DEF Follow
    <2>3. /\ new \in [last : Int \cup {None}, jitter : Histograms, worst : Nat]
          /\ new.last = x /\ new.jitter = track.jitter /\ new.worst = track.worst
      BY <1>1, <2>2
    <2>4. Between(g, m + 1) = Between(f, m)
      BY <1>2, <1>3, BetweenMore
    <2> QED
      BY <1>3, <2>3, <2>4 DEF TrackOK
  <1>4. CASE m # 0
    <2>1. m \in 1 .. m
      BY <1>4
    <2>2. track.last = f[m] /\ f[m] \in Int /\ track.last # None
      BY <1>4, <2>1, StatsAssumption DEF TrackOK
    <2> DEFINE d == Distance(x, track.last)
    <2>3. d \in Nat /\ d \in Int /\ d = Distance(g[m + 1], f[m])
      <3>1. PICK y \in Int : y = f[m]
        BY <2>2
      <3>2. Distance(x, y) \in Nat /\ d = Distance(x, y)
        BY <2>2, <3>1, DistanceTyped
      <3> QED
        BY <3>1, <3>2
    <2> HIDE DEF d
    <2>4. new = [last |-> x, jitter |-> Bump(track.jitter, d), worst |-> Max({track.worst, d})]
      BY <2>2 DEF Follow, d
    <2>5. Between(g, m + 1) = Between(f, m) \cup {d}
      BY <1>2, <1>4, <2>3, BetweenMore
    <2>6. Between(f, m) \subseteq Nat
      <3>1. \A i \in 2 .. m : f[i] \in Int /\ f[i - 1] \in Int
        <4>1. \A i \in 2 .. m : i \in 1 .. m /\ i - 1 \in 1 .. m
          OBVIOUS
        <4> QED
          BY <4>1
      <3>2. \A i \in 2 .. m : Distance(f[i], f[i - 1]) \in Nat
        BY <3>1, DistanceTyped
      <3> QED
        BY <3>2 DEF Between
    <2>7. Greatest(Max({track.worst, d}), Between(g, m + 1))
      <3>1. Greatest(track.worst, Between(f, m))
        BY DEF TrackOK
      <3> QED
        BY <2>3, <2>5, <2>6, <3>1, GreatestOfMore
    <2>8. Max({track.worst, d}) \in Nat
      BY <2>3, <2>5, <2>6, <2>7 DEF Greatest
    <2>9. /\ Bump(track.jitter, d) \in Histograms
          /\ Total(Bump(track.jitter, d)) = m
      <3>1. track.jitter \in Histograms /\ Total(track.jitter) = m - 1
        BY <1>1, <1>4 DEF TrackOK
      <3> QED
        BY <2>3, <3>1, Bumped, BumpTotal
    <2> HIDE DEF new
    <2>10. new \in [last : Int \cup {None}, jitter : Histograms, worst : Nat]
      BY <2>4, <2>8, <2>9
    <2> QED
      BY <1>4, <2>4, <2>7, <2>9, <2>10 DEF TrackOK, new
  <1> QED
    BY <1>3, <1>4

LEMMA UnexplainedMore ==
    ASSUME NEW m \in Nat, NEW f, NEW g, \A i \in 1 .. m : g[i] = f[i]
    PROVE  /\ Unexplained(g, m) = Unexplained(f, m)
           /\ m > 1 => Unexplained(g, m + 1) =
                  Unexplained(f, m) \cup {Distance(g[m + 1], (2 * f[m]) - f[m - 1])}
           /\ m <= 1 => Unexplained(g, m + 1) = Unexplained(f, m)
  <1>1. \A i \in 3 .. m : g[i] = f[i] /\ g[i - 1] = f[i - 1] /\ g[i - 2] = f[i - 2]
    <2>1. \A i \in 3 .. m : i \in 1 .. m /\ i - 1 \in 1 .. m /\ i - 2 \in 1 .. m
      OBVIOUS
    <2> QED
      BY <2>1
  <1>2. \A i \in 3 .. m : Distance(g[i], (2 * g[i - 1]) - g[i - 2])
                            = Distance(f[i], (2 * f[i - 1]) - f[i - 2])
    BY <1>1
  <1>3. Unexplained(g, m) = Unexplained(f, m)
    BY <1>2 DEF Unexplained
  <1>4. ASSUME m > 1
        PROVE  Unexplained(g, m + 1) =
                  Unexplained(f, m) \cup {Distance(g[m + 1], (2 * f[m]) - f[m - 1])}
    <2>1. \A i \in 3 .. m + 1 : i \in 3 .. m \/ i = m + 1
      OBVIOUS
    <2>2. /\ (m + 1) - 1 = m /\ (m + 1) - 2 = m - 1 /\ m \in 1 .. m /\ m - 1 \in 1 .. m
          /\ m + 1 \in 3 .. m + 1
      BY <1>4
    <2>3. g[m] = f[m] /\ g[m - 1] = f[m - 1]
      BY <2>2
    <2>4. \A i \in 3 .. m : i \in 3 .. m + 1
      OBVIOUS
    <2>5. Unexplained(g, m + 1) = Unexplained(g, m)
              \cup {Distance(g[m + 1], (2 * g[(m + 1) - 1]) - g[(m + 1) - 2])}
      BY <1>4, <2>1, <2>2, <2>4 DEF Unexplained
    <2> QED
      BY <1>3, <2>2, <2>3, <2>5
  <1>5. ASSUME m <= 1 PROVE Unexplained(g, m + 1) = Unexplained(f, m)
    <2>1. 3 .. m = {} /\ 3 .. m + 1 = {}
      BY <1>5
    <2> QED
      BY <2>1 DEF Unexplained
  <1> QED
    BY <1>3, <1>4, <1>5

\* What a constant rate does not explain of the estimates f[1] .. f[m] of a burst.
RatesOK(b, f, m) ==
    /\ b.previous = (IF m >= 2 THEN f[m - 1] ELSE None)
    /\ b.residual \in Histograms
    /\ Total(b.residual) = (IF m >= 3 THEN m - 2 ELSE 0)
    /\ Greatest(b.worst_residual, Unexplained(f, m))

LEMMA RatesKeep ==
    ASSUME NEW m \in Nat, NEW f, NEW g, \A i \in 1 .. m : g[i] = f[i] /\ f[i] \in Int,
           NEW b, TrackOK(b.best, f, m), RatesOK(b, f, m), NEW x \in Int, g[m + 1] = x,
           NEW c, c.previous = b.best.last,
           IF b.best.last # None /\ b.previous # None
           THEN /\ c.residual = Bump(b.residual, Residual(b, x))
                /\ c.worst_residual = Max({b.worst_residual, Residual(b, x)})
           ELSE c.residual = b.residual /\ c.worst_residual = b.worst_residual
    PROVE  RatesOK(c, g, m + 1)
  <1>1. \A i \in 1 .. m : g[i] = f[i]
    OBVIOUS
  <1>2. None \notin Int
    BY StatsAssumption
  <1>3. b.best.last = (IF m = 0 THEN None ELSE f[m])
    BY DEF TrackOK
  <1>4. c.previous = (IF m + 1 >= 2 THEN g[(m + 1) - 1] ELSE None)
    <2>1. CASE m = 0
      BY <1>3, <2>1
    <2>2. CASE m # 0
      <3>1. m \in 1 .. m /\ (m + 1) - 1 = m /\ m + 1 >= 2
        BY <2>2
      <3> QED
        BY <1>1, <1>3, <2>2, <3>1
    <2> QED
      BY <2>1, <2>2
  <1>5. CASE m <= 1
    <2>1. b.previous = None
      BY <1>5 DEF RatesOK
    <2>2. c.residual = b.residual /\ c.worst_residual = b.worst_residual
      BY <2>1
    <2>3. Unexplained(g, m + 1) = Unexplained(f, m)
      BY <1>1, <1>5, UnexplainedMore
    <2>4. Total(c.residual) = 0 /\ ~(m + 1 >= 3)
      BY <1>5, <2>2 DEF RatesOK
    <2> QED
      BY <1>4, <2>2, <2>3, <2>4 DEF RatesOK
  <1>6. CASE m > 1
    <2>1. m \in 1 .. m /\ m - 1 \in 1 .. m
      BY <1>6
    <2>2. PICK y \in Int, z \in Int : y = f[m] /\ z = f[m - 1]
      BY <2>1
    <2>3. b.best.last = y /\ b.previous = z /\ y # None /\ z # None
      BY <1>2, <1>3, <1>6, <2>2 DEF RatesOK
    <2> DEFINE d == Distance(x, (2 * y) - z)
    <2>4. d \in Nat /\ d \in Int /\ d = Residual(b, x)
      <3>1. (2 * y) - z \in Int
        OBVIOUS
      <3> QED
        BY <2>3, <3>1, DistanceTyped DEF Residual
    <2> HIDE DEF d
    <2>5. c.residual = Bump(b.residual, d) /\ c.worst_residual = Max({b.worst_residual, d})
      BY <2>3, <2>4
    <2>6. Unexplained(g, m + 1) = Unexplained(f, m) \cup {d}
      BY <1>1, <1>6, <2>2, UnexplainedMore DEF d
    <2>7. Unexplained(f, m) \subseteq Nat
      <3>1. \A i \in 3 .. m : i \in 1 .. m /\ i - 1 \in 1 .. m /\ i - 2 \in 1 .. m
        OBVIOUS
      <3>2. \A i \in 3 .. m : f[i] \in Int /\ f[i - 1] \in Int /\ f[i - 2] \in Int
        BY <3>1
      <3>3. \A i \in 3 .. m : f[i] \in Int /\ (2 * f[i - 1]) - f[i - 2] \in Int
        BY <3>2
      <3>4. \A i \in 3 .. m : Distance(f[i], (2 * f[i - 1]) - f[i - 2]) \in Nat
        BY <3>3, DistanceTyped
      <3> QED
        BY <3>4 DEF Unexplained
    <2>8. Greatest(c.worst_residual, Unexplained(g, m + 1))
      <3>1. Greatest(b.worst_residual, Unexplained(f, m))
        BY DEF RatesOK
      <3> QED
        BY <2>4, <2>5, <2>6, <2>7, <3>1, GreatestOfMore
    <2>9. /\ c.residual \in Histograms
          /\ Total(c.residual) = (IF m + 1 >= 3 THEN (m + 1) - 2 ELSE 0)
      <3>1. /\ b.residual \in Histograms /\ Total(b.residual) = (IF m >= 3 THEN m - 2 ELSE 0)
        BY DEF RatesOK
      <3>2. /\ c.residual \in Histograms /\ Total(c.residual) = Total(b.residual) + 1
        <4>1. PICK h \in Histograms : h = b.residual
          BY <3>1
        <4>2. Bump(h, d) \in Histograms
          BY <2>4, Bumped
        <4>3. Total(Bump(h, d)) = Total(h) + 1
          BY <2>4, BumpTotal
        <4> QED
          BY <2>5, <4>1, <4>2, <4>3
      <3> QED
        BY <1>6, <3>1, <3>2
    <2> QED
      BY <1>4, <2>8, <2>9 DEF RatesOK
  <1> QED
    BY <1>5, <1>6

------------------------------------------------------------------------------
\* The estimate of a window of the samples s.
EstimateOf(s, n, w) ==
    LET in == Window(n, w)
        quickest == {i \in in : \A j \in in : s[i].rtt <= s[j].rtt}
    IN  s[Min(quickest)].offset

\* The places of a whole window are those of samples.
LEMMA WindowIn ==
    ASSUME NEW n \in Nat \ {0}, NEW w \in Nat \ {0}, NEW m \in Nat, w * n <= m
    PROVE  Window(n, w) \subseteq 1 .. m /\ w * n \in Window(n, w)
  <1>1. PICK v \in Nat : v = w - 1
    OBVIOUS
  <1>2. PICK x \in Nat : x = v * n
    OBVIOUS
  <1>3. w * n = x + n
    <2>1. w = v + 1
      BY <1>1
    <2>2. (v + 1) * n = (v * n) + n
      OBVIOUS
    <2> QED
      BY <1>2, <2>1, <2>2
  <1>4. Window(n, w) = x + 1 .. x + n
    BY <1>1, <1>2, <1>3 DEF Window
  <1> QED
    BY <1>3, <1>4

\* The estimate of a window is its first quickest exchange.
LEMMA EstimateFirst ==
    ASSUME NEW n, NEW w, Window(n, w) \subseteq Nat,
           NEW s, \A i \in Window(n, w) : s[i].rtt \in Nat,
           NEW q, Quickest(q, Window(n, w), s)
    PROVE  EstimateOf(s, n, w) = q.offset
  <1> DEFINE in == Window(n, w)
  <1>0. in \subseteq Nat /\ Quickest(q, in, s) /\ \A i \in in : s[i].rtt \in Nat
    OBVIOUS
  <1> HIDE DEF in
  <1>1. PICK i \in in :
            /\ q.rtt = s[i].rtt /\ q.offset = s[i].offset
            /\ \A j \in in : j < i => q.rtt < s[j].rtt
    BY <1>0 DEF Quickest
  <1>2. \A j \in in : s[i].rtt <= s[j].rtt
    BY <1>0, <1>1 DEF Quickest
  <1> DEFINE quickest == {k \in in : \A j \in in : s[k].rtt <= s[j].rtt}
  <1>3. i \in quickest /\ quickest \subseteq Int
    <2>1. i \in quickest
      BY <1>2
    <2>2. quickest \subseteq in
      OBVIOUS
    <2>3. \A k \in in : k \in Int
      BY <1>0
    <2> QED
      BY <2>1, <2>2, <2>3
  <1>4. ASSUME NEW k \in quickest PROVE i <= k
    <2>1. k \in in /\ k \in Nat /\ i \in Nat /\ s[k].rtt <= s[i].rtt
      <3>1. k \in in /\ s[k].rtt <= s[i].rtt
        OBVIOUS
      <3> QED
        BY <1>0, <3>1
    <2>2. SUFFICES ASSUME k < i PROVE FALSE
      BY <2>1
    <2>3. s[i].rtt < s[k].rtt
      BY <1>1, <2>1, <2>2
    <2>4. s[i].rtt \in Nat /\ s[k].rtt \in Nat
      BY <1>0, <2>1
    <2> QED
      BY <2>1, <2>3, <2>4
  <1>5. Min(quickest) = i
    <2> HIDE DEF quickest
    <2> QED
      BY <1>3, <1>4, LeastOf
  <1> QED
    BY <1>1, <1>5 DEF EstimateOf, in

\* A window has a quickest exchange.
LEMMA HasQuickest ==
    ASSUME NEW in, in \subseteq Nat, in # {}, NEW s, \A i \in in : s[i].rtt \in Nat
    PROVE  \E i \in in :
               /\ \A j \in in : s[i].rtt <= s[j].rtt
               /\ \A j \in in : j < i => s[i].rtt < s[j].rtt
  <1> DEFINE T == {s[i].rtt : i \in in}
             quickest == {k \in in : \A j \in in : s[k].rtt <= s[j].rtt}
  <1>1. T \subseteq Nat /\ T # {}
    OBVIOUS
  <1>2. PICK r \in T : \A k \in T : r <= k
    <2> HIDE DEF T
    <2> QED
      BY <1>1, WellOrder
  <1>3. PICK k \in in : s[k].rtt = r
    OBVIOUS
  <1>4. k \in quickest
    BY <1>2, <1>3
  <1>5. quickest \subseteq Nat /\ quickest # {}
    BY <1>4
  <1>6. PICK i \in quickest : \A j \in quickest : i <= j
    <2> HIDE DEF quickest
    <2> QED
      BY <1>5, WellOrder
  <1>7. i \in in /\ \A j \in in : s[i].rtt <= s[j].rtt
    OBVIOUS
  <1>8. ASSUME NEW j \in in, j < i PROVE s[i].rtt < s[j].rtt
    <2>1. SUFFICES ASSUME s[j].rtt <= s[i].rtt PROVE FALSE
      OBVIOUS
    <2>2. ASSUME NEW l \in in PROVE s[j].rtt <= s[l].rtt
      <3>1. s[j].rtt \in Nat /\ s[i].rtt \in Nat /\ s[l].rtt \in Nat /\ s[i].rtt <= s[l].rtt
        BY <1>7
      <3> QED
        BY <2>1, <3>1
    <2>3. j \in quickest
      BY <2>2
    <2>4. i <= j /\ i \in Nat /\ j \in Nat
      BY <1>6, <1>7, <2>3
    <2> QED
      BY <1>8, <2>4
  <1> QED
    BY <1>7, <1>8

\* The samples s have w whole windows of n, and those of u begin with them.
Fits(n, w, s) == w * n <= Len(s)
Begins(s, u) == \A i \in 1 .. Len(s) : u[i] = s[i]

\* The estimate of a window of samples is no other when samples are added.
LEMMA EstimateStays ==
    ASSUME NEW n \in Nat \ {0}, NEW s \in Seq(Sampled),
           NEW u, Begins(s, u), NEW w \in Nat \ {0}, Fits(n, w, s)
    PROVE  EstimateOf(u, n, w) = EstimateOf(s, n, w) /\ EstimateOf(s, n, w) \in Int
  <1> DEFINE in == Window(n, w)
  <1>2. in \subseteq 1 .. Len(s) /\ in # {} /\ in \subseteq Nat
    <2>1. PICK m \in Nat : m = Len(s) /\ w * n <= m
      BY DEF Fits
    <2>2. in \subseteq 1 .. m /\ w * n \in in
      BY <2>1, WindowIn
    <2> HIDE DEF in
    <2> QED
      BY <2>1, <2>2
  <1> HIDE DEF in
  <1>3. \A i \in in : u[i] = s[i] /\ s[i] \in Sampled
    <2>1. \A i \in 1 .. Len(s) : s[i] \in Sampled
      OBVIOUS
    <2> QED
      BY <1>2, <2>1 DEF Begins
  <1>4. \A i \in in : s[i].rtt \in Nat /\ s[i].offset \in Int
    BY <1>3 DEF Sampled
  <1>5. PICK i \in in : /\ \A j \in in : s[i].rtt <= s[j].rtt
                        /\ \A j \in in : j < i => s[i].rtt < s[j].rtt
    BY <1>2, <1>4, HasQuickest
  <1>6. PICK q : q = s[i]
    OBVIOUS
  <1>7. Quickest(q, in, s) /\ Quickest(q, in, u) /\ q.offset \in Int
    BY <1>3, <1>4, <1>5, <1>6 DEF Quickest
  <1>8. \A j \in in : u[j].rtt \in Nat
    BY <1>3, <1>4
  <1>9. EstimateOf(s, n, w) = q.offset
    BY <1>2, <1>4, <1>7, EstimateFirst DEF in
  <1>10. EstimateOf(u, n, w) = q.offset
    BY <1>2, <1>7, <1>8, EstimateFirst DEF in
  <1> QED
    BY <1>7, <1>9, <1>10

------------------------------------------------------------------------------
\* A burst has followed the estimate and a median of each of its whole windows, in
\* turn, and what a constant rate does not explain of the estimates.
CountedOnce(b, n, s) ==
    \E f, g \in [1 .. b.windows -> Int] :
        /\ \A w \in 1 .. b.windows : f[w] = EstimateOf(s, n, w)
        /\ TrackOK(b.best, f, b.windows) /\ TrackOK(b.median, g, b.windows)
        /\ RatesOK(b, f, b.windows)

Even(n) == \E h \in Nat \ {0} : n = 2 * h

\* A sample given to a burst keeps what it has followed.
LEMMA CountedKeeps ==
    ASSUME NEW b, NEW n \in Nat \ {0}, Even(n),
           NEW s \in Seq(Sampled), BurstOK(b, n, s), CountedOnce(b, n, s),
           NEW e \in Sampled, NEW u, u = Append(s, e), NEW t,
           NEW c, c = BurstAdd(b, t, n, e.rtt, e.offset)
    PROVE  CountedOnce(c, n, u)
  <1> DEFINE window == Append(b.window, e.offset)
             q == Quicker(b.pending, e.rtt, e.offset)
  <1>1. PICK m \in Nat : m = b.windows
    BY DEF BurstOK, InStep
  <1>2. m * n <= Len(s) /\ Len(s) \in Nat /\ m * n \in Nat
    BY <1>1, BurstCounts DEF BurstOK
  <1>3. window \in Seq(Int) /\ Len(window) = Len(b.window) + 1 /\ Len(b.window) \in Nat
        /\ Len(b.window) < n
    <2>1. e.offset \in Int
      BY DEF Sampled
    <2>2. b.window \in Seq(Int) /\ Len(b.window) < n
      BY DEF BurstOK, InStep
    <2>3. PICK w \in Seq(Int) : w = b.window
      BY <2>2
    <2>4. Append(w, e.offset) \in Seq(Int) /\ Len(Append(w, e.offset)) = Len(w) + 1
      BY <2>1, OneOffsetMore
    <2>5. Len(w) \in Nat
      OBVIOUS
    <2> QED
      BY <2>2, <2>3, <2>4, <2>5
  <1>4. q \in Exchanges
    BY Quickened
  <1>5. Becomes(b, n, q, window, c)
    BY Added DEF BurstOK, InStep
  <1>6. BurstOK(c, n, u)
    BY BurstKeeps
  <1>7. PICK f \in [1 .. m -> Int], g \in [1 .. m -> Int] :
            /\ \A w \in 1 .. m : f[w] = EstimateOf(s, n, w)
            /\ TrackOK(b.best, f, m) /\ TrackOK(b.median, g, m) /\ RatesOK(b, f, m)
    BY <1>1 DEF CountedOnce
  <1>8. ASSUME NEW w \in 1 .. m PROVE f[w] = EstimateOf(u, n, w)
    <2>1. w * n <= Len(s)
      <3>1. w * n <= m * n /\ w * n \in Nat
        BY Scaled
      <3>2. PICK x \in Nat, y \in Nat, l \in Nat : x = w * n /\ y = m * n /\ l = Len(s)
        BY <1>2, <3>1
      <3>3. x <= y /\ y <= l
        BY <1>2, <3>1, <3>2
      <3>4. x <= l
        BY <3>3
      <3> QED
        BY <3>2, <3>4
    <2>2. w \in Nat \ {0}
      OBVIOUS
    <2>3. EstimateOf(u, n, w) = EstimateOf(s, n, w)
      <3>1. Begins(s, u) /\ Fits(n, w, s)
        BY <2>1, OneMore DEF Begins, Fits
      <3> QED
        BY <2>2, <3>1, EstimateStays
    <2> QED
      BY <1>7, <2>3
  <1> HIDE DEF window, q
  <1>9. CASE Len(window) < n
    <2>1. /\ c.windows = m /\ c.best = b.best /\ c.median = b.median
          /\ c.previous = b.previous /\ c.residual = b.residual
          /\ c.worst_residual = b.worst_residual
      BY <1>1, <1>5, <1>9 DEF Becomes
    <2>2. RatesOK(c, f, m)
      BY <1>7, <2>1 DEF RatesOK
    <2> QED
      BY <1>7, <1>8, <2>1, <2>2 DEF CountedOnce
  <1>10. CASE ~(Len(window) < n)
    <2>1. /\ c.windows = m + 1
          /\ c.best = Follow(b.best, q.offset)
          /\ c.median = Follow(b.median, Median(window))
          /\ c.previous = b.best.last
          /\ IF b.best.last # None /\ b.previous # None
             THEN /\ c.residual = Bump(b.residual, Residual(b, q.offset))
                  /\ c.worst_residual = Max({b.worst_residual, Residual(b, q.offset)})
             ELSE c.residual = b.residual /\ c.worst_residual = b.worst_residual
      BY <1>1, <1>5, <1>10 DEF Becomes
    <2>2. PICK x \in Int : x = q.offset
      BY <1>4 DEF Exchanges
    <2>3. PICK y \in Int : y = Median(window)
      <3>1. Len(window) = n
        <4>1. PICK l \in Nat, k \in Nat : l = Len(b.window) /\ k = n /\ l < k
          BY <1>3
        <4>2. Len(window) = l + 1 /\ ~(Len(window) < k)
          BY <1>3, <1>10, <4>1
        <4>3. Len(window) = k
          BY <4>1, <4>2
        <4> QED
          BY <4>1, <4>3
      <3>2. PICK h \in Nat \ {0} : Len(window) = 2 * h
        BY <3>1 DEF Even
      <3> QED
        BY <1>3, <3>2, MedianIsMiddle
    <2>4. EstimateOf(u, n, m + 1) = x
      <3>1. PICK p \in Exchanges : c.best.last = p.offset /\ Quickest(p, Window(n, m + 1), u)
        <4>1. c.windows > 0
          BY <2>1
        <4> QED
          BY <1>6, <2>1, <4>1 DEF BurstOK, LastQuickest
      <3>2. c.best.last = x
        BY <2>1, <2>2, Followed
      <3>3. u \in Seq(Sampled) /\ Len(u) \in Nat /\ (m + 1) * n <= Len(u)
        <4>1. u \in Seq(Sampled) /\ Len(u) \in Nat
          OBVIOUS
        <4>2. c.windows * n <= Len(u)
          BY <1>6, <4>1, BurstCounts DEF BurstOK
        <4> QED
          BY <2>1, <4>1, <4>2
      <3>4. Window(n, m + 1) \subseteq 1 .. Len(u)
        <4>1. m + 1 \in Nat \ {0}
          OBVIOUS
        <4> QED
          BY <3>3, <4>1, WindowIn
      <3>5. \A i \in Window(n, m + 1) : u[i].rtt \in Nat /\ i \in Nat
        <4>1. \A i \in 1 .. Len(u) : u[i] \in Sampled /\ i \in Nat
          BY <3>3
        <4>2. \A i \in 1 .. Len(u) : u[i].rtt \in Nat
          BY <4>1 DEF Sampled
        <4> QED
          BY <3>4, <4>1, <4>2
      <3>6. EstimateOf(u, n, m + 1) = p.offset
        BY <3>1, <3>5, EstimateFirst
      <3> QED
        BY <3>1, <3>2, <3>6
    <2> DEFINE f2 == [w \in 1 .. m + 1 |-> IF w = m + 1 THEN x ELSE f[w]]
               g2 == [w \in 1 .. m + 1 |-> IF w = m + 1 THEN y ELSE g[w]]
    <2>5. \A w \in 1 .. m + 1 : w \in 1 .. m \/ w = m + 1
      OBVIOUS
    <2>6. /\ f2 \in [1 .. m + 1 -> Int] /\ f2[m + 1] = x
          /\ \A w \in 1 .. m : f2[w] = f[w] /\ f[w] \in Int
      BY <1>7, <2>5
    <2>7. /\ g2 \in [1 .. m + 1 -> Int] /\ g2[m + 1] = y
          /\ \A w \in 1 .. m : g2[w] = g[w] /\ g[w] \in Int
      BY <1>7, <2>5
    <2> HIDE DEF f2, g2
    <2>8. TrackOK(c.best, f2, m + 1)
      <3>1. TrackOK(Follow(b.best, x), f2, m + 1)
        BY <1>7, <2>6, FollowKeeps
      <3> QED
        BY <2>1, <2>2, <3>1
    <2>9. TrackOK(c.median, g2, m + 1)
      <3>1. TrackOK(Follow(b.median, y), g2, m + 1)
        BY <1>7, <2>7, FollowKeeps
      <3> QED
        BY <2>1, <2>3, <3>1
    <2>10. RatesOK(c, f2, m + 1)
      BY <1>7, <2>1, <2>2, <2>6, RatesKeep
    <2>11. \A w \in 1 .. m + 1 : f2[w] = EstimateOf(u, n, w)
      BY <1>8, <2>4, <2>5, <2>6
    <2> QED
      BY <2>1, <2>6, <2>7, <2>8, <2>9, <2>10, <2>11 DEF CountedOnce
  <1> QED
    BY <1>9, <1>10

LEMMA NewCounted ==
    ASSUME NEW n, NEW s
    PROVE  CountedOnce(NewBurst, n, s)
  <1>1. PICK f : f \in [1 .. 0 -> Int]
    <2>1. [i \in 1 .. 0 |-> 0] \in [1 .. 0 -> Int]
      OBVIOUS
    <2> QED
      BY <2>1
  <1>2. /\ NewBurst.windows = 0 /\ NewBurst.best = NoTrack /\ NewBurst.median = NoTrack
        /\ NewBurst.previous = None /\ NewBurst.residual = Empty
        /\ NewBurst.worst_residual = 0
    BY DEF NewBurst
  <1>3. Unexplained(f, 0) = {0} /\ 1 .. 0 = {}
    <2>1. 3 .. 0 = {} /\ 1 .. 0 = {}
      OBVIOUS
    <2> QED
      BY <2>1 DEF Unexplained
  <1>4. RatesOK(NewBurst, f, 0)
    BY <1>2, <1>3, EmptySeen DEF RatesOK, Greatest
  <1> QED
    BY <1>1, <1>2, <1>3, <1>4, NoTrackOK DEF CountedOnce

\* The statistics have followed every sample, and each burst every window.
JitterInv ==
    /\ TrackOK(samples.all, [i \in Samples |-> taken[i].offset], Len(taken))
    /\ \A k \in DOMAIN BURSTS : CountedOnce(samples.best[k], BURSTS[k], taken)

LEMMA JitterInit == Init => JitterInv
  <1> SUFFICES ASSUME Init PROVE JitterInv
    OBVIOUS
  <1>1. samples.all = NoTrack /\ Len(taken) = 0
    BY DEF Init, NewSamples
  <1>2. \A k \in DOMAIN BURSTS : samples.best[k] = NewBurst
    BY DEF Init, NewSamples
  <1> QED
    BY <1>1, <1>2, NoTrackOK, NewCounted DEF JitterInv

LEMMA AllFollowed ==
    ASSUME NEW t, NEW rtt, NEW offset, samples' = Add(samples, t, rtt, offset)
    PROVE  samples'.all = Follow(samples.all, offset)
  BY DEF Add

LEMMA JitterNext ==
    ASSUME SyncInv, BurstsInv, JitterInv, [Next]_vars
    PROVE  JitterInv'
  <1>1. CASE UNCHANGED <<samples, taken>>
    BY <1>1 DEF JitterInv, Samples
  <1>2. ASSUME NEW e \in Sampled, NEW t \in Nat,
               taken \in Seq(Sampled), taken' = Append(taken, e),
               samples' = Add(samples, t, e.rtt, e.offset)
        PROVE  JitterInv'
    <2>1. PICK s \in Seq(Sampled) : s = taken
      BY <1>2
    <2>2. PICK u : u = taken' /\ u = Append(s, e)
      BY <1>2, <2>1
    <2>3. PICK m \in Nat : m = Len(s)
      OBVIOUS
    <2>4. Len(u) = m + 1 /\ u[m + 1] = e /\ \A i \in 1 .. m : u[i] = s[i] /\ s[i] \in Sampled
      BY <2>2, <2>3, OneMore
    <2>5. TrackOK(samples'.all, [i \in 1 .. m + 1 |-> u[i].offset], m + 1)
      <3> DEFINE f == [i \in 1 .. m |-> s[i].offset]
                 g == [i \in 1 .. m + 1 |-> u[i].offset]
      <3>1. \A i \in 1 .. m : g[i] = f[i] /\ f[i] \in Int
        <4>1. \A i \in 1 .. m : i \in 1 .. m + 1 /\ s[i].offset \in Int
          BY <2>4 DEF Sampled
        <4> QED
          BY <2>4, <4>1
      <3>2. g[m + 1] = e.offset /\ e.offset \in Int
        BY <2>4 DEF Sampled
      <3>3. TrackOK(samples.all, f, m)
        BY <2>1, <2>3 DEF JitterInv, Samples
      <3> HIDE DEF f, g
      <3>4. TrackOK(Follow(samples.all, e.offset), g, m + 1)
        BY <3>1, <3>2, <3>3, FollowKeeps
      <3>5. samples'.all = Follow(samples.all, e.offset)
        BY <1>2, AllFollowed
      <3> QED
        BY <3>4, <3>5 DEF g
    <2>6. ASSUME NEW k \in DOMAIN BURSTS
          PROVE  CountedOnce(samples'.best[k], BURSTS[k], u)
      <3>1. PICK n \in Nat \ {0}, h \in Nat \ {0} : n = BURSTS[k] /\ n = 2 * h
        BY EvenBursts
      <3>2. PICK b : b = samples.best[k]
        OBVIOUS
      <3>3. PICK c : c = samples'.best[k] /\ c = BurstAdd(b, t, n, e.rtt, e.offset)
        <4>1. samples'.best[k] = BurstAdd(samples.best[k], t, BURSTS[k], e.rtt, e.offset)
          BY <1>2, Given
        <4> QED
          BY <3>1, <3>2, <4>1
      <3>4. BurstOK(b, n, s) /\ CountedOnce(b, n, s)
        BY <2>1, <3>1, <3>2 DEF BurstsInv, JitterInv
      <3>5. CountedOnce(c, n, u)
        <4>1. Even(n)
          BY <3>1 DEF Even
        <4> QED
          BY <2>2, <3>3, <3>4, <4>1, CountedKeeps
      <3> QED
        BY <3>1, <3>3, <3>5
    <2> QED
      BY <2>2, <2>4, <2>5, <2>6 DEF JitterInv, Samples
  <1> QED
    BY <1>1, <1>2, AddsOrLeaves

\* The worst of a track, and of what a rate does not explain, as a maximum.
LEMMA WorstIsMax ==
    ASSUME NEW m \in Nat, NEW f, \A i \in 1 .. m : f[i] \in Int
    PROVE  /\ \A x : Greatest(x, Between(f, m)) => x = Max(Between(f, m))
           /\ \A x : Greatest(x, Unexplained(f, m)) => x = Max(Unexplained(f, m))
  <1>1. /\ \A i \in 2 .. m : i \in 1 .. m /\ i - 1 \in 1 .. m
        /\ \A i \in 3 .. m : i \in 1 .. m /\ i - 1 \in 1 .. m /\ i - 2 \in 1 .. m
    OBVIOUS
  <1>2. \A i \in 2 .. m : Distance(f[i], f[i - 1]) \in Nat
    <2>1. \A i \in 2 .. m : f[i] \in Int /\ f[i - 1] \in Int
      BY <1>1
    <2> QED
      BY <2>1, DistanceTyped
  <1>3. \A i \in 3 .. m : Distance(f[i], (2 * f[i - 1]) - f[i - 2]) \in Nat
    <2>1. \A i \in 3 .. m : f[i] \in Int /\ f[i - 1] \in Int /\ f[i - 2] \in Int
      BY <1>1
    <2>2. \A i \in 3 .. m : f[i] \in Int /\ (2 * f[i - 1]) - f[i - 2] \in Int
      BY <2>1
    <2> QED
      BY <2>2, DistanceTyped
  <1>4. Between(f, m) \subseteq Int /\ Unexplained(f, m) \subseteq Int
    <2>1. Between(f, m) \subseteq Nat
      BY <1>2 DEF Between
    <2>2. Unexplained(f, m) \subseteq Nat
      BY <1>3 DEF Unexplained
    <2> QED
      BY <2>1, <2>2
  <1>5. ASSUME NEW S, S \subseteq Int, NEW x, Greatest(x, S) PROVE x = Max(S)
    BY <1>5, GreatestOf DEF Greatest
  <1> QED
    BY <1>4, <1>5

\* The statistics of a burst b of w whole windows of n.
AreOf(b, n, w) ==
    /\ Total(b.best.jitter) = Max({0, w - 1})
    /\ Total(b.median.jitter) = Max({0, w - 1})
    /\ Total(b.residual) = Max({0, w - 2})
    /\ b.best.worst = Max({Distance(Estimate(n, i), Estimate(n, i - 1)) : i \in 2 .. w}
                              \cup {0})
    /\ b.worst_residual =
           Max({Distance(Estimate(n, i), (2 * Estimate(n, i - 1)) - Estimate(n, i - 2)) :
                    i \in 3 .. w} \cup {0})

LEMMA CountedIs ==
    ASSUME NEW b, NEW n, NEW w \in Nat, w = b.windows, CountedOnce(b, n, taken)
    PROVE  AreOf(b, n, w)
  <1>1. PICK f \in [1 .. w -> Int], g \in [1 .. w -> Int] :
            /\ \A i \in 1 .. w : f[i] = EstimateOf(taken, n, i)
            /\ TrackOK(b.best, f, w) /\ TrackOK(b.median, g, w) /\ RatesOK(b, f, w)
    BY DEF CountedOnce
  <1>2. \A i \in 1 .. w : f[i] = Estimate(n, i)
    BY <1>1 DEF Estimate, EstimateOf
  <1>3. ASSUME NEW x \in Int PROVE Max({0, x}) = IF x >= 0 THEN x ELSE 0
    <2> DEFINE g0 == IF x >= 0 THEN x ELSE 0
    <2>1. {0, x} \subseteq Int /\ g0 \in {0, x} /\ \A y \in {0, x} : y <= g0
      OBVIOUS
    <2> HIDE DEF g0
    <2>2. Max({0, x}) = g0
      BY <2>1, GreatestOf
    <2> QED
      BY <2>2 DEF g0
  <1>4. Max({0, w - 1}) = (IF w = 0 THEN 0 ELSE w - 1)
    <2>1. w - 1 \in Int /\ (w - 1 >= 0 <=> w # 0)
      OBVIOUS
    <2> QED
      BY <1>3, <2>1
  <1>5. Max({0, w - 2}) = (IF w >= 3 THEN w - 2 ELSE 0)
    <2>1. w - 2 \in Int /\ Max({0, w - 2}) = IF w - 2 >= 0 THEN w - 2 ELSE 0
      BY <1>3
    <2> QED
      BY <2>1
  <1>6. /\ Total(b.best.jitter) = Max({0, w - 1}) /\ Total(b.median.jitter) = Max({0, w - 1})
        /\ Total(b.residual) = Max({0, w - 2})
    BY <1>1, <1>4, <1>5 DEF TrackOK, RatesOK
  <1>7. /\ \A i \in 2 .. w : i \in 1 .. w /\ i - 1 \in 1 .. w
        /\ \A i \in 3 .. w : i \in 1 .. w /\ i - 1 \in 1 .. w /\ i - 2 \in 1 .. w
    OBVIOUS
  <1>8. b.best.worst = Max({Distance(Estimate(n, i), Estimate(n, i - 1)) : i \in 2 .. w}
                               \cup {0})
    <2>1. \A i \in 2 .. w : Distance(f[i], f[i - 1])
                              = Distance(Estimate(n, i), Estimate(n, i - 1))
      BY <1>2, <1>7
    <2>2. Between(f, w) = {Distance(Estimate(n, i), Estimate(n, i - 1)) : i \in 2 .. w}
                               \cup {0}
      BY <2>1 DEF Between
    <2>3. b.best.worst = Max(Between(f, w))
      <3>1. Greatest(b.best.worst, Between(f, w)) /\ \A i \in 1 .. w : f[i] \in Int
        BY <1>1 DEF TrackOK
      <3> QED
        BY <3>1, WorstIsMax
    <2> QED
      BY <2>2, <2>3
  <1>9. b.worst_residual =
            Max({Distance(Estimate(n, i), (2 * Estimate(n, i - 1)) - Estimate(n, i - 2)) :
                    i \in 3 .. w} \cup {0})
    <2>1. \A i \in 3 .. w :
              Distance(f[i], (2 * f[i - 1]) - f[i - 2])
                = Distance(Estimate(n, i), (2 * Estimate(n, i - 1)) - Estimate(n, i - 2))
      BY <1>2, <1>7
    <2>2. Unexplained(f, w) =
              {Distance(Estimate(n, i), (2 * Estimate(n, i - 1)) - Estimate(n, i - 2)) :
                    i \in 3 .. w} \cup {0}
      BY <2>1 DEF Unexplained
    <2>3. b.worst_residual = Max(Unexplained(f, w))
      <3>1. Greatest(b.worst_residual, Unexplained(f, w)) /\ \A i \in 1 .. w : f[i] \in Int
        BY <1>1 DEF RatesOK
      <3> QED
        BY <3>1, WorstIsMax
    <2> QED
      BY <2>2, <2>3
  <1> QED
    BY <1>6, <1>8, <1>9 DEF AreOf

\* Each sample after the first counts once as jitter, each window after the first as
\* jitter of both estimates and each after the second as residual, and the worst of
\* each kind is the largest there was, at every length and number of bursts, delay and
\* clock and with any number of faults.
THEOREM JitterCountedOnceHolds == Spec => []JitterCountedOnce
  <1> DEFINE I == SyncInv /\ BurstsInv /\ JitterInv
  <1>1. Init => I
    BY InitEstablishes, BurstsInit, JitterInit
  <1>2. I /\ [Next]_vars => I'
    BY StepsPreserve, BurstsNext, JitterNext
  <1>3. I => JitterCountedOnce
    <2> SUFFICES ASSUME I PROVE JitterCountedOnce
      OBVIOUS
    <2>1. taken \in Seq(Sampled) /\ Len(taken) \in Nat
      BY DEF SyncInv, SyncTypeOK, Sampled
    <2>2. ASSUME Len(taken) > 0
          PROVE  /\ Total(samples.all.jitter) = Len(taken) - 1
                 /\ samples.all.worst =
                        Max({Distance(taken[i].offset, taken[i - 1].offset) :
                                i \in 2 .. Len(taken)} \cup {0})
      <3>1. PICK m \in Nat : m = Len(taken) /\ m # 0
        BY <2>1, <2>2
      <3> DEFINE f == [i \in 1 .. m |-> taken[i].offset]
      <3>2. TrackOK(samples.all, f, m)
        BY <3>1 DEF JitterInv, Samples
      <3>3. \A i \in 1 .. m : f[i] = taken[i].offset /\ f[i] \in Int
        <4>1. \A i \in 1 .. m : taken[i] \in Sampled
          BY <2>1, <3>1
        <4> QED
          BY <4>1 DEF Sampled
      <3> HIDE DEF f
      <3>4. \A i \in 2 .. m : i \in 1 .. m /\ i - 1 \in 1 .. m
        OBVIOUS
      <3>5. \A i \in 2 .. m : Distance(f[i], f[i - 1])
                                = Distance(taken[i].offset, taken[i - 1].offset)
        BY <3>3, <3>4
      <3>6. Between(f, m) = {Distance(taken[i].offset, taken[i - 1].offset) : i \in 2 .. m}
                                \cup {0}
        BY <3>5 DEF Between
      <3>7. samples.all.worst = Max(Between(f, m))
        <4>1. Greatest(samples.all.worst, Between(f, m))
          BY <3>2 DEF TrackOK
        <4> QED
          BY <3>3, <4>1, WorstIsMax
      <3>8. Total(samples.all.jitter) = m - 1
        BY <3>1, <3>2 DEF TrackOK
      <3> QED
        BY <3>1, <3>6, <3>7, <3>8
    <2>3. ASSUME NEW k \in DOMAIN BURSTS
          PROVE  /\ CountedOnce(samples.best[k], BURSTS[k], taken)
                 /\ samples.best[k].windows \in Nat
      BY <2>3 DEF JitterInv, BurstsInv, BurstOK, InStep
    <2> QED
      <3>1. ASSUME NEW k \in DOMAIN BURSTS
            PROVE  AreOf(samples.best[k], BURSTS[k], samples.best[k].windows)
        <4>1. PICK b : b = samples.best[k]
          OBVIOUS
        <4>2. PICK w \in Nat : w = b.windows
          BY <2>3, <4>1
        <4>3. CountedOnce(b, BURSTS[k], taken)
          BY <2>3, <4>1
        <4> QED
          BY <4>1, <4>2, <4>3, CountedIs
      <3> QED
        BY <2>2, <3>1 DEF JitterCountedOnce, AreOf
  <1> QED
    BY <1>1, <1>2, <1>3, PTL DEF Spec
==============================================================================
