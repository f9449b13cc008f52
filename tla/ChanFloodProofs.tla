---------------------------- MODULE ChanFloodProofs ----------------------------
(***************************************************************************)
(* What a flood guarantees for every number of sinks, every interval,      *)
(* window and width of the numbers, and every number of losses, repeats    *)
(* and restarts.                                                           *)
(***************************************************************************)
EXTENDS ChanFlood, FiniteSetTheorems, TLAPS

USE FloodAssumption

(***************************************************************************)
(* The inductive invariant of a window: what has arrived was sent between  *)
(* its base and its top, so that what is lost can be counted; unless       *)
(* numbers have started again the highest number is that of the top; and   *)
(* Honest.                                                                 *)
(***************************************************************************)
Counts == [highest : Nat \cup {None}, received : Nat, missing : Nat, reordered : Nat,
           last_arrival : Nat \cup {None}, worst_gap : Int]
Truths == [base : Int \cup {None}, top : Int \cup {None}, mark : Int \cup {None},
           arrived : SUBSET Int, stale : Nat, again : BOOLEAN]

Begun(r, h) ==
    /\ r.highest \in Nat /\ h.base \in Int /\ h.top \in Int /\ h.mark \in Int
    /\ h.base <= h.top /\ h.arrived \subseteq h.base + 1 .. h.top
Untouched(r, h) ==
    /\ r.highest = None /\ h.base = None /\ h.arrived = {} /\ r.missing = 0
    /\ h.again = FALSE
Window(r, h) ==
    /\ r \in Counts /\ h \in Truths
    /\ Untouched(r, h) \/ Begun(r, h)
    /\ h.again \/ (h.mark = h.top /\ Honest(r, h))

Timed ==
    /\ now \in Nat /\ next_send \in Nat /\ sent \in Seq(Nat)
    /\ beat \in [began : Nat, sends : Nat]
Numbered ==
    /\ seq \in Nat /\ sends \in Nat /\ sinks \subseteq Stations
    /\ net \subseteq [to : Stations, seq : Nat, nth : Nat]
Windows ==
    /\ \A k \in Stations : Window(sink[k], truth[k])
    /\ sink \in [Stations -> Counts] /\ truth \in [Stations -> Truths]
    /\ reported \in [Stations -> [sink : Counts, truth : Truths] \cup {None}]
    /\ \A k \in Stations :
           reported[k] # None =>
               reported[k].truth.again \/ Honest(reported[k].sink, reported[k].truth)
FloodInv == Timed /\ Numbered /\ Windows

\* The deadline is as many intervals after the beat began as there were sends, and the
\* last of them was due an interval before it.
OnBeat ==
    /\ next_send = beat.began + INTERVAL * beat.sends
    /\ beat.began <= now
    /\ beat.sends # 0 => next_send - INTERVAL <= now

\* The deadlines run ahead of the sends: a deadline is no sooner than the last send,
\* and no sooner than an interval after the one before.
Spaced ==
    /\ Len(sent) \in 0 .. 2
    /\ Len(sent) >= 1 => next_send >= sent[1]
    /\ Len(sent) = 2 => next_send >= sent[2] + INTERVAL

Beat == Spaced /\ OnBeat

------------------------------------------------------------------------------
\* How many of what was sent in a window that has begun are lost.
LEMMA LostIsCounted ==
    ASSUME NEW r, NEW h, Begun(r, h)
    PROVE  /\ IsFiniteSet(h.arrived) /\ Cardinality(h.arrived) \in Nat
           /\ Cardinality(h.arrived) <= h.top - h.base
           /\ Lost(h) = h.top - h.base - Cardinality(h.arrived)
  <1> DEFINE A == h.arrived
             I == h.base + 1 .. h.top
             M == I \ A
  <1>1. /\ h.top \in Int /\ h.base \in Int /\ h.base <= h.top /\ A \subseteq I
        /\ h.base # None /\ h.base + 1 \in Int
    BY DEF Begun
  <1>2. IsFiniteSet(I) /\ Cardinality(I) = h.top - h.base
    <2>1. /\ IsFiniteSet(I)
          /\ Cardinality(I) = IF h.base + 1 > h.top THEN 0 ELSE h.top - (h.base + 1) + 1
      BY <1>1, FS_Interval
    <2> QED
      BY <1>1, <2>1
  <1>3. Lost(h) = Cardinality(M)
    BY <1>1 DEF Lost
  <1>4. A \cup M = I /\ A \cap M = {} /\ A \in SUBSET I /\ M \in SUBSET I
    BY <1>1
  <1> HIDE DEF A, I, M
  <1>5. IsFiniteSet(A) /\ IsFiniteSet(M) /\ Cardinality(A) <= Cardinality(I)
    BY <1>2, <1>4, FS_Subset
  <1>6. Cardinality(A) \in Nat /\ Cardinality(M) \in Nat
    BY <1>5, FS_CardinalityType
  <1>7. Cardinality(I) = Cardinality(A) + Cardinality(M) - Cardinality({})
    BY <1>4, <1>5, FS_Union
  <1>8. Cardinality({}) = 0
    BY FS_EmptySet
  <1> QED
    BY <1>1, <1>2, <1>3, <1>5, <1>6, <1>7, <1>8 DEF A

\* An arrival keeps a window's account: a number that skips some adds them, one that
\* was missing takes itself off, and any other is stale.  Within numbers that have not
\* started again a number is higher when it was sent later.
LEMMA ArrivalKeeps ==
    ASSUME NEW r, NEW h, Window(r, h), NEW m \in [to : Stations, seq : Nat, nth : Nat],
           now \in Nat
    PROVE  /\ Window(OnDatagram(r, m.seq), Recorded(h, r, m))
           /\ Begun(OnDatagram(r, m.seq), Recorded(h, r, m))
  <1> DEFINE q == OnDatagram(r, m.seq)
             g == Recorded(h, r, m)
             s == m.seq
             a == m.nth
  <1>1. r \in Counts /\ h \in Truths /\ s \in Nat /\ a \in Nat
    BY DEF Window
  <1>2. q \in Counts /\ q.missing = Missing(r, s)
        /\ q.highest = (IF IsNewer(r, s) THEN s ELSE r.highest) /\ q.highest \in Nat
    BY <1>1 DEF OnDatagram, Missing, IsNewer, Larger, Counts
  <1>3. CASE Untouched(r, h)
    <2>1. /\ g = [base |-> a - 1, top |-> a, mark |-> a, arrived |-> {a}, stale |-> h.stale,
                  again |-> FALSE]
          /\ h.stale \in Nat
      <3>1. h.base = None /\ h.arrived = {} /\ h.again = FALSE /\ IsNewer(r, s)
        BY <1>3 DEF Untouched, IsNewer
      <3>2. a > a - 1 /\ a \notin {} /\ {} \cup {a} = {a} /\ h.stale \in Nat
        BY <1>1 DEF Truths
      <3> QED
        BY <3>1, <3>2 DEF Recorded
    <2>2. q.highest = s /\ q.missing = 0
      BY <1>2, <1>3 DEF Untouched, IsNewer, Missing
    <2> HIDE DEF q, g
    <2>3. g \in Truths /\ Begun(q, g)
      BY <2>1, <2>2, <1>1 DEF Truths, Begun
    <2>4. Lost(g) = 0
      <3>1. (a - 1 + 1 .. a) \ {a} = {}
        BY <1>1
      <3> QED
        BY <3>1, <2>1, <1>1, FS_EmptySet DEF Lost
    <2>5. Honest(q, g)
      BY <2>1, <2>2, <2>4, <1>1 DEF Honest
    <2> QED
      BY <1>2, <2>1, <2>3, <2>5 DEF Window, q, g
  <1>4. CASE Begun(r, h)
    <2> DEFINE n == Cardinality(h.arrived)
               lost == h.top - h.base - n
               fresh == a > h.base /\ a \notin h.arrived
    <2>1. /\ r.highest \in Nat /\ h.base \in Int /\ h.top \in Int /\ h.mark \in Int
          /\ h.base <= h.top /\ h.arrived \subseteq h.base + 1 .. h.top
          /\ h.base # None /\ r.highest # None
          /\ r.missing \in Nat /\ h.stale \in Nat /\ h.again \in BOOLEAN
      BY <1>1, <1>4 DEF Begun, Counts, Truths
    <2>2. /\ g.base = h.base /\ g.top = Larger(h.top, a)
          /\ g.mark = (IF s > r.highest THEN a ELSE h.mark)
          /\ g.arrived = (IF fresh THEN h.arrived \cup {a} ELSE h.arrived)
          /\ g.stale = (IF fresh THEN h.stale ELSE h.stale + 1)
          /\ g.again = (h.again \/ a - s # h.mark - r.highest)
          /\ g = [base |-> g.base, top |-> g.top, mark |-> g.mark, arrived |-> g.arrived,
                  stale |-> g.stale, again |-> g.again]
      BY <2>1 DEF Recorded, IsNewer
    <2> HIDE DEF g, q
    <2>3. /\ g.top \in Int /\ h.top <= g.top /\ g.mark \in Int /\ g.stale \in Nat
          /\ a <= g.top /\ g.again \in BOOLEAN
      BY <1>1, <2>1, <2>2 DEF Larger
    <2>4. g.arrived \subseteq h.base + 1 .. g.top
      BY <1>1, <2>1, <2>2, <2>3
    <2>5. g \in Truths /\ Begun(q, g)
      <3>1. g \in Truths
        <4>1. g.arrived \in SUBSET Int /\ g.base \in Int
          BY <2>1, <2>2, <2>4
        <4> QED
          BY <4>1, <2>2, <2>3 DEF Truths
      <3> QED
        BY <3>1, <2>1, <2>2, <2>3, <2>4, <1>2 DEF Begun
    <2>6. ASSUME ~g.again PROVE g.mark = g.top /\ Honest(q, g)
      <3>1. h.mark = h.top /\ a - s = h.top - r.highest /\ Honest(r, h)
        BY <2>2, <2>6, <2>1 DEF Window
      <3>2. s > r.highest <=> a > h.top
        BY <3>1, <1>1, <2>1
      <3>3. g.mark = g.top
        BY <3>1, <3>2, <2>1, <2>2, <1>1 DEF Larger
      <3>4. /\ IsFiniteSet(h.arrived) /\ n \in Nat /\ n <= h.top - h.base
            /\ Lost(h) = lost
        BY <1>4, LostIsCounted
      <3>5. /\ Lost(g) = g.top - g.base - Cardinality(g.arrived)
            /\ Cardinality(g.arrived) <= g.top - g.base /\ Cardinality(g.arrived) \in Nat
        BY <2>5, LostIsCounted
      <3>6. fresh => Cardinality(g.arrived) = n + 1
        <4> SUFFICES ASSUME fresh PROVE Cardinality(g.arrived) = n + 1
          OBVIOUS
        <4>1. g.arrived = h.arrived \cup {a} /\ a \notin h.arrived
          BY <2>2
        <4> QED
          BY <3>4, <4>1, FS_AddElement
      <3>7. ~fresh => Cardinality(g.arrived) = n
        BY <2>2
      <3> HIDE DEF n
      <3>8. r.missing <= lost /\ lost - h.stale <= r.missing
        BY <3>1, <3>4 DEF Honest
      <3>9. CASE s > r.highest
        <4>1. fresh /\ g.top = a
          BY <3>2, <3>9, <2>1, <2>2, <1>1 DEF Larger
        <4>2. q.missing = r.missing + s - r.highest - 1
          BY <1>2, <2>1, <3>9 DEF Missing
        <4>3. Lost(g) = a - h.base - (n + 1) /\ g.stale = h.stale
          BY <3>5, <3>6, <4>1, <2>2
        <4>4. q.missing = r.missing + a - h.top - 1
          BY <4>2, <3>1, <2>1, <1>1
        <4> QED
          BY <3>3, <3>4, <3>8, <4>1, <4>3, <4>4, <3>2, <3>9, <2>1, <1>1 DEF Honest
      <3>10. CASE ~(s > r.highest)
        <4>1. g.top = h.top
          BY <3>2, <3>10, <2>1, <2>2, <1>1 DEF Larger
        <4>2. q.missing = Larger(r.missing - 1, 0)
          BY <1>2, <2>1, <3>10 DEF Missing
        <4>3. CASE fresh
          BY <3>3, <3>4, <3>5, <3>6, <3>8, <4>1, <4>2, <4>3, <2>1, <2>2 DEF Honest, Larger
        <4>4. CASE ~fresh
          BY <3>3, <3>4, <3>5, <3>7, <3>8, <4>1, <4>2, <4>4, <2>1, <2>2 DEF Honest, Larger
        <4> QED
          BY <4>3, <4>4
      <3> QED
        BY <3>9, <3>10
    <2>7. Window(q, g)
      <3>1. g.again \/ (g.mark = g.top /\ Honest(q, g))
        BY <2>6
      <3> QED
        BY <1>2, <2>5, <3>1 DEF Window
    <2> QED
      BY <2>5, <2>7 DEF q, g
  <1> QED
    BY <1>3, <1>4 DEF Window

\* A window that has just begun has lost nothing.
LEMMA WindowBegins ==
    ASSUME NEW r \in Counts, r.highest \in Nat, NEW top \in Int, NEW mark \in Int
    PROVE  Window(BeginWindow(r), Truth(top, mark))
  <1> DEFINE q == BeginWindow(r)
             h == Truth(top, mark)
  <1>1. q \in Counts /\ q.highest = r.highest /\ q.missing = 0
    <2> DEFINE q1 == [r EXCEPT !.received = 0]
               q2 == [q1 EXCEPT !.missing = 0]
               q3 == [q2 EXCEPT !.reordered = 0]
               q4 == [q3 EXCEPT !.worst_gap = 0]
    <2>1. q1 \in Counts /\ q1.highest = r.highest
      BY DEF Counts
    <2> HIDE DEF q1
    <2>2. q2 \in Counts /\ q2.highest = r.highest /\ q2.missing = 0
      BY <2>1 DEF Counts
    <2> HIDE DEF q2
    <2>3. q3 \in Counts /\ q3.highest = r.highest /\ q3.missing = 0
      BY <2>2 DEF Counts
    <2> HIDE DEF q3
    <2>4. q4 \in Counts /\ q4.highest = r.highest /\ q4.missing = 0
      BY <2>3 DEF Counts
    <2>5. q = q4
      BY DEF BeginWindow, q1, q2, q3
    <2> QED
      BY <2>4, <2>5
  <1>2. /\ h \in Truths
        /\ h = [base |-> top, top |-> top, mark |-> mark, arrived |-> {}, stale |-> 0,
                again |-> mark # top]
    BY DEF Truth, Truths
  <1>3. Begun(q, h)
    BY <1>1, <1>2 DEF Begun
  <1>4. Lost(h) = 0
    <2>1. (top + 1 .. top) \ {} = {}
      OBVIOUS
    <2> QED
      BY <2>1, <1>2, FS_EmptySet DEF Lost
  <1>5. Honest(q, h)
    BY <1>1, <1>2, <1>4 DEF Honest
  <1>6. h.again \/ (h.mark = h.top /\ Honest(q, h))
    <2>1. h.again = (mark # top) /\ h.mark = mark /\ h.top = top
      BY <1>2
    <2> HIDE DEF h, q
    <2> QED
      BY <2>1, <1>5, Zenon
  <1> QED
    BY <1>1, <1>2, <1>3, <1>6 DEF Window

------------------------------------------------------------------------------
LEMMA FloodInit == Init => FloodInv /\ Beat
  <1> SUFFICES ASSUME Init PROVE FloodInv /\ Beat
    OBVIOUS
  <1>1. Timed /\ Numbered /\ Beat
    BY DEF Init, Timed, Numbered, Beat, Spaced, OnBeat
  <1>2. NewSink \in Counts /\ Truth(None, None) \in Truths /\ Untouched(NewSink, Truth(None, None))
    <2>1. Truth(None, None) = [base |-> None, top |-> None, mark |-> None, arrived |-> {},
                               stale |-> 0, again |-> FALSE]
      BY DEF Truth
    <2> QED
      BY <2>1 DEF NewSink, Counts, Truths, Untouched
  <1>3. Truth(None, None).mark = Truth(None, None).top /\ Honest(NewSink, Truth(None, None))
    BY DEF NewSink, Truth, Honest, Lost
  <1>4. Windows
    BY <1>2, <1>3 DEF Init, Windows, Window
  <1> QED
    BY <1>1, <1>4 DEF FloodInv

\* The deadline after a send, whether it stays on the beat or starts another.
LEMMA DeadlineMoves ==
    ASSUME Timed, now >= next_send
    PROVE  /\ NextDeadline(now) \in Nat
           /\ NextDeadline(now) >= now /\ NextDeadline(now) >= next_send + INTERVAL
           /\ now - next_send <= INTERVAL => NextDeadline(now) = next_send + INTERVAL
  BY DEF Timed, NextDeadline

\* A send is the next of its beat, or the first of another.
LEMMA BeatMoves ==
    ASSUME Timed, OnBeat, SendTurn
    PROVE  /\ beat' \in [began : Nat, sends : Nat] /\ beat'.began <= now
           /\ next_send' = beat'.began + INTERVAL * beat'.sends
           /\ beat'.sends # 0 => next_send' - INTERVAL <= now
  <1>1. /\ now \in Nat /\ next_send \in Nat /\ beat \in [began : Nat, sends : Nat]
        /\ next_send = beat.began + INTERVAL * beat.sends /\ beat.began <= now
        /\ now >= next_send /\ next_send' = NextDeadline(now)
    BY DEF Timed, OnBeat, SendTurn
  <1>2. CASE now - next_send > INTERVAL
    <2>1. beat' = [began |-> now, sends |-> 1] /\ next_send' = now + INTERVAL
      BY <1>1, <1>2 DEF SendTurn, NextDeadline
    <2> QED
      BY <1>1, <2>1
  <1>3. CASE ~(now - next_send > INTERVAL)
    <2>1. beat' = [beat EXCEPT !.sends = @ + 1] /\ next_send' = next_send + INTERVAL
      BY <1>1, <1>3 DEF SendTurn, NextDeadline
    <2>2. beat' = [began |-> beat.began, sends |-> beat.sends + 1]
      BY <1>1, <2>1
    <2>3. INTERVAL * (beat.sends + 1) = INTERVAL * beat.sends + INTERVAL
      BY <1>1
    <2> QED
      BY <1>1, <2>1, <2>2, <2>3
  <1> QED
    BY <1>2, <1>3

LEMMA SendTurnKeeps ==
    ASSUME FloodInv, Beat, SendTurn
    PROVE  FloodInv' /\ Beat'
  <1>1. /\ now \in Nat /\ next_send \in Nat /\ sent \in Seq(Nat) /\ now >= next_send
        /\ now' = now /\ next_send' = NextDeadline(now)
        /\ sent' = IF sent = <<>> THEN <<now>> ELSE <<now, sent[1]>>
    BY DEF FloodInv, Timed, SendTurn
  <1>2. next_send' \in Nat /\ next_send' >= now /\ next_send' >= next_send + INTERVAL
    BY <1>1, DeadlineMoves DEF FloodInv
  <1>3. /\ beat' \in [began : Nat, sends : Nat] /\ beat'.began <= now'
        /\ next_send' = beat'.began + INTERVAL * beat'.sends
        /\ beat'.sends # 0 => next_send' - INTERVAL <= now'
    BY <1>1, BeatMoves DEF FloodInv, Beat
  <1>4. OnBeat'
    BY <1>3 DEF OnBeat
  <1>5. Timed' /\ Spaced'
    <2>1. CASE sent = <<>>
      BY <2>1, <1>1, <1>2, <1>3 DEF Timed, Spaced
    <2>2. CASE sent # <<>>
      <3>1. Len(sent) >= 1 /\ sent[1] \in Nat /\ next_send >= sent[1]
        BY <2>2, <1>1 DEF Beat, Spaced
      <3>2. sent' = <<now, sent[1]>>
        BY <2>2, <1>1
      <3>3. Len(sent') = 2 /\ sent'[1] = now /\ sent'[2] = sent[1] /\ sent' \in Seq(Nat)
        BY <3>1, <3>2, <1>1
      <3> QED
        BY <3>1, <3>3, <1>1, <1>2, <1>3 DEF Timed, Spaced
    <2> QED
      BY <2>1, <2>2
  <1>6. Numbered'
    <2>1. PICK reached \in SUBSET (IF unicast THEN sinks ELSE Stations) :
              net' = net \cup {[to |-> k, seq |-> seq, nth |-> sends + 1] : k \in reached}
      BY DEF SendTurn
    <2>2. reached \subseteq Stations /\ sinks' = sinks /\ sinks \subseteq Stations
      BY <2>1 DEF FloodInv, Numbered, SendTurn
    <2>3. seq \in Nat /\ seq' = (seq + 1) % SEQ_MOD /\ sends \in Nat /\ sends' = sends + 1
      BY DEF FloodInv, Numbered, SendTurn
    <2> QED
      BY <2>1, <2>2, <2>3 DEF FloodInv, Numbered
  <1>7. Windows'
    BY DEF FloodInv, Windows, SendTurn, air, history
  <1> QED
    BY <1>5, <1>6, <1>7, <1>4 DEF FloodInv, Beat

LEMMA ReceiveKeeps ==
    ASSUME FloodInv, NEW m \in net, Receive(m)
    PROVE  FloodInv'
  <1> DEFINE r == OnDatagram(sink[m.to], m.seq)
             h == Recorded(truth[m.to], sink[m.to], m)
             full == r.received >= REPORT_EVERY
             next == IF full THEN BeginWindow(r) ELSE r
             fresh == IF full THEN Truth(h.top, h.mark) ELSE h
             report == IF full THEN [sink |-> r, truth |-> h] ELSE None
  <1>1. /\ m \in [to : Stations, seq : Nat, nth : Nat] /\ now \in Nat
        /\ m.to \in Stations
    BY DEF FloodInv, Numbered, Timed
  <1>2. Window(sink[m.to], truth[m.to])
    BY <1>1 DEF FloodInv, Windows
  <1>3. Window(r, h) /\ Begun(r, h)
    BY <1>1, <1>2, ArrivalKeeps
  <1>4. /\ r \in Counts /\ h \in Truths /\ (h.again \/ Honest(r, h))
        /\ r.highest \in Nat /\ h.top \in Int /\ h.mark \in Int
    BY <1>3 DEF Window, Begun
  <1>5. /\ sink' = [sink EXCEPT ![m.to] = next]
        /\ truth' = [truth EXCEPT ![m.to] = fresh]
        /\ reported' = [reported EXCEPT ![m.to] = report]
        /\ net' \subseteq net
        /\ UNCHANGED <<now, next_send, sent, beat, sends, seq, sinks>>
    BY DEF Receive, source
  <1> HIDE DEF r, h
  <1>6. Window(next, fresh)
    BY <1>3, <1>4, WindowBegins
  <1>7. report \in [sink : Counts, truth : Truths] \cup {None}
        /\ (report # None => report.truth.again \/ Honest(report.sink, report.truth))
    BY <1>4
  <1> HIDE DEF next, fresh, report
  <1>8. next \in Counts /\ fresh \in Truths
    BY <1>6 DEF Window
  <1>9. Timed' /\ Numbered'
    BY <1>5 DEF FloodInv, Timed, Numbered
  <1>10. Windows'
    <2>1. /\ sink \in [Stations -> Counts] /\ truth \in [Stations -> Truths]
          /\ reported \in [Stations -> [sink : Counts, truth : Truths] \cup {None}]
          /\ \A k \in Stations : Window(sink[k], truth[k])
          /\ \A k \in Stations : reported[k] # None =>
                 reported[k].truth.again \/ Honest(reported[k].sink, reported[k].truth)
      BY DEF FloodInv, Windows
    <2>2. /\ sink' \in [Stations -> Counts] /\ truth' \in [Stations -> Truths]
          /\ reported' \in [Stations -> [sink : Counts, truth : Truths] \cup {None}]
      BY <2>1, <1>5, <1>7, <1>8
    <2>3. ASSUME NEW k \in Stations
          PROVE  /\ Window(sink[k], truth[k])'
                 /\ reported'[k] # None =>
                        reported'[k].truth.again \/ Honest(reported'[k].sink, reported'[k].truth)
      <3>1. CASE k = m.to
        <4>1. sink'[k] = next /\ truth'[k] = fresh /\ reported'[k] = report
          BY <3>1, <2>1, <1>1, <1>5
        <4> QED
          BY <4>1, <1>6, <1>7
      <3>2. CASE k # m.to
        <4>1. sink'[k] = sink[k] /\ truth'[k] = truth[k] /\ reported'[k] = reported[k]
          BY <3>2, <2>1, <1>5
        <4> QED
          BY <4>1, <2>1
      <3> QED
        BY <3>1, <3>2
    <2> QED
      BY <2>2, <2>3 DEF Windows
  <1> QED
    BY <1>9, <1>10 DEF FloodInv

LEMMA FloodInductive == FloodInv /\ Beat /\ [Next]_vars => FloodInv' /\ Beat'
  <1> SUFFICES ASSUME FloodInv, Beat, [Next]_vars PROVE FloodInv' /\ Beat'
    OBVIOUS
  <1>1. CASE SendTurn
    BY <1>1, SendTurnKeeps
  <1>2. ASSUME NEW m \in net, Receive(m) PROVE FloodInv' /\ Beat'
    BY <1>2, ReceiveKeeps DEF Receive, Beat, Spaced, OnBeat, source
  <1>3. CASE Restart
    <2>1. Timed' /\ Beat' /\ Numbered'
      BY <1>3 DEF Restart, FloodInv, Timed, Numbered, Beat, Spaced, OnBeat
    <2>2. Windows'
      BY <1>3 DEF Restart, FloodInv, Windows
    <2> QED
      BY <2>1, <2>2 DEF FloodInv
  <1>4. CASE Pass \/ (\E k \in Stations : Hello(k)) \/ UNCHANGED vars
    <2>1. /\ now' \in {now, now + 1}
          /\ UNCHANGED <<seq, next_send, net, sink, sends, truth, reported, sent, beat>>
          /\ sinks \subseteq Stations => sinks' \subseteq Stations
      BY <1>4 DEF Pass, Hello, vars, source, air, history
    <2>2. Timed' /\ Numbered'
      BY <2>1 DEF FloodInv, Timed, Numbered
    <2>3. Spaced'
      BY <2>1 DEF Beat, Spaced
    <2>4. OnBeat'
      <3>1. now \in Nat /\ now' \in Nat /\ now <= now' /\ next_send \in Nat
            /\ beat.began \in Nat /\ beat' = beat /\ next_send' = next_send
        BY <2>1 DEF FloodInv, Timed
      <3>2. next_send' = beat'.began + INTERVAL * beat'.sends
        BY <3>1 DEF Beat, OnBeat
      <3> HIDE DEF FloodInv
      <3> QED
        BY <3>1, <3>2 DEF Beat, OnBeat
    <2>5. Windows'
      BY <2>1 DEF FloodInv, Windows
    <2> QED
      BY <2>2, <2>5, <2>3, <2>4 DEF FloodInv, Beat
  <1> QED
    BY <1>1, <1>2, <1>3, <1>4 DEF Next

THEOREM FloodInvariant == Spec => [](FloodInv /\ Beat)
  BY FloodInit, FloodInductive, PTL DEF Spec

\* A window in which numbers have not started again never counts as missing what
\* arrived, and falls short of what did not only by its stale arrivals, however
\* datagrams are lost, repeated and reordered.
THEOREM LossWithinStaleHolds == Spec => []LossWithinStale
  <1>1. FloodInv => LossWithinStale
    BY DEF FloodInv, Windows, Window, LossWithinStale
  <1> QED
    BY <1>1, FloodInvariant, PTL

\* No three sends are within an interval, however long a stall was.
THEOREM NoBurstHolds == Spec => NoBurst
  <1>1. FloodInv /\ Beat => Len(sent) < 2 \/ next_send >= sent[2] + INTERVAL
    BY DEF Beat, Spaced
  <1>2. FloodInv /\ Beat => Len(sent) < 2 \/ sent[2] \in Nat
    BY DEF Beat, Spaced, FloodInv, Timed
  <1>3. FloodInv /\ Beat /\ [Next]_vars =>
            [SendTurn => Len(sent) < 2 \/ now - sent[2] >= INTERVAL]_vars
    <2> SUFFICES ASSUME FloodInv, Beat, SendTurn PROVE Len(sent) < 2 \/ now - sent[2] >= INTERVAL
      OBVIOUS
    <2>1. now \in Nat /\ next_send \in Nat /\ now >= next_send /\ INTERVAL \in Nat
      BY FloodAssumption DEF FloodInv, Timed, SendTurn
    <2>2. CASE Len(sent) < 2
      BY <2>2
    <2>3. CASE ~(Len(sent) < 2)
      <3>1. next_send >= sent[2] + INTERVAL /\ sent[2] \in Nat
        BY <2>3, <1>1, <1>2
      <3> QED
        BY <3>1, <2>1
    <2> QED
      BY <2>2, <2>3
  <1> QED
    BY <1>3, FloodInvariant, PTL DEF Spec, NoBurst

\* A beat loses no send and gains none, however many of them are late, until one is
\* late by more than an interval.
THEOREM KeepsTheBeatHolds == Spec => []KeepsTheBeat
  <1>1. FloodInv /\ Beat => KeepsTheBeat
    <2> SUFFICES ASSUME FloodInv, Beat PROVE KeepsTheBeat
      OBVIOUS
    <2>1. /\ now \in Nat /\ next_send \in Nat /\ beat.began \in Nat /\ beat.sends \in Nat
          /\ next_send = beat.began + INTERVAL * beat.sends /\ beat.began <= now
          /\ (beat.sends # 0 => next_send - INTERVAL <= now)
      BY DEF FloodInv, Timed, Beat, OnBeat
    <2>2. INTERVAL * (beat.sends - 1) = INTERVAL * beat.sends - INTERVAL
      BY <2>1
    <2>3. beat.sends = 0 => INTERVAL * beat.sends = 0
      BY <2>1
    <2>4. INTERVAL * beat.sends \in Nat
      BY <2>1
    <2> QED
      BY <2>1, <2>2, <2>3, <2>4 DEF KeepsTheBeat
  <1> QED
    BY <1>1, FloodInvariant, PTL
==============================================================================
