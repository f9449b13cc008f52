------------------------------- MODULE ChanFlood -------------------------------
(***************************************************************************)
(* The flood of CHAN datagrams in spikes/s3-multicast: chan.rs and the     *)
(* loop of main.rs.  A source sends a numbered datagram every INTERVAL, to *)
(* a group or to each sink it knows, and a sink infers from the numbers    *)
(* how many never arrived.                                                 *)
(*                                                                         *)
(* Datagrams are lost and overtake each other freely.  Of what is only     *)
(* counted to be printed, the worst gap stands for the rest.               *)
(***************************************************************************)
EXTENDS Integers, Sequences, FiniteSets

CONSTANTS
    Stations,       \* the sinks
    MAX_SINKS, INTERVAL, REPORT_EVERY,
    SEQ_MOD,        \* 2^32
    None,
    MaxTime,        \* bound: how long a run is
    MaxRepeats,     \* bound: datagrams that arrive once more
    MaxRestarts     \* bound: restarts of the source

ASSUME FloodAssumption ==
    /\ IsFiniteSet(Stations)
    /\ MAX_SINKS \in Nat /\ INTERVAL \in Nat \ {0} /\ REPORT_EVERY \in Nat \ {0}
    /\ SEQ_MOD \in Nat \ {0}
    /\ None \notin Int
    /\ MaxTime \in Nat /\ MaxRepeats \in Nat /\ MaxRestarts \in Nat

VARIABLES
    now, unicast,
    \* the source
    seq, next_send, sinks,
    \* the air
    net, repeats, restarts,
    \* the sinks
    sink,
    \* history
    sends,          \* how many datagrams have been sent, whatever their numbers
    truth,          \* truth[k]: which of them have arrived in the window
    reported,       \* reported[k]: sink and truth at a report that was just made
    sent,           \* when the source sent its last two
    beat            \* when its beat began, and how often it has sent since

source == <<seq, next_send, sinks>>
air == <<net, repeats, restarts>>
history == <<sends, truth, reported, sent, beat>>
vars == <<now, unicast, source, air, sink, history>>

Larger(x, y) == IF x < y THEN y ELSE x

NewSink == [highest |-> None, received |-> 0, missing |-> 0, reordered |-> 0,
            last_arrival |-> None, worst_gap |-> 0]

\* What was sent up to base came before the window, and of what was sent after it up
\* to top some has arrived; the rest of what arrives is stale.  The highest number is
\* that of the datagram sent as the mark-th, and if numbers have started again since
\* then, by a restart or a wrap, one sent later may have a lower number.
Truth(base, mark) ==
    [base |-> base, top |-> base, mark |-> mark, arrived |-> {}, stale |-> 0,
     again |-> mark # base]

Init ==
    /\ now = 0 /\ unicast \in BOOLEAN
    /\ seq = 0 /\ next_send = 0 /\ sinks = {}
    /\ net = {} /\ repeats = 0 /\ restarts = 0
    /\ sink = [k \in Stations |-> NewSink]
    /\ truth = [k \in Stations |-> Truth(None, None)]
    /\ reported = [k \in Stations |-> None]
    /\ sends = 0 /\ sent = <<>> /\ beat = [began |-> 0, sends |-> 0]

------------------------------------------------------------------------------
\* A hello reaches the source, which remembers whose it is while it has room.
Hello(k) ==
    /\ unicast /\ k \notin sinks /\ Cardinality(sinks) < MAX_SINKS
    /\ sinks' = sinks \cup {k}
    /\ UNCHANGED <<now, unicast, seq, next_send, air, sink, history>>

\* A mutant of NextDeadline: the deadlines of a stall are caught up with.
NextCatchingUp(t) == next_send + INTERVAL

\* A mutant of NextDeadline: the next send is due an interval after this one.
NextFromNow(t) == t + INTERVAL

\* The deadline that follows a send at t.
NextDeadline(t) ==
    IF next_send + INTERVAL < t THEN t + INTERVAL ELSE next_send + INTERVAL

\* A turn of the source's loop in which a send is due.  Some of its datagrams are
\* refused by the stack or lost.
SendTurn ==
    /\ now >= next_send
    /\ \E reached \in SUBSET (IF unicast THEN sinks ELSE Stations) :
        net' = net \cup {[to |-> k, seq |-> seq, nth |-> sends + 1] : k \in reached}
    /\ seq' = (seq + 1) % SEQ_MOD
    /\ next_send' = NextDeadline(now)
    /\ sends' = sends + 1
    /\ sent' = IF sent = <<>> THEN <<now>> ELSE <<now, sent[1]>>
    /\ beat' = IF now - next_send > INTERVAL THEN [began |-> now, sends |-> 1]
               ELSE [beat EXCEPT !.sends = @ + 1]
    /\ UNCHANGED <<now, unicast, sinks, repeats, restarts, sink, truth, reported>>

\* The source starts again, without its numbers and its sinks.
Restart ==
    /\ restarts < MaxRestarts /\ restarts' = restarts + 1
    /\ seq' = 0 /\ next_send' = now /\ sinks' = {}
    /\ sent' = <<>> /\ beat' = [began |-> now, sends |-> 0]
    /\ UNCHANGED <<now, unicast, net, repeats, sink, sends, truth, reported>>

------------------------------------------------------------------------------
IsNewer(r, s) == r.highest = None \/ s > r.highest

\* A number that skips some leaves them missing; a late one was missing before.
Missing(r, s) ==
    IF r.highest = None THEN r.missing
    ELSE IF s > r.highest THEN r.missing + s - r.highest - 1
    ELSE Larger(r.missing - 1, 0)

OnDatagram(r, s) ==
    [highest |-> IF IsNewer(r, s) THEN s ELSE r.highest,
     received |-> r.received + 1,
     missing |-> Missing(r, s),
     reordered |-> IF IsNewer(r, s) THEN r.reordered ELSE r.reordered + 1,
     last_arrival |-> now,
     worst_gap |-> IF r.last_arrival = None THEN r.worst_gap
                   ELSE Larger(r.worst_gap, now - r.last_arrival)]

\* A mutant of BeginWindow: what the last window missed is carried over.
BeginWindowMissing(r) == [r EXCEPT !.received = 0, !.reordered = 0, !.worst_gap = 0]

BeginWindow(r) == [r EXCEPT !.received = 0, !.missing = 0, !.reordered = 0, !.worst_gap = 0]

\* What history makes of an arrival at a sink.
Recorded(h, r, m) ==
    LET base == IF h.base = None THEN m.nth - 1 ELSE h.base
        fresh == m.nth > base /\ m.nth \notin h.arrived
    IN  [base |-> base,
         top |-> IF h.base = None THEN m.nth ELSE Larger(h.top, m.nth),
         mark |-> IF IsNewer(r, m.seq) THEN m.nth ELSE h.mark,
         arrived |-> IF fresh THEN h.arrived \cup {m.nth} ELSE h.arrived,
         stale |-> IF fresh THEN h.stale ELSE h.stale + 1,
         again |-> h.again \/ (h.base # None /\ m.nth - m.seq # h.mark - r.highest)]

\* A datagram arrives, and may do so again.  A full window is reported and the next
\* begins.
Receive(m) ==
    LET r == OnDatagram(sink[m.to], m.seq)
        h == Recorded(truth[m.to], sink[m.to], m)
        full == r.received >= REPORT_EVERY
    IN  /\ sink' = [sink EXCEPT ![m.to] = IF full THEN BeginWindow(r) ELSE r]
        /\ truth' = [truth EXCEPT ![m.to] = IF full THEN Truth(h.top, h.mark) ELSE h]
        /\ reported' = [reported EXCEPT ![m.to] =
                            IF full THEN [sink |-> r, truth |-> h] ELSE None]
        /\ \/ net' = net \ {m} /\ UNCHANGED repeats
           \/ repeats < MaxRepeats /\ repeats' = repeats + 1 /\ UNCHANGED net
        /\ UNCHANGED <<now, unicast, source, restarts, sends, sent, beat>>

Pass ==
    /\ now < MaxTime /\ now' = now + 1
    /\ UNCHANGED <<unicast, source, air, sink, history>>

Next ==
    \/ Pass \/ SendTurn \/ Restart
    \/ \E k \in Stations : Hello(k)
    \/ \E m \in net : Receive(m)

Spec == Init /\ [][Next]_vars

------------------------------------------------------------------------------
\* How much of what was sent in a window never arrived.
Lost(h) == IF h.base = None THEN 0 ELSE Cardinality((h.base + 1 .. h.top) \ h.arrived)

\* What a window counts as missing is never more than what did not arrive, and less
\* only by as much as repeats and datagrams from before the window mislead it.
Honest(r, h) ==
    /\ r.missing \in 0 .. Lost(h)
    /\ Lost(h) - h.stale <= r.missing

\* The count is honest of every window in which numbers have not started again, in
\* whatever order datagrams arrive, and of the next window once the highest number is
\* one of the new (chan.rs on_datagram and begin_window).
LossWithinStale ==
    \A k \in Stations :
        /\ truth[k].again \/ Honest(sink[k], truth[k])
        /\ reported[k] # None =>
               reported[k].truth.again \/ Honest(reported[k].sink, reported[k].truth)

\* A source that has stalled does not make up for it with a burst: no three sends
\* are within an interval (main.rs main_loop).
NoBurst ==
    [][SendTurn => Len(sent) < 2 \/ now - sent[2] >= INTERVAL]_vars

\* A late send does not move those after it, however many are late: a beat loses no
\* send and gains none until one is late by more than an interval, which begins
\* another beat (main.rs main_loop).
KeepsTheBeat ==
    /\ INTERVAL * (beat.sends - 1) <= now - beat.began
    /\ now < next_send => now - beat.began < INTERVAL * beat.sends
==============================================================================
