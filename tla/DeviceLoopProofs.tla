--------------------------- MODULE DeviceLoopProofs ---------------------------
(***************************************************************************)
(* What the device's loop guarantees at every frame rate, slew rate and    *)
(* threshold, for every size of the table of peers, every set of peers and *)
(* whatever the core asks for: frames only go forward, whoever speaks can  *)
(* be answered where it spoke from, the clock keeps its promises, the core *)
(* has its tick in time, following a leader never takes the clock past it, *)
(* and the strip shows the frames it took, for every number of LEDs.       *)
(***************************************************************************)
EXTENDS DeviceLoop, ShowClockProofs

Addresses == UNION {Homes[p] : p \in Prefixes}

\* What frames depend on: the show time of the turn is not ahead of the clock,
\* and the frame drawn last is not ahead of the show time.
ClockTyped ==
    /\ last_raw_us \in Nat /\ now_us \in Nat
    /\ pending_us \in Int /\ slew_numer \in Nat
    /\ lead \in Int
FramesBehind ==
    /\ show_now \in Nat /\ show_now <= now_us
    /\ last_frame_index \in Nat \cup {None}
    /\ last_frame_index # None => last_frame_index <= show_now \div FRAME_US

FrameInv == ClockTyped /\ FramesBehind

\* What answering depends on.
PeersTyped ==
    /\ peers \in Seq(Prefixes \X Addresses)
    /\ heard \in [Prefixes -> Addresses \cup {None}]
    /\ Len(peers) <= MAX_PEERS

PeersInv == PeersTyped /\ CanAnswer

\* A frame is never of an earlier time than one that began before.
LEMMA FrameOfLater ==
    ASSUME NEW a \in Nat, NEW b \in Nat, a <= b
    PROVE  a \div FRAME_US \in Nat /\ b \div FRAME_US \in Nat /\ a \div FRAME_US <= b \div FRAME_US
  <1> DEFINE d == FRAME_US
             p == a \div d
             q == b \div d
  <1>1. d \in Nat \ {0}
    BY LoopAssumption
  <1>2. /\ p \in Nat /\ q \in Nat /\ a % d \in 0 .. d - 1 /\ b % d \in 0 .. d - 1
        /\ a = (p * d) + (a % d) /\ b = (q * d) + (b % d)
    BY <1>1, Division
  <1> HIDE DEF p, q, d
  <1>3. SUFFICES ASSUME q + 1 <= p PROVE FALSE
    BY <1>2 DEF p, q, d
  <1>4. (q + 1) * d <= p * d
    BY <1>1, <1>2, <1>3, Scaling
  <1>5. (q + 1) * d = (q * d) + d /\ q * d \in Nat /\ p * d \in Nat
    BY <1>1, <1>2
  <1> QED
    BY <1>1, <1>2, <1>4, <1>5

\* Advancing and disciplining the clock never take it back, whatever the
\* interval and the correction.
LEMMA ClockForward ==
    ASSUME ClockTyped,
           \/ \E raw \in RawTimes : AdvanceTo(raw)
           \/ \E offset \in Int : Discipline(offset)
           \/ UNCHANGED vars
    PROVE  /\ last_raw_us' \in Nat /\ now_us' \in Nat
           /\ pending_us' \in Int /\ slew_numer' \in Nat
           /\ now_us <= now_us'
  <1> USE DEF ClockTyped
  <1>1. CASE UNCHANGED vars
    BY <1>1 DEF vars, code
  <1>2. ASSUME NEW raw \in RawTimes, AdvanceTo(raw)
        PROVE  /\ last_raw_us' \in Nat /\ now_us' \in Nat
               /\ pending_us' \in Int /\ slew_numer' \in Nat
               /\ now_us <= now_us'
    <2> DEFINE e == Elapsed(raw)
               n == slew_numer + (e * SLEW_PPM)
    <2>1. raw \in Nat /\ e \in Nat
      BY InputAssumption DEF Elapsed
    <2>2. SLEW_PPM \in Nat /\ PPM_DENOM \in Nat \ {0}
      BY SlewAssumption
    <2>3. n \in Nat
      <3>1. e * SLEW_PPM \in Nat
        BY <2>1, <2>2
      <3> QED
        BY <3>1
    <2> HIDE DEF e, n
    <2>4. n \div PPM_DENOM \in Nat /\ n % PPM_DENOM \in Nat
      BY <2>2, <2>3, Division
    <2>5. Budget(e) \in Nat /\ Carry(e) \in Nat
      BY <2>4 DEF Budget, Carry, n
    <2>6. Applied(e) \in Int
      BY <2>5 DEF Applied, Clamp
    <2>7. /\ last_raw_us' = raw /\ slew_numer' = Carry(e)
          /\ pending_us' = pending_us - Applied(e)
          /\ now_us' = Larger(now_us + e + Applied(e), now_us)
      BY <1>2 DEF AdvanceTo, e
    <2> QED
      BY <2>1, <2>5, <2>6, <2>7 DEF Larger
  <1>3. ASSUME NEW offset \in Int, Discipline(offset)
        PROVE  /\ last_raw_us' \in Nat /\ now_us' \in Nat
               /\ pending_us' \in Int /\ slew_numer' \in Nat
               /\ now_us <= now_us'
    BY <1>3 DEF Discipline, Slew, Step, Larger
  <1> QED
    BY <1>1, <1>2, <1>3

------------------------------------------------------------------------------
(***************************************************************************)
(* Frames.                                                                 *)
(***************************************************************************)

LEMMA FrameInit == LoopInit => FrameInv
  BY LoopAssumption DEF LoopInit, Init, FrameInv, ClockTyped, FramesBehind

\* What a batch of the core does to the clock.
LEMMA BatchForward ==
    ASSUME ClockTyped, show_now \in Nat, NEW batch \in Batch, ApplyMesh(batch)
    PROVE  \/ \E offset \in Int : Discipline(offset)
           \/ UNCHANGED vars
  <1>1. Offset \in Int
    BY DEF Offset, ClockTyped
  <1> QED
    BY <1>1 DEF ApplyMesh

\* A step of the loop keeps the order of clock, turn and frames; and the frame it
\* draws, if it draws another, is a later one.
LEMMA FrameNext ==
    ASSUME FrameInv, [LoopNext]_loopVars
    PROVE  /\ FrameInv'
           /\ last_frame_index' # last_frame_index /\ last_frame_index # None
                => last_frame_index' > last_frame_index
  <1> USE DEF FrameInv
  <1>1. CASE Advance
    <2>1. \E raw \in RawTimes : AdvanceTo(raw)
      BY <1>1 DEF Advance
    <2>2. show_now' = now_us' /\ UNCHANGED <<last_frame_index, lead>>
      BY <1>1 DEF Advance
    <2>3. ClockTyped' /\ now_us <= now_us'
      BY <2>1, <2>2, ClockForward DEF ClockTyped
    <2>4. show_now \div FRAME_US \in Nat /\ show_now \div FRAME_US <= show_now' \div FRAME_US
          /\ show_now' \div FRAME_US \in Nat
      BY <2>2, <2>3, FrameOfLater DEF FramesBehind, ClockTyped
    <2> QED
      BY <2>2, <2>3, <2>4 DEF FramesBehind, ClockTyped
  <1>2. CASE Frame
    <2>1. UNCHANGED <<last_raw_us, now_us, pending_us, slew_numer, show_now, lead>>
          /\ last_frame_index' = show_now \div FRAME_US
      BY <1>2 DEF Frame, vars, code
    <2>2. show_now \div FRAME_US \in Nat
      BY FrameOfLater DEF FramesBehind
    <2> QED
      BY <2>1, <2>2 DEF FramesBehind, ClockTyped
  <1>3. ASSUME UNCHANGED <<show_now, last_frame_index, lead>>,
               \/ \E offset \in Int : Discipline(offset)
               \/ UNCHANGED vars
        PROVE  FrameInv' /\ last_frame_index' = last_frame_index
    <2>1. ClockTyped' /\ now_us <= now_us'
      BY <1>3, ClockForward DEF ClockTyped
    <2> QED
      BY <1>3, <2>1 DEF FramesBehind, ClockTyped
  <1>4. CASE GetLease \/ Drained \/ UNCHANGED loopVars
    <2>1. UNCHANGED <<show_now, last_frame_index, lead>> /\ UNCHANGED vars
      BY <1>4 DEF GetLease, Drained, loopVars, turn, world
    <2> QED
      BY <1>3, <2>1
  <1>5. CASE Tick
    <2>1. UNCHANGED <<show_now, last_frame_index, lead>>
      BY <1>5 DEF Tick
    <2>2. UNCHANGED vars \/ \E batch \in Batch : ApplyMesh(batch)
      BY <1>5 DEF Tick
    <2> QED
      BY <1>3, <2>1, <2>2, BatchForward DEF FramesBehind
  <1>6. ASSUME NEW prefix \in Prefixes, NEW address \in Homes[prefix], Datagram(prefix, address)
        PROVE  FrameInv' /\ last_frame_index' = last_frame_index
    <2>1. UNCHANGED <<show_now, last_frame_index, lead>>
      BY <1>6 DEF Datagram
    <2>2. UNCHANGED vars \/ \E batch \in Batch : ApplyMesh(batch)
      BY <1>6 DEF Datagram
    <2> QED
      BY <1>3, <2>1, <2>2, BatchForward DEF FramesBehind
  <1> QED
    BY <1>1, <1>2, <1>4, <1>5, <1>6, <1>3 DEF LoopNext

\* No frame is drawn twice and none out of turn, at every frame rate and whatever
\* corrections the mesh makes.
THEOREM FramesGoForwardHolds == LoopSpec => FramesGoForward
  <1>1. FrameInv /\ [LoopNext]_loopVars => FrameInv'
    BY FrameNext
  <1>2. FrameInv /\ [LoopNext]_loopVars =>
            [last_frame_index' # last_frame_index /\ last_frame_index # None
                => last_frame_index' > last_frame_index]_loopVars
    BY FrameNext
  <1> QED
    BY <1>1, <1>2, FrameInit, PTL DEF LoopSpec, FramesGoForward

------------------------------------------------------------------------------
(***************************************************************************)
(* Peers.                                                                  *)
(***************************************************************************)

LEMMA PeersInit == LoopInit => PeersInv
  <1> SUFFICES ASSUME LoopInit PROVE PeersInv
    OBVIOUS
  <1>1. peers = << >> /\ heard = [p \in Prefixes |-> None] /\ speaker = None
    BY DEF LoopInit
  <1>2. PeersTyped
    BY <1>1, LoopAssumption DEF PeersTyped
  <1>3. CanAnswer
    BY <1>1 DEF CanAnswer, PeersAsHeard, SpeakerIsKnown
  <1> QED
    BY <1>2, <1>3 DEF PeersInv

\* What remember() makes of the table: who spoke is in it where it spoke from,
\* and nobody else moved or came in.
LEMMA Remembered ==
    ASSUME PeersInv, NEW prefix \in Prefixes, NEW address \in Homes[prefix],
           peers' = Remember(prefix, address)
    PROVE  /\ peers' \in Seq(Prefixes \X Addresses)
           /\ Len(peers') <= MAX_PEERS
           /\ \A i, j \in DOMAIN peers' : peers'[i][1] = peers'[j][1] => i = j
           /\ \A i \in DOMAIN peers' :
                  \/ peers'[i] = <<prefix, address>>
                  \/ /\ peers'[i][1] # prefix
                     /\ i \in DOMAIN peers /\ peers'[i] = peers[i]
           /\ \E i \in DOMAIN peers' : peers'[i] = <<prefix, address>>
  <1> USE DEF PeersInv, CanAnswer, PeersTyped
  <1> DEFINE entry == <<prefix, address>>
  <1>1. entry \in Prefixes \X Addresses /\ entry[1] = prefix
    BY DEF Addresses
  <1>2. \A i, j \in DOMAIN peers : peers[i][1] = peers[j][1] => i = j
    BY DEF PeersAsHeard
  <1>3. MAX_PEERS \in Nat \ {0} /\ Len(peers) \in Nat /\ DOMAIN peers = 1 .. Len(peers)
    BY LoopAssumption
  <1>4. CASE prefix \in Known(peers)
    <2>1. peers' = [i \in DOMAIN peers |-> IF peers[i][1] = prefix THEN entry ELSE peers[i]]
      BY <1>4 DEF Remember
    <2>2. PICK k \in DOMAIN peers : peers[k][1] = prefix
      BY <1>4 DEF Known
    <2>3. \A i \in DOMAIN peers : peers[i] \in Prefixes \X Addresses
      OBVIOUS
    <2>4. peers' \in Seq(Prefixes \X Addresses) /\ Len(peers') = Len(peers)
          /\ DOMAIN peers' = DOMAIN peers
      BY <1>1, <1>3, <2>1, <2>3
    <2>5. \A i \in DOMAIN peers : peers'[i] = IF peers[i][1] = prefix THEN entry ELSE peers[i]
      BY <2>1
    <2>6. \A i \in DOMAIN peers : peers'[i][1] = peers[i][1]
      BY <1>1, <2>5
    <2> HIDE DEF entry
    <2>7. ASSUME NEW i \in DOMAIN peers'
          PROVE  \/ peers'[i] = entry
                 \/ peers'[i][1] # prefix /\ i \in DOMAIN peers /\ peers'[i] = peers[i]
      BY <2>4, <2>5, <2>6
    <2>8. \A i, j \in DOMAIN peers' : peers'[i][1] = peers'[j][1] => i = j
      BY <1>2, <2>4, <2>6
    <2>9. Len(peers') <= MAX_PEERS /\ \E i \in DOMAIN peers' : peers'[i] = entry
      BY <2>2, <2>4, <2>5
    <2> QED
      BY <2>4, <2>7, <2>8, <2>9 DEF entry
  <1>5. CASE prefix \notin Known(peers) /\ Len(peers) < MAX_PEERS
    <2>1. peers' = Append(peers, entry)
      BY <1>5 DEF Remember
    <2>2. \A i \in DOMAIN peers : peers[i][1] # prefix
      BY <1>5 DEF Known
    <2>3. /\ peers' \in Seq(Prefixes \X Addresses) /\ Len(peers') = Len(peers) + 1
          /\ DOMAIN peers' = 1 .. Len(peers) + 1
          /\ \A i \in DOMAIN peers : peers'[i] = peers[i]
          /\ peers'[Len(peers) + 1] = entry
      BY <1>1, <1>3, <2>1
    <2> HIDE DEF entry
    <2>4. ASSUME NEW i \in DOMAIN peers'
          PROVE  \/ i \in DOMAIN peers /\ peers'[i] = peers[i]
                 \/ i = Len(peers) + 1 /\ peers'[i] = entry
      BY <1>3, <2>3
    <2>5. \A i, j \in DOMAIN peers' : peers'[i][1] = peers'[j][1] => i = j
      BY <1>1, <1>2, <2>2, <2>4
    <2>6. Len(peers) + 1 \in DOMAIN peers'
      BY <1>3, <2>3
    <2>7. ASSUME NEW i \in DOMAIN peers'
          PROVE  \/ peers'[i] = entry
                 \/ peers'[i][1] # prefix /\ i \in DOMAIN peers /\ peers'[i] = peers[i]
      BY <2>2, <2>4
    <2>8. Len(peers') <= MAX_PEERS
      BY <1>3, <1>5, <2>3
    <2>9. \E i \in DOMAIN peers' : peers'[i] = entry
      BY <2>3, <2>6
    <2>10. peers' \in Seq(Prefixes \X Addresses)
      BY <2>3
    <2> HIDE DEF PeersInv, CanAnswer, PeersTyped
    <2> QED
      BY <2>5, <2>7, <2>8, <2>9, <2>10 DEF entry
  <1>6. CASE prefix \notin Known(peers) /\ ~(Len(peers) < MAX_PEERS)
    <2>1. peers' = [peers EXCEPT ![1] = entry]
      BY <1>6 DEF Remember
    <2>2. \A i \in DOMAIN peers : peers[i][1] # prefix
      BY <1>6 DEF Known
    <2>3. 1 \in DOMAIN peers
      BY <1>3, <1>6
    <2>4. /\ peers' \in Seq(Prefixes \X Addresses) /\ Len(peers') = Len(peers)
          /\ DOMAIN peers' = DOMAIN peers
          /\ \A i \in DOMAIN peers : peers'[i] = IF i = 1 THEN entry ELSE peers[i]
      BY <1>1, <2>1, <2>3
    <2> HIDE DEF entry
    <2>5. \A i, j \in DOMAIN peers' : peers'[i][1] = peers'[j][1] => i = j
      BY <1>1, <1>2, <2>2, <2>4
    <2> QED
      BY <2>2, <2>3, <2>4, <2>5 DEF entry
  <1> QED
    BY <1>4, <1>5, <1>6

LEMMA PeersNext == PeersInv /\ [LoopNext]_loopVars => PeersInv'
  <1> SUFFICES ASSUME PeersInv, [LoopNext]_loopVars PROVE PeersInv'
    OBVIOUS
  <1> USE DEF PeersInv, PeersTyped, CanAnswer, PeersAsHeard, SpeakerIsKnown, Known
  <1>1. ASSUME UNCHANGED <<peers, heard>>, speaker' = speaker \/ speaker' = None
        PROVE  PeersInv'
    BY <1>1
  <1>2. CASE GetLease \/ Advance \/ Tick \/ Drained \/ Frame \/ UNCHANGED loopVars
    BY <1>1, <1>2 DEF GetLease, Advance, Tick, Drained, Frame, loopVars, turn, world
  <1>3. ASSUME NEW prefix \in Prefixes, NEW address \in Homes[prefix], Datagram(prefix, address)
        PROVE  PeersInv'
    <2>1. /\ peers' = Remember(prefix, address)
          /\ heard' = [heard EXCEPT ![prefix] = address] /\ speaker' = prefix
      BY <1>3 DEF Datagram
    <2>2. /\ peers' \in Seq(Prefixes \X Addresses)
          /\ Len(peers') <= MAX_PEERS
          /\ \A i, j \in DOMAIN peers' : peers'[i][1] = peers'[j][1] => i = j
          /\ \A i \in DOMAIN peers' :
                 \/ peers'[i] = <<prefix, address>>
                 \/ /\ peers'[i][1] # prefix
                    /\ i \in DOMAIN peers /\ peers'[i] = peers[i]
          /\ \E i \in DOMAIN peers' : peers'[i] = <<prefix, address>>
      BY <2>1, Remembered
    <2>3. address \in Addresses /\ heard' \in [Prefixes -> Addresses \cup {None}]
      BY <2>1 DEF Addresses
    <2>4. ASSUME NEW i \in DOMAIN peers'
          PROVE  peers'[i][2] = heard'[peers'[i][1]]
      <3>1. CASE peers'[i] = <<prefix, address>>
        BY <2>1, <3>1
      <3>2. CASE peers'[i][1] # prefix /\ i \in DOMAIN peers /\ peers'[i] = peers[i]
        <4>1. peers[i] \in Prefixes \X Addresses
          BY <3>2
        <4>2. peers[i][2] = heard[peers[i][1]] /\ peers[i][1] \in Prefixes
          BY <3>2, <4>1
        <4> QED
          BY <2>1, <3>2, <4>2
      <3> QED
        BY <2>2, <3>1, <3>2
    <2>5. speaker' \in Known(peers')
      <3>1. PICK i \in DOMAIN peers' : peers'[i] = <<prefix, address>>
        BY <2>2
      <3>2. peers'[i][1] = prefix
        BY <3>1
      <3> QED
        BY <2>1, <3>2
    <2> QED
      BY <2>2, <2>3, <2>4, <2>5
  <1> QED
    BY <1>2, <1>3 DEF LoopNext

\* Whoever speaks can be answered where it spoke from, and nobody is looked for
\* where it no longer is, for every size of the table and any number of peers.
THEOREM CanAnswerHolds == LoopSpec => []CanAnswer
  <1>1. PeersInv => CanAnswer
    BY DEF PeersInv
  <1> QED
    BY <1>1, PeersInit, PeersNext, PTL DEF LoopSpec

------------------------------------------------------------------------------
(***************************************************************************)
(* The show clock in the loop: the loop advances and disciplines it and    *)
(* does nothing else to it, so that what ShowClock promises holds here.    *)
(***************************************************************************)

LEMMA LoopClockInit == LoopInit => ClockInv
  BY ClockInit DEF LoopInit

LEMMA LoopClockNext ==
    ASSUME ClockInv, FrameInv, [LoopNext]_loopVars
    PROVE  ClockInv'
  <1>1. ASSUME UNCHANGED vars PROVE ClockInv'
    BY <1>1, ClockNext
  <1>2. ASSUME NEW batch \in Batch, ApplyMesh(batch) PROVE ClockInv'
    <2>1. Offset \in Int
      BY DEF Offset, FrameInv, ClockTyped, FramesBehind
    <2> QED
      BY <1>1, <1>2, <2>1, ClockSlew, ClockStep DEF ApplyMesh, Discipline
  <1>3. CASE Advance
    BY <1>3, ClockAdvance DEF Advance
  <1>4. CASE GetLease \/ Drained \/ Frame \/ UNCHANGED loopVars
    BY <1>1, <1>4 DEF GetLease, Drained, Frame, loopVars
  <1>5. CASE Tick
    BY <1>1, <1>2, <1>5 DEF Tick
  <1>6. ASSUME NEW prefix \in Prefixes, NEW address \in Homes[prefix], Datagram(prefix, address)
        PROVE  ClockInv'
    BY <1>1, <1>2, <1>6 DEF Datagram
  <1> QED
    BY <1>3, <1>4, <1>5, <1>6 DEF LoopNext

LEMMA FrameAndClock == LoopSpec => [](FrameInv /\ ClockInv)
  <1>1. FrameInv /\ ClockInv /\ [LoopNext]_loopVars => (FrameInv /\ ClockInv)'
    BY FrameNext, LoopClockNext
  <1> QED
    BY <1>1, FrameInit, LoopClockInit, PTL DEF LoopSpec

\* In the loop, with corrections measured by a show time that is a turn old, the
\* clock keeps its promises: it loses nothing it was told, it stays within the
\* slew rate, and it absorbs a correction on time and no further.
THEOREM ClockHoldsInLoop ==
    LoopSpec => [](NeverBehind /\ WithinSlewRate /\ CorrectionAbsorbed)
  <1>1. FrameInv /\ ClockInv => NeverBehind /\ WithinSlewRate /\ CorrectionAbsorbed
    BY ClockInvImplies DEF ClockInv, CorrectionAbsorbed
  <1> QED
    BY <1>1, FrameAndClock, PTL

\* An advance in the loop, where the hardware counter never goes back.
LEMMA Interval ==
    ASSUME ClockInv, NEW raw \in RawTimes, raw >= last_raw_us, AdvanceTo(raw),
           NEW e, e = raw - last_raw_us
    PROVE  /\ e \in Nat /\ Budget(e) \in Nat /\ Budget(e) <= e
           /\ slew_numer' \in 0 .. PPM_DENOM - 1
           /\ (Budget(e) * PPM_DENOM) + slew_numer' = slew_numer + (e * SLEW_PPM)
           /\ Applied(e) \in Int /\ Applied(e) = Clamp(pending_us, -Budget(e), Budget(e))
           /\ -Budget(e) <= Applied(e)
           /\ last_raw_us' = last_raw_us + e
           /\ pending_us' = pending_us - Applied(e)
           /\ now_us' = now_us + e + Applied(e)
           /\ waited' = waited + e /\ due' = due
  <1>1. TypeOK /\ raw \in Nat /\ last_raw_us \in Nat /\ now_us \in Nat /\ pending_us \in Int
    BY InputAssumption DEF ClockInv, TypeOK
  <1>2. e \in Nat /\ Elapsed(raw) = e
    BY <1>1 DEF Elapsed
  <1>3. /\ Budget(e) \in Nat /\ Carry(e) \in 0 .. PPM_DENOM - 1
        /\ (Budget(e) * PPM_DENOM) + Carry(e) = slew_numer + (e * SLEW_PPM)
    BY <1>1, <1>2, Sharing
  <1>4. Budget(e) <= e
    BY <1>1, <1>2, BudgetFits
  <1>5. Applied(e) = Clamp(pending_us, -Budget(e), Budget(e))
    BY DEF Applied
  <1>6. Applied(e) \in Int /\ -Budget(e) <= Applied(e)
    BY <1>1, <1>3, <1>5 DEF Clamp
  <1>7. /\ last_raw_us' = raw /\ slew_numer' = Carry(e) /\ pending_us' = pending_us - Applied(e)
        /\ now_us' = Larger(now_us + e + Applied(e), now_us)
        /\ waited' = waited + e /\ due' = due
    BY <1>2 DEF AdvanceTo
  <1>8. now_us' = now_us + e + Applied(e)
    BY <1>1, <1>2, <1>3, <1>4, <1>6, <1>7 DEF Larger
  <1> QED
    BY <1>1, <1>2, <1>3, <1>4, <1>5, <1>6, <1>7, <1>8

------------------------------------------------------------------------------
(***************************************************************************)
(* Waking the core.                                                        *)
(***************************************************************************)

\* The earliest timer of a batch is one of its timers.
LEMMA EarliestIsATimer ==
    ASSUME NEW timers \in Seq(Nat), timers # << >>
    PROVE  /\ Earliest(timers) \in Nat
           /\ \A i \in DOMAIN timers : Earliest(timers) <= timers[i]
  <1> DEFINE T == {timers[i] : i \in DOMAIN timers}
  <1>1. 1 \in DOMAIN timers /\ \A i \in DOMAIN timers : timers[i] \in Nat
    OBVIOUS
  <1>2. T \subseteq Nat /\ timers[1] \in T
    BY <1>1
  <1>3. PICK t \in T : \A u \in T : t <= u
    BY <1>2, LeastTime
  <1>4. \A i \in DOMAIN timers : t <= timers[i]
    BY <1>3
  <1>5. Earliest(timers) \in T /\ \A i \in DOMAIN timers : Earliest(timers) <= timers[i]
    BY <1>3, <1>4 DEF Earliest
  <1> QED
    BY <1>2, <1>5

\* What a batch asks for is some time, and not a negative one.
LEMMA WantedIsATime ==
    ASSUME NEW batch \in Batch
    PROVE  Wanted(batch.timers) \in Nat
  <1>1. batch.timers \in Seq(Nat) /\ FLOOR_US \in Nat
    BY LoopAssumption DEF Batch
  <1> QED
    BY <1>1, EarliestIsATimer DEF Wanted, Larger

\* AtMost() is as long as the slowest clock needs.
LEMMA AtMostSuffices ==
    ASSUME NEW d \in Nat
    PROVE  /\ AtMost(d) \in Nat
           /\ (PPM_DENOM - SLEW_PPM) * AtMost(d) >= (PPM_DENOM * d) + 1
  <1> DEFINE m == PPM_DENOM - SLEW_PPM
             n == d * PPM_DENOM
             q == n \div m
  <1>1. m \in Nat \ {0} /\ PPM_DENOM \in Nat
    BY SlewAssumption, LoopAssumption
  <1>2. n \in Nat /\ n = PPM_DENOM * d
    BY <1>1
  <1>3. AtMost(d) = q + 1
    BY DEF AtMost
  <1> HIDE DEF m, n
  <1>4. q \in Nat /\ n % m \in 0 .. m - 1 /\ n = (q * m) + (n % m)
    BY <1>1, <1>2, Division
  <1> HIDE DEF q
  <1>5. m * (q + 1) = (q * m) + m /\ q * m \in Nat
    BY <1>1, <1>4
  <1>6. m * (q + 1) >= n + 1
    BY <1>1, <1>2, <1>4, <1>5
  <1> QED
    BY <1>2, <1>3, <1>4, <1>6 DEF m

\* The hardware time that the clock has in hand: what it shows, less the fraction
\* it carries, and less what the slowest clock would show by now.  It only grows,
\* and it covers what is left until the deadline at the slowest rate.
Slowest == PPM_DENOM - SLEW_PPM
InHand == (PPM_DENOM * now_us) - slew_numer - (Slowest * last_raw_us)
RunsOutInTime ==
    InHand >= (PPM_DENOM * mesh_deadline_us) - (PPM_DENOM - 1) - (Slowest * wake_by)

WakeTyped ==
    /\ mesh_deadline_us \in Int /\ wake_by \in Int
    /\ at = "tick" => show_now = now_us

WakeInv == WakeTyped /\ RunsOutInTime /\ CoreIsWoken

LEMMA Rates ==
    /\ PPM_DENOM \in Nat \ {0} /\ SLEW_PPM \in Nat
    /\ Slowest \in Nat \ {0}
  BY SlewAssumption, LoopAssumption DEF Slowest

LEMMA InHandIsInt ==
    /\ ClockInv => InHand \in Int
    /\ ClockInv' => InHand' \in Int
  <1>1. ASSUME NEW now \in Int, NEW numer \in Int, NEW raw \in Int
        PROVE  (PPM_DENOM * now) - numer - (Slowest * raw) \in Int
    <2>1. PPM_DENOM * now \in Int /\ Slowest * raw \in Int
      BY Rates
    <2> QED
      BY <2>1
  <1>2. ClockInv => now_us \in Int /\ slew_numer \in Int /\ last_raw_us \in Int
    BY InputAssumption DEF ClockInv, TypeOK
  <1>3. ClockInv' => now_us' \in Int /\ slew_numer' \in Int /\ last_raw_us' \in Int
    BY InputAssumption DEF ClockInv, TypeOK
  <1> QED
    BY <1>1, <1>2, <1>3 DEF InHand, Slowest

\* An advance in the loop gains what the slew rate leaves.
LEMMA InHandGrows ==
    ASSUME ClockInv, NEW raw \in RawTimes, raw >= last_raw_us, AdvanceTo(raw)
    PROVE  InHand' >= InHand
  <1> DEFINE e == raw - last_raw_us
             b == Budget(e)
             a == Applied(e)
  <1>1. /\ e \in Nat /\ b \in Nat /\ a \in Int /\ -b <= a
        /\ slew_numer' \in 0 .. PPM_DENOM - 1
        /\ (b * PPM_DENOM) + slew_numer' = slew_numer + (e * SLEW_PPM)
        /\ last_raw_us' = last_raw_us + e
        /\ now_us' = now_us + e + a
    BY Interval
  <1> HIDE DEF e, b, a
  <1>2. now_us \in Nat /\ last_raw_us \in Nat /\ slew_numer \in Nat
    BY InputAssumption DEF ClockInv, TypeOK
  <1>3. PPM_DENOM \in Nat /\ SLEW_PPM \in Nat
    BY Rates
  <1>4. PPM_DENOM * now_us' = (PPM_DENOM * now_us) + (e * PPM_DENOM) + (a * PPM_DENOM)
    BY <1>1, <1>2, <1>3
  <1>5. (-b) * PPM_DENOM <= a * PPM_DENOM /\ (-b) * PPM_DENOM = -(b * PPM_DENOM)
    BY <1>1, <1>3, Scaling
  <1>6. Slowest * last_raw_us' = (Slowest * last_raw_us) + (e * PPM_DENOM) - (e * SLEW_PPM)
    BY <1>1, <1>2, <1>3 DEF Slowest
  <1>7. /\ PPM_DENOM * now_us \in Int /\ e * PPM_DENOM \in Int /\ a * PPM_DENOM \in Int
        /\ b * PPM_DENOM \in Int /\ e * SLEW_PPM \in Int /\ Slowest * last_raw_us \in Int
    BY <1>1, <1>2, <1>3, Rates
  <1> QED
    BY <1>1, <1>2, <1>4, <1>5, <1>6, <1>7 DEF InHand

\* A correction never takes any of it.
LEMMA InHandStays ==
    ASSUME ClockInv, NEW offset \in Int, Discipline(offset)
    PROVE  InHand' >= InHand
  <1>1. now_us \in Nat /\ last_raw_us \in Nat /\ slew_numer \in Nat /\ pending_us \in Int
    BY InputAssumption DEF ClockInv, TypeOK
  <1>2. /\ last_raw_us' = last_raw_us /\ now_us' \in Nat /\ now_us <= now_us'
        /\ slew_numer' \in Nat /\ slew_numer' <= slew_numer
    BY <1>1 DEF Discipline, Slew, Step, Larger
  <1>3. now_us * PPM_DENOM <= now_us' * PPM_DENOM
    <2>1. now_us \in Int /\ now_us' \in Int /\ PPM_DENOM \in Nat
      BY <1>1, <1>2, Rates
    <2> QED
      BY <1>2, <2>1, Scaling
  <1>4. /\ PPM_DENOM * now_us = now_us * PPM_DENOM /\ PPM_DENOM * now_us' = now_us' * PPM_DENOM
        /\ now_us * PPM_DENOM \in Int /\ now_us' * PPM_DENOM \in Int
        /\ Slowest * last_raw_us \in Int
    BY <1>1, <1>2, Rates
  <1> QED
    BY <1>1, <1>2, <1>3, <1>4 DEF InHand

\* A batch sets a deadline that is met in time.
LEMMA BatchIsMet ==
    ASSUME ClockInv, FrameInv, NEW batch \in Batch, ApplyMesh(batch)
    PROVE  /\ mesh_deadline_us' \in Int /\ wake_by' \in Int
           /\ last_raw_us' = last_raw_us /\ last_raw_us <= wake_by'
           /\ RunsOutInTime'
  <1> DEFINE w == Wanted(batch.timers)
             m == AtMost(w)
  <1>1. w \in Nat
    BY WantedIsATime
  <1>2. mesh_deadline_us' = show_now + w /\ wake_by' = last_raw_us + m
    BY DEF ApplyMesh, Deadline, Wanted
  <1>3. m \in Nat /\ Slowest * m >= (PPM_DENOM * w) + 1
    BY <1>1, AtMostSuffices DEF Slowest
  <1> HIDE DEF w, m
  <1>4. /\ now_us \in Nat /\ last_raw_us \in Nat /\ slew_numer \in 0 .. PPM_DENOM - 1
        /\ show_now \in Nat /\ show_now <= now_us /\ Offset \in Int
    BY InputAssumption DEF ClockInv, TypeOK, FrameInv, ClockTyped, FramesBehind, Offset
  <1>5. InHand' >= InHand /\ last_raw_us' = last_raw_us
    <2>1. CASE UNCHANGED vars
      BY <2>1, InHandIsInt DEF vars, code, InHand
    <2>2. CASE Discipline(Offset)
      BY <1>4, <2>2, InHandStays DEF Discipline, Slew, Step
    <2> QED
      BY <2>1, <2>2 DEF ApplyMesh
  <1>6. ClockInv' /\ InHand \in Int /\ InHand' \in Int
    <2>1. ClockInv'
      BY <1>4, ClockNext, ClockSlew, ClockStep DEF ApplyMesh, Discipline
    <2> QED
      BY <2>1, InHandIsInt
  <1>7. show_now * PPM_DENOM <= now_us * PPM_DENOM
    BY <1>4, Rates, Scaling
  <1>8. /\ PPM_DENOM * now_us = now_us * PPM_DENOM
        /\ PPM_DENOM * (show_now + w) = (show_now * PPM_DENOM) + (PPM_DENOM * w)
        /\ Slowest * (last_raw_us + m) = (Slowest * last_raw_us) + (Slowest * m)
    BY <1>1, <1>3, <1>4, Rates
  <1>9. /\ now_us * PPM_DENOM \in Int /\ show_now * PPM_DENOM \in Int /\ PPM_DENOM * w \in Int
        /\ Slowest * last_raw_us \in Int /\ Slowest * m \in Int
    BY <1>1, <1>3, <1>4, Rates
  <1>10. InHand >= (PPM_DENOM * (show_now + w)) - (PPM_DENOM - 1) - (Slowest * (last_raw_us + m))
    BY <1>3, <1>4, <1>7, <1>8, <1>9, Rates DEF InHand
  <1>11. RunsOutInTime'
    <2>1. /\ PPM_DENOM * (show_now + w) \in Int /\ Slowest * (last_raw_us + m) \in Int
      BY <1>8, <1>9
    <2>2. InHand' >= (PPM_DENOM * (show_now + w)) - (PPM_DENOM - 1) - (Slowest * (last_raw_us + m))
      BY <1>5, <1>6, <1>10, <2>1, Rates
    <2> QED
      BY <1>2, <2>2 DEF RunsOutInTime, Slowest
  <1> QED
    BY <1>1, <1>2, <1>3, <1>4, <1>5, <1>11

\* Until the deadline the time has not run out.
LEMMA NotYetDue ==
    ASSUME ClockInv, WakeTyped, RunsOutInTime, now_us < mesh_deadline_us
    PROVE  last_raw_us <= wake_by
  <1>1. /\ now_us \in Nat /\ last_raw_us \in Nat /\ slew_numer \in Nat
        /\ mesh_deadline_us \in Int /\ wake_by \in Int
    BY InputAssumption DEF ClockInv, TypeOK, WakeTyped
  <1>2. (now_us + 1) * PPM_DENOM <= mesh_deadline_us * PPM_DENOM
    BY <1>1, Rates, Scaling
  <1>3. /\ (now_us + 1) * PPM_DENOM = (PPM_DENOM * now_us) + PPM_DENOM
        /\ mesh_deadline_us * PPM_DENOM = PPM_DENOM * mesh_deadline_us
        /\ PPM_DENOM * now_us \in Int /\ PPM_DENOM * mesh_deadline_us \in Int
        /\ Slowest * last_raw_us = last_raw_us * Slowest /\ Slowest * wake_by = wake_by * Slowest
        /\ last_raw_us * Slowest \in Int /\ wake_by * Slowest \in Int
    BY <1>1, Rates
  <1>4. last_raw_us * Slowest < wake_by * Slowest
    BY <1>1, <1>2, <1>3, Rates DEF RunsOutInTime, InHand
  <1>5. SUFFICES ASSUME wake_by <= last_raw_us PROVE FALSE
    BY <1>1
  <1>6. wake_by * Slowest <= last_raw_us * Slowest
    BY <1>1, <1>5, Rates, Scaling
  <1> QED
    BY <1>3, <1>4, <1>6

LEMMA WakeInit == LoopInit => WakeInv
  <1> SUFFICES ASSUME LoopInit PROVE WakeInv
    OBVIOUS
  <1>1. /\ now_us = 0 /\ slew_numer = 0 /\ last_raw_us = 0 /\ mesh_deadline_us = 0
        /\ wake_by = 0 /\ at = "lease"
    BY DEF LoopInit, Init
  <1>2. PPM_DENOM * 0 = 0 /\ Slowest * 0 = 0
    BY Rates
  <1> QED
    BY <1>1, <1>2, Rates DEF WakeInv, WakeTyped, RunsOutInTime, InHand, CoreIsWoken

LEMMA WakeNext ==
    ASSUME WakeInv, ClockInv, FrameInv, [LoopNext]_loopVars
    PROVE  WakeInv'
  <1> USE DEF WakeInv
  <1>1. ClockInv'
    BY LoopClockNext
  <1>2. CASE Advance
    <2>1. PICK raw \in RawTimes : raw \in last_raw_us .. last_raw_us + MaxTurn /\ AdvanceTo(raw)
      BY <1>2 DEF Advance
    <2>2. raw >= last_raw_us
      BY <2>1
    <2>3. InHand' >= InHand /\ InHand \in Int /\ InHand' \in Int
      BY <1>1, <2>1, <2>2, InHandGrows, InHandIsInt
    <2>4. UNCHANGED <<mesh_deadline_us, wake_by>> /\ show_now' = now_us' /\ at' = "tick"
      BY <1>2 DEF Advance
    <2>5. PPM_DENOM * mesh_deadline_us \in Int /\ Slowest * wake_by \in Int
      BY Rates DEF WakeTyped
    <2>6. RunsOutInTime'
      BY <2>3, <2>4, <2>5, Rates DEF RunsOutInTime, Slowest
    <2> QED
      BY <2>4, <2>6 DEF WakeTyped, CoreIsWoken
  <1>3. CASE Tick
    <2>1. at = "tick" /\ at' = "receive" /\ show_now = now_us
      BY <1>3 DEF Tick, WakeTyped
    <2>2. CASE show_now >= mesh_deadline_us
      <3>1. PICK batch \in Batch : ApplyMesh(batch)
        BY <1>3, <2>2 DEF Tick
      <3> QED
        BY <2>1, <3>1, BatchIsMet DEF WakeTyped, CoreIsWoken
    <2>3. CASE ~(show_now >= mesh_deadline_us)
      <3>1. UNCHANGED <<vars, mesh_deadline_us, wake_by>>
        BY <1>3, <2>3 DEF Tick
      <3>2. now_us < mesh_deadline_us
        BY <2>1, <2>3 DEF WakeTyped, ClockInv, TypeOK
      <3>3. last_raw_us <= wake_by
        BY <3>2, NotYetDue
      <3> QED
        BY <2>1, <3>1, <3>3
        DEF WakeTyped, CoreIsWoken, RunsOutInTime, InHand, vars, code
    <2> QED
      BY <2>2, <2>3
  <1>4. ASSUME UNCHANGED <<vars, mesh_deadline_us, wake_by, show_now>>,
               at' # "tick" \/ at' = at,
               at' \in {"receive", "frame"} => at \in {"receive", "frame"}
        PROVE  WakeInv'
    BY <1>4 DEF WakeTyped, CoreIsWoken, RunsOutInTime, InHand, vars, code
  <1>5. CASE GetLease \/ Drained \/ Frame \/ UNCHANGED loopVars
    BY <1>4, <1>5 DEF GetLease, Drained, Frame, loopVars, turn, world
  <1>6. ASSUME NEW prefix \in Prefixes, NEW address \in Homes[prefix], Datagram(prefix, address)
        PROVE  WakeInv'
    <2>1. at = "receive" /\ at' = at /\ show_now' = show_now
      BY <1>6 DEF Datagram
    <2>2. CASE UNCHANGED <<vars, mesh_deadline_us, next_sync, wake_by>>
      BY <1>4, <2>1, <2>2
    <2>3. ASSUME NEW batch \in Batch, ApplyMesh(batch) PROVE WakeInv'
      BY <2>1, <2>3, BatchIsMet DEF WakeTyped, CoreIsWoken
    <2> QED
      BY <1>6, <2>2, <2>3 DEF Datagram
  <1> QED
    BY <1>2, <1>3, <1>5, <1>6 DEF LoopNext

\* The core has its tick in time, at every slew rate and whatever timers it asks
\* for and whatever corrections are made in the meantime.
THEOREM CoreIsWokenHolds == LoopSpec => []CoreIsWoken
  <1> DEFINE I == FrameInv /\ ClockInv /\ WakeInv
  <1>1. LoopInit => I
    BY FrameInit, LoopClockInit, WakeInit
  <1>2. I /\ [LoopNext]_loopVars => I'
    BY FrameNext, LoopClockNext, WakeNext
  <1>3. I => CoreIsWoken
    BY DEF WakeInv
  <1> QED
    BY <1>1, <1>2, <1>3, PTL DEF LoopSpec

------------------------------------------------------------------------------
(***************************************************************************)
(* Following a leader.  A correction is measured by the show time of the   *)
(* turn and without regard to what is outstanding, and yet is right: the   *)
(* clock has not been stepped in the turn, and nothing is outstanding.     *)
(***************************************************************************)
Departure == now_us - last_raw_us

\* A show time by which the core could correct is what the clock shows.
Measured ==
    /\ next_sync \in Int
    /\ at \in {"tick", "receive"} => show_now = now_us \/ show_now < next_sync

\* A leader that is far off is followed in one step, or, backwards, not at all.
StepsOnce ==
    Abs(lead) > STEP_ABOVE_US =>
        /\ pending_us = 0
        /\ Departure = 0 \/ (Departure = lead /\ lead >= 0)

\* A leader that is near is approached: what is outstanding is what is left of
\* the way, and what was due is the whole of it, since the correction before the
\* time at which the next may come.
Near == AbsorbedInTime(lead) /\ Abs(lead) <= STEP_ABOVE_US
SlewsOnce ==
    Near =>
        /\ Departure + pending_us = lead \/ (Departure = 0 /\ pending_us = 0)
        /\ (0 <= pending_us /\ pending_us <= lead) \/ (lead <= pending_us /\ pending_us <= 0)
        /\ pending_us # 0 =>
               /\ due = lead
               /\ now_us - (next_sync - SYNC_US) = waited + (lead - pending_us)

FollowInv == Measured /\ StepsOnce /\ SlewsOnce

\* The clock and the leader, typed once.
LEMMA FollowTypes ==
    ASSUME ClockInv, FrameInv, Measured
    PROVE  /\ now_us \in Nat /\ last_raw_us \in Nat /\ pending_us \in Int
           /\ slew_numer \in 0 .. PPM_DENOM - 1 /\ due \in Int /\ waited \in Nat
           /\ lead \in Int /\ show_now \in Nat /\ next_sync \in Int
           /\ STEP_ABOVE_US \in Nat /\ SYNC_US \in Nat \ {0} /\ Departure \in Int
  BY InputAssumption, LoopAssumption
  DEF ClockInv, TypeOK, FrameInv, ClockTyped, FramesBehind, Measured, Departure

\* A correction has been absorbed when the next may come.
LEMMA AbsorbedByThen ==
    ASSUME ClockInv, FrameInv, FollowInv, Near, next_sync <= now_us
    PROVE  pending_us = 0
  <1>1. SUFFICES ASSUME pending_us # 0 PROVE FALSE
    OBVIOUS
  <1> DEFINE gone == Abs(lead) - Abs(pending_us)
  <1>2. /\ now_us \in Nat /\ pending_us \in Int /\ slew_numer \in 0 .. PPM_DENOM - 1
        /\ waited \in Nat /\ lead \in Int /\ next_sync \in Int /\ SYNC_US \in Nat
        /\ PPM_DENOM \in Nat \ {0} /\ SLEW_PPM \in Nat
    BY FollowTypes, Rates DEF FollowInv
  <1>3. (gone * PPM_DENOM) + slew_numer >= SLEW_PPM * waited
    BY <1>1 DEF ClockInv, DueShare, FollowInv, SlewsOnce
  <1>4. /\ (0 < pending_us /\ pending_us <= lead) \/ (lead <= pending_us /\ pending_us < 0)
        /\ now_us - (next_sync - SYNC_US) = waited + (lead - pending_us)
    BY <1>1, <1>2 DEF FollowInv, SlewsOnce
  <1>5. Abs(lead) \in Nat /\ gone \in Nat /\ gone + 1 <= Abs(lead) /\ SYNC_US - gone <= waited
    BY <1>2, <1>4 DEF Abs
  <1>6. Abs(lead) * (PPM_DENOM + SLEW_PPM) <= SLEW_PPM * SYNC_US
    BY DEF Near, AbsorbedInTime
  <1> HIDE DEF gone
  <1>7. (gone + 1) * (PPM_DENOM + SLEW_PPM) <= Abs(lead) * (PPM_DENOM + SLEW_PPM)
    BY <1>2, <1>5, Scaling
  <1>8. (SYNC_US - gone) * SLEW_PPM <= waited * SLEW_PPM
    BY <1>2, <1>5, Scaling
  <1>9. /\ (gone + 1) * (PPM_DENOM + SLEW_PPM)
              = (gone * PPM_DENOM) + (gone * SLEW_PPM) + PPM_DENOM + SLEW_PPM
        /\ (SYNC_US - gone) * SLEW_PPM = (SLEW_PPM * SYNC_US) - (gone * SLEW_PPM)
        /\ waited * SLEW_PPM = SLEW_PPM * waited
    BY <1>2, <1>5
  <1>10. /\ gone * PPM_DENOM \in Int /\ gone * SLEW_PPM \in Int /\ SLEW_PPM * SYNC_US \in Int
         /\ SLEW_PPM * waited \in Int /\ Abs(lead) * (PPM_DENOM + SLEW_PPM) \in Int
    BY <1>2, <1>5
  <1> QED
    BY <1>2, <1>3, <1>6, <1>7, <1>8, <1>9, <1>10

LEMMA FollowInit == LoopInit => FollowInv
  <1> SUFFICES ASSUME LoopInit PROVE FollowInv
    OBVIOUS
  <1>1. /\ now_us = 0 /\ last_raw_us = 0 /\ pending_us = 0 /\ lead \in Int
        /\ next_sync = 0 /\ at = "lease"
    BY LoopAssumption DEF LoopInit, Init
  <1> QED
    BY <1>1 DEF FollowInv, Measured, StepsOnce, SlewsOnce, Departure

\* An interval works a correction off, and keeps the way and what is left of it.
LEMMA FollowAdvance ==
    ASSUME ClockInv, FrameInv, FollowInv, Advance
    PROVE  FollowInv'
  <1>1. PICK raw \in RawTimes : raw \in last_raw_us .. last_raw_us + MaxTurn /\ AdvanceTo(raw)
    BY DEF Advance
  <1>2. raw >= last_raw_us
    BY <1>1
  <1> DEFINE e == raw - last_raw_us
             b == Budget(e)
             a == Applied(e)
  <1>3. /\ e \in Nat /\ b \in Nat /\ a \in Int
        /\ a = Clamp(pending_us, -b, b)
        /\ last_raw_us' = last_raw_us + e /\ pending_us' = pending_us - a
        /\ now_us' = now_us + e + a /\ waited' = waited + e /\ due' = due
    BY <1>1, <1>2, Interval
  <1> HIDE DEF e, b, a
  <1>4. /\ now_us \in Nat /\ last_raw_us \in Nat /\ pending_us \in Int /\ due \in Int
        /\ waited \in Nat /\ lead \in Int /\ next_sync \in Int /\ SYNC_US \in Nat
        /\ Departure \in Int /\ Departure = now_us - last_raw_us
    BY FollowTypes DEF FollowInv, Departure
  <1>5. UNCHANGED <<lead, next_sync>> /\ show_now' = now_us' /\ at' = "tick"
    BY DEF Advance
  <1>6. /\ pending_us = 0 => a = 0
        /\ pending_us >= 0 => a >= 0 /\ a <= pending_us
        /\ pending_us <= 0 => a <= 0 /\ pending_us <= a
    BY <1>3, <1>4 DEF Clamp
  <1>7. Departure' = Departure + a
    BY <1>3, <1>4 DEF Departure
  <1>8. Measured'
    BY <1>4, <1>5 DEF Measured
  <1>9. StepsOnce'
    BY <1>3, <1>4, <1>5, <1>6, <1>7 DEF FollowInv, StepsOnce, Abs
  <1>10. SlewsOnce'
    <2> SUFFICES ASSUME Near' PROVE SlewsOnce'
      BY DEF SlewsOnce
    <2>1. Near
      BY <1>5 DEF Near, AbsorbedInTime, Abs
    <2>2. /\ Departure + pending_us = lead \/ (Departure = 0 /\ pending_us = 0)
          /\ (0 <= pending_us /\ pending_us <= lead) \/ (lead <= pending_us /\ pending_us <= 0)
          /\ pending_us # 0 =>
                 /\ due = lead
                 /\ now_us - (next_sync - SYNC_US) = waited + (lead - pending_us)
      BY <2>1 DEF FollowInv, SlewsOnce
    <2>3. Departure' + pending_us' = lead \/ (Departure' = 0 /\ pending_us' = 0)
      BY <2>2, <1>3, <1>4, <1>6, <1>7
    <2>4. (0 <= pending_us' /\ pending_us' <= lead) \/ (lead <= pending_us' /\ pending_us' <= 0)
      BY <2>2, <1>3, <1>4, <1>6
    <2>5. pending_us' # 0 =>
              /\ due' = lead
              /\ now_us' - (next_sync - SYNC_US) = waited' + (lead - pending_us')
      BY <2>2, <1>3, <1>4, <1>6
    <2> QED
      BY <2>3, <2>4, <2>5, <1>5 DEF SlewsOnce
  <1> QED
    BY <1>8, <1>9, <1>10 DEF FollowInv

\* A correction is measured right.
LEMMA FollowCorrect ==
    ASSUME ClockInv, FrameInv, FollowInv, at = "receive", at' = at,
           UNCHANGED <<show_now, lead>>,
           show_now >= next_sync, next_sync' = show_now + SYNC_US, Discipline(Offset)
    PROVE  FollowInv'
  <1>1. /\ now_us \in Nat /\ last_raw_us \in Nat /\ pending_us \in Int
        /\ lead \in Int /\ show_now \in Nat /\ next_sync \in Int
        /\ STEP_ABOVE_US \in Nat /\ SYNC_US \in Nat \ {0} /\ Departure \in Int
    BY FollowTypes DEF FollowInv
  <1>2. show_now = now_us /\ next_sync <= now_us
    BY <1>1 DEF FollowInv, Measured
  <1>3. Offset = lead - Departure
    BY <1>1, <1>2 DEF Offset, Departure
  <1> DEFINE total == pending_us + Offset
  <1>4. total \in Int /\ total = pending_us + (lead - Departure)
    BY <1>1, <1>3
  <1>5. /\ last_raw_us' = last_raw_us
        /\ \/ /\ Abs(total) <= STEP_ABOVE_US
              /\ pending_us' = total /\ due' = total /\ waited' = 0 /\ now_us' = now_us
           \/ /\ Abs(total) > STEP_ABOVE_US
              /\ pending_us' = 0 /\ now_us' = Larger(now_us + total, now_us)
    BY DEF Discipline, Slew, Step
  <1> HIDE DEF total
  <1>6. Measured'
    BY <1>1 DEF Measured
  <1>7. StepsOnce'
    <2> SUFFICES ASSUME Abs(lead) > STEP_ABOVE_US
                 PROVE  /\ pending_us' = 0
                        /\ Departure' = 0 \/ (Departure' = lead /\ lead >= 0)
      BY DEF StepsOnce, Abs
    <2>1. pending_us = 0 /\ (Departure = 0 \/ (Departure = lead /\ lead >= 0))
      BY DEF FollowInv, StepsOnce
    <2>2. CASE Departure = lead
      <3>1. total = 0 /\ Abs(total) = 0
        BY <1>1, <1>4, <2>1, <2>2 DEF Abs
      <3>2. pending_us' = 0 /\ now_us' = now_us
        BY <1>1, <1>5, <3>1
      <3> QED
        BY <1>5, <2>1, <3>2 DEF Departure
    <2>3. CASE Departure = 0
      <3>1. total = lead
        BY <1>1, <1>4, <2>1, <2>3
      <3>2. pending_us' = 0 /\ now_us' = Larger(now_us + lead, now_us)
        BY <1>1, <1>5, <3>1 DEF Abs
      <3> QED
        BY <1>1, <1>5, <2>3, <3>2 DEF Departure, Larger
    <2> QED
      BY <2>1, <2>2, <2>3
  <1>8. SlewsOnce'
    <2> SUFFICES ASSUME Near PROVE SlewsOnce'
      BY DEF SlewsOnce, Near, AbsorbedInTime, Abs
    <2>1. pending_us = 0
      BY <1>2, AbsorbedByThen
    <2>2. Departure = lead \/ Departure = 0
      BY <1>1, <2>1 DEF FollowInv, SlewsOnce
    <2>3. total = lead - Departure /\ (total = 0 \/ total = lead) /\ Abs(total) <= STEP_ABOVE_US
      BY <1>1, <1>4, <2>1, <2>2 DEF Near, Abs
    <2>4. /\ pending_us' = total /\ due' = total /\ waited' = 0
          /\ now_us' = now_us /\ Departure' = Departure
      BY <1>1, <1>4, <1>5, <2>3 DEF Abs, Departure
    <2> QED
      BY <1>1, <1>2, <1>4, <2>2, <2>3, <2>4 DEF SlewsOnce
  <1> QED
    BY <1>6, <1>7, <1>8 DEF FollowInv

LEMMA FollowNext ==
    ASSUME ClockInv, FrameInv, FollowInv, [LoopNext]_loopVars
    PROVE  FollowInv'
  <1>1. ASSUME UNCHANGED <<vars, next_sync, show_now, lead>>,
               at' \in {"tick", "receive"} => at \in {"tick", "receive"}
        PROVE  FollowInv'
    BY <1>1
    DEF FollowInv, Measured, StepsOnce, SlewsOnce, Near, AbsorbedInTime, Departure, Abs,
        vars, code, history
  <1>2. CASE GetLease \/ Drained \/ Frame \/ UNCHANGED loopVars
    BY <1>1, <1>2 DEF GetLease, Drained, Frame, loopVars, turn, world
  <1>3. CASE Tick
    <2>1. at = "tick" /\ UNCHANGED <<show_now, lead>>
      BY <1>3 DEF Tick
    <2>2. UNCHANGED <<vars, next_sync>>
      BY <1>3 DEF Tick, ApplyMesh
    <2> QED
      BY <1>1, <2>1, <2>2
  <1>4. ASSUME NEW prefix \in Prefixes, NEW address \in Homes[prefix], Datagram(prefix, address)
        PROVE  FollowInv'
    <2>1. at = "receive" /\ at' = at /\ UNCHANGED <<show_now, lead>>
      BY <1>4 DEF Datagram
    <2>2. CASE UNCHANGED <<vars, next_sync>>
      BY <1>1, <2>1, <2>2
    <2>3. CASE show_now >= next_sync /\ next_sync' = show_now + SYNC_US /\ Discipline(Offset)
      BY <2>1, <2>3, FollowCorrect
    <2> QED
      BY <1>4, <2>2, <2>3 DEF Datagram, ApplyMesh
  <1> QED
    BY <1>2, <1>3, <1>4, FollowAdvance DEF LoopNext

\* A device that follows a leader never runs ahead of it nor, behind it, past it,
\* at every rate and threshold, if the leader is near enough that a correction is
\* absorbed before the next, or so far that it is stepped.
THEOREM NeverPastTheLeaderHolds == LoopSpec => []NeverPastTheLeader
  <1> DEFINE I == FrameInv /\ ClockInv /\ FollowInv
  <1>1. LoopInit => I
    BY FrameInit, LoopClockInit, FollowInit
  <1>2. I /\ [LoopNext]_loopVars => I'
    BY FrameNext, LoopClockNext, FollowNext
  <1>3. I => NeverPastTheLeader
    <2> SUFFICES ASSUME I, Near \/ Abs(lead) > STEP_ABOVE_US
                 PROVE  IF lead >= 0 THEN now_us <= last_raw_us + lead
                                     ELSE now_us >= last_raw_us + lead
      BY FollowTypes DEF NeverPastTheLeader, Near, FollowInv, Abs
    <2>1. /\ now_us \in Nat /\ last_raw_us \in Nat /\ pending_us \in Int /\ lead \in Int
      BY FollowTypes DEF FollowInv
    <2>2. CASE Near
      BY <2>1, <2>2 DEF FollowInv, SlewsOnce, Departure
    <2>3. CASE Abs(lead) > STEP_ABOVE_US
      BY <2>1, <2>3 DEF FollowInv, StepsOnce, Departure
    <2> QED
      BY <2>2, <2>3
  <1> QED
    BY <1>1, <1>2, <1>3, PTL DEF LoopSpec

------------------------------------------------------------------------------
(***************************************************************************)
(* The strip.                                                              *)
(***************************************************************************)

\* What the renderer draws: a red, a green and a blue for each LED.
Frames == [1 .. LEDS -> Pixels]

\* What a byte is made of, by its bits.
LEMMA BitsOfByte ==
    ASSUME NEW v \in 0 .. 255
    PROVE  /\ \A b \in 1 .. 8 : Bit(v, b) \in {0, 1}
           /\ v = 128 * Bit(v, 1) + 64 * Bit(v, 2) + 32 * Bit(v, 3) + 16 * Bit(v, 4)
                  + 8 * Bit(v, 5) + 4 * Bit(v, 6) + 2 * Bit(v, 7) + Bit(v, 8)
  <1>1. \A b \in 1 .. 8 : Weights[b] \in {128, 64, 32, 16, 8, 4, 2, 1}
    BY SMT DEF Weights
  <1>2. \A b \in 1 .. 8 : Bit(v, b) \in {0, 1}
    BY <1>1, SMTT(20) DEF Bit
  <1>3. /\ Bit(v, 1) = (v \div 128) % 2 /\ Bit(v, 2) = (v \div 64) % 2
        /\ Bit(v, 3) = (v \div 32) % 2 /\ Bit(v, 4) = (v \div 16) % 2
        /\ Bit(v, 5) = (v \div 8) % 2 /\ Bit(v, 6) = (v \div 4) % 2
        /\ Bit(v, 7) = (v \div 2) % 2 /\ Bit(v, 8) = (v \div 1) % 2
    BY SMTT(20) DEF Weights, Bit
  <1>4. v = 128 * ((v \div 128) % 2) + 64 * ((v \div 64) % 2) + 32 * ((v \div 32) % 2)
              + 16 * ((v \div 16) % 2) + 8 * ((v \div 8) % 2) + 4 * ((v \div 4) % 2)
              + 2 * ((v \div 2) % 2) + ((v \div 1) % 2)
    BY SMTT(30)
  <1> QED
    BY <1>2, <1>3, <1>4

\* The bytes of a frame: four for each LED, in the order of the part.
LEMMA StreamOfFrame ==
    ASSUME NEW pixels \in Frames
    PROVE  /\ Len(Stream(pixels)) = LEDS * 4
           /\ DOMAIN Stream(pixels) = 1 .. LEDS * 4
           /\ \A i \in 1 .. LEDS : \A j \in 1 .. 4 :
                  Stream(pixels)[(i - 1) * 4 + j] = LedBytes(pixels[i])[j]
           /\ \A n \in 1 .. LEDS * 4 : Stream(pixels)[n] \in 0 .. 255
  <1> DEFINE pieces == [i \in 1 .. LEDS |-> LedBytes(pixels[i])]
  <1>1. LEDS \in Nat \ {0}
    BY StripAssumption
  <1>2. Len(pieces) = LEDS /\ \A i \in 1 .. LEDS : pieces[i] = LedBytes(pixels[i])
    BY <1>1
  <1>3. Stream(pixels) = Joined(pieces, 4)
    BY DEF Stream, PerLed
  <1> HIDE DEF pieces
  <1>4. DOMAIN Joined(pieces, 4) = 1 .. LEDS * 4 /\ Len(Joined(pieces, 4)) = LEDS * 4
    BY <1>1, <1>2 DEF Joined
  <1>5. \A i \in 1 .. LEDS : \A j \in 1 .. 4 :
            Joined(pieces, 4)[(i - 1) * 4 + j] = LedBytes(pixels[i])[j]
    <2> TAKE i \in 1 .. LEDS, j \in 1 .. 4
    <2> DEFINE m == (i - 1) * 4 + j
    <2>1. Joined(pieces, 4)[m] = pieces[i][j]
      <3>1. m \in 1 .. LEDS * 4 /\ (m - 1) \div 4 = i - 1 /\ (m - 1) % 4 = j - 1
        BY <1>1
      <3> HIDE DEF m
      <3>2. Joined(pieces, 4)[m] = pieces[((m - 1) \div 4) + 1][((m - 1) % 4) + 1]
        BY <1>1, <1>2, <3>1 DEF Joined
      <3> QED
        BY <3>1, <3>2
    <2> QED
      BY <1>2, <2>1
  <1>6. \A i \in 1 .. LEDS : \A j \in 1 .. 4 : LedBytes(pixels[i])[j] \in 0 .. 255
    <2> TAKE i \in 1 .. LEDS, j \in 1 .. 4
    <2>1. pixels[i] \in [1 .. 3 -> 0 .. 255]
      BY DEF Frames, Pixels
    <2>2. pixels[i][1] \in 0 .. 255 /\ pixels[i][2] \in 0 .. 255 /\ pixels[i][3] \in 0 .. 255
      BY <2>1
    <2> QED
      BY <2>2 DEF LedBytes
  <1>7. ASSUME NEW n \in 1 .. LEDS * 4
        PROVE  Joined(pieces, 4)[n] \in 0 .. 255
    <2>1. PICK i \in 1 .. LEDS, j \in 1 .. 4 : n = (i - 1) * 4 + j
      <3>1. ((n - 1) \div 4) + 1 \in 1 .. LEDS /\ ((n - 1) % 4) + 1 \in 1 .. 4
        BY <1>1
      <3>2. n = (((n - 1) \div 4) + 1 - 1) * 4 + (((n - 1) % 4) + 1)
        BY <1>1
      <3> QED
        BY <3>1, <3>2
    <2> QED
      BY <1>5, <1>6, <2>1
  <1> QED
    BY <1>3, <1>4, <1>5, <1>7

\* The codes of a frame and where the peripheral stops.
LEMMA CodesOfFrame ==
    ASSUME NEW pixels \in Frames
    PROVE  /\ RmtCodes(pixels) \in Seq({T0, T1, EmptyCode})
           /\ Len(RmtCodes(pixels)) = LEDS * 32 + 1
           /\ RmtCodes(pixels)[LEDS * 32 + 1] = EmptyCode
           /\ \A n \in 1 .. LEDS * 4 : \A b \in 1 .. 8 :
                  RmtCodes(pixels)[(n - 1) * 8 + b] =
                      IF Bit(Stream(pixels)[n], b) = 1 THEN T1 ELSE T0
           /\ \A m \in 1 .. LEDS * 32 : RmtCodes(pixels)[m] # EmptyCode
  <1> DEFINE s == Stream(pixels)
             pieces == [n \in DOMAIN s |-> RmtByte(s[n])]
             codes == Joined(pieces, 8)
  <1>1. LEDS \in Nat \ {0}
    BY StripAssumption
  <1>2. DOMAIN s = 1 .. LEDS * 4
    BY StreamOfFrame
  <1> HIDE DEF s
  <1>3. Len(pieces) = LEDS * 4 /\ \A n \in 1 .. LEDS * 4 : pieces[n] = RmtByte(s[n])
    BY <1>1, <1>2
  <1> HIDE DEF pieces
  <1>4. DOMAIN codes = 1 .. LEDS * 32 /\ Len(codes) = LEDS * 32
    BY <1>1, <1>3 DEF Joined
  <1>5. \A n \in 1 .. LEDS * 4 : \A b \in 1 .. 8 :
            codes[(n - 1) * 8 + b] = IF Bit(s[n], b) = 1 THEN T1 ELSE T0
    <2> TAKE n \in 1 .. LEDS * 4, b \in 1 .. 8
    <2> DEFINE m == (n - 1) * 8 + b
    <2>1. codes[m] = pieces[n][b]
      <3>1. m \in 1 .. LEDS * 4 * 8 /\ (m - 1) \div 8 = n - 1 /\ (m - 1) % 8 = b - 1
        BY <1>1
      <3> HIDE DEF m
      <3>2. codes[m] = pieces[((m - 1) \div 8) + 1][((m - 1) % 8) + 1]
        BY <1>1, <1>3, <3>1 DEF Joined
      <3> QED
        BY <3>1, <3>2
    <2> QED
      BY <1>3, <2>1 DEF RmtByte
  <1> HIDE DEF codes
  <1>6. ASSUME NEW m \in 1 .. LEDS * 32
        PROVE  codes[m] \in {T0, T1}
    <2>1. PICK n \in 1 .. LEDS * 4, b \in 1 .. 8 : m = (n - 1) * 8 + b
      <3>1. ((m - 1) \div 8) + 1 \in 1 .. LEDS * 4 /\ ((m - 1) % 8) + 1 \in 1 .. 8
        BY <1>1
      <3>2. m = (((m - 1) \div 8) + 1 - 1) * 8 + (((m - 1) % 8) + 1)
        BY <1>1
      <3> QED
        BY <3>1, <3>2
    <2> QED
      BY <1>5, <2>1
  <1>7. codes \in Seq({T0, T1, EmptyCode})
    <2>1. codes = [m \in 1 .. LEDS * 32 |-> codes[m]]
      BY <1>4 DEF codes, Joined
    <2> QED
      BY <1>1, <1>6, <2>1
  <1>8. RmtCodes(pixels) = Append(codes, EmptyCode)
    BY DEF RmtCodes, codes, pieces, s
  <1>9. T0 # EmptyCode /\ T1 # EmptyCode
    BY DEF T0, T1, EmptyCode
  <1>10. /\ Append(codes, EmptyCode) \in Seq({T0, T1, EmptyCode})
         /\ Len(Append(codes, EmptyCode)) = LEDS * 32 + 1
         /\ Append(codes, EmptyCode)[LEDS * 32 + 1] = EmptyCode
         /\ \A m \in 1 .. LEDS * 32 : Append(codes, EmptyCode)[m] = codes[m]
    BY <1>1, <1>4, <1>7
  <1>11. \A n \in 1 .. LEDS * 4 : \A b \in 1 .. 8 : (n - 1) * 8 + b \in 1 .. LEDS * 32
    BY <1>1
  <1> QED
    BY <1>5, <1>6, <1>8, <1>9, <1>10, <1>11 DEF s

\* What the RMT driver puts on the wire for one bit of a frame.
LEMMA RmtPulse ==
    ASSUME NEW pixels \in Frames, driver = "rmt", NEW n \in 1 .. LEDS * 4, NEW b \in 1 .. 8
    PROVE  Pulses(pixels)[(n - 1) * 8 + b] = IF Bit(Stream(pixels)[n], b) = 1 THEN T1 ELSE T0
  <1> DEFINE codes == RmtCodes(pixels)
             last == LEDS * 32 + 1
  <1>1. LEDS \in Nat \ {0}
    BY StripAssumption
  <1>2. /\ codes \in Seq({T0, T1, EmptyCode}) /\ Len(codes) = last /\ codes[last] = EmptyCode
        /\ codes[(n - 1) * 8 + b] = IF Bit(Stream(pixels)[n], b) = 1 THEN T1 ELSE T0
        /\ \A m \in 1 .. last - 1 : codes[m] # EmptyCode
    <2>1. last - 1 = LEDS * 32
      BY <1>1
    <2> QED
      BY <2>1, CodesOfFrame
  <1>3. Pulses(pixels) = SubSeq(codes, 1, End(codes) - 1)
    BY DEF Pulses
  <1>4. (n - 1) * 8 + b \in 1 .. last - 1 /\ last \in Nat
    BY <1>1
  <1> HIDE DEF codes, last
  <1>5. End(codes) = last
    <2>1. DOMAIN codes = 1 .. last
      BY <1>2
    <2>2. last \in DOMAIN codes
      BY <1>4, <2>1
    <2> QED
      BY <1>2, <1>4, <2>1, <2>2 DEF End
  <1> QED
    BY <1>2, <1>3, <1>4, <1>5

\* How long the line is high and low for the two nibbles that are sent.
LEMMA NibblePulses == SpiPulse(8) = <<25, 75>> /\ SpiPulse(12) = <<50, 50>>
  <1>1. /\ Weights[5] = 8 /\ Weights[6] = 4 /\ Weights[7] = 2 /\ Weights[8] = 1
    BY DEF Weights
  <1>2. /\ Bit(8, 4 + 1) = 1 /\ Bit(8, 4 + 2) = 0 /\ Bit(8, 4 + 3) = 0 /\ Bit(8, 4 + 4) = 0
    BY <1>1 DEF Bit
  <1>3. /\ Bit(12, 4 + 1) = 1 /\ Bit(12, 4 + 2) = 1 /\ Bit(12, 4 + 3) = 0 /\ Bit(12, 4 + 4) = 0
    BY <1>1 DEF Bit
  <1>4. \A b \in 1 .. 4 : Bit(8, 4 + b) = 1 <=> b <= 1
    <2> TAKE b \in 1 .. 4
    <2>1. CASE b = 1
      BY <1>2, <2>1
    <2>2. CASE b = 2
      BY <1>2, <2>2
    <2>3. CASE b = 3
      BY <1>2, <2>3
    <2>4. CASE b = 4
      BY <1>2, <2>4
    <2> QED
      BY <2>1, <2>2, <2>3, <2>4
  <1>5. \A b \in 1 .. 4 : Bit(12, 4 + b) = 1 <=> b <= 2
    <2> TAKE b \in 1 .. 4
    <2>1. CASE b = 1
      BY <1>3, <2>1
    <2>2. CASE b = 2
      BY <1>3, <2>2
    <2>3. CASE b = 3
      BY <1>3, <2>3
    <2>4. CASE b = 4
      BY <1>3, <2>4
    <2> QED
      BY <2>1, <2>2, <2>3, <2>4
  <1>6. Ones(8) = 1
    <2>1. 1 \in 0 .. 4 /\ \A k \in 0 .. 4 : (\A b \in 1 .. 4 : Bit(8, 4 + b) = 1 <=> b <= k) => k = 1
      <3> SUFFICES ASSUME NEW k \in 0 .. 4, \A b \in 1 .. 4 : Bit(8, 4 + b) = 1 <=> b <= k
                   PROVE  k = 1
        OBVIOUS
      <3>1. 1 <= k /\ ~(2 <= k)
        BY <1>2
      <3> QED
        BY <3>1
    <2> QED
      BY <1>4, <2>1 DEF Ones
  <1>7. Ones(12) = 2
    <2>1. 2 \in 0 .. 4 /\ \A k \in 0 .. 4 : (\A b \in 1 .. 4 : Bit(12, 4 + b) = 1 <=> b <= k) => k = 2
      <3> SUFFICES ASSUME NEW k \in 0 .. 4, \A b \in 1 .. 4 : Bit(12, 4 + b) = 1 <=> b <= k
                   PROVE  k = 2
        OBVIOUS
      <3>1. 2 <= k /\ ~(3 <= k)
        BY <1>3
      <3> QED
        BY <3>1
    <2> QED
      BY <1>5, <2>1 DEF Ones
  <1> QED
    BY <1>6, <1>7 DEF SpiPulse, SpiBit

\* The SPI byte for two bits has a nibble for each.
LEMMA PairPulses ==
    ASSUME NEW v \in 0 .. 255, NEW p \in 1 .. 4
    PROVE  /\ SpiPulse(DmaByte(v)[p] \div 16) =
                  IF Bit(v, 2 * p - 1) = 1 THEN <<50, 50>> ELSE <<25, 75>>
           /\ SpiPulse(DmaByte(v)[p] % 16) =
                  IF Bit(v, 2 * p) = 1 THEN <<50, 50>> ELSE <<25, 75>>
  <1>1. (v \div Weights[2 * p]) % 4 = 2 * Bit(v, 2 * p - 1) + Bit(v, 2 * p)
    <2>1. /\ Weights[1] = 128 /\ Weights[2] = 64 /\ Weights[3] = 32 /\ Weights[4] = 16
          /\ Weights[5] = 8 /\ Weights[6] = 4 /\ Weights[7] = 2 /\ Weights[8] = 1
      BY DEF Weights
    <2>2. CASE p = 1
      <3>1. (v \div 64) % 4 = 2 * ((v \div 128) % 2) + ((v \div 64) % 2)
        OBVIOUS
      <3> QED
        BY <2>1, <2>2, <3>1 DEF Bit
    <2>3. CASE p = 2
      <3>1. (v \div 16) % 4 = 2 * ((v \div 32) % 2) + ((v \div 16) % 2)
        OBVIOUS
      <3> QED
        BY <2>1, <2>3, <3>1 DEF Bit
    <2>4. CASE p = 3
      <3>1. (v \div 4) % 4 = 2 * ((v \div 8) % 2) + ((v \div 4) % 2)
        OBVIOUS
      <3> QED
        BY <2>1, <2>4, <3>1 DEF Bit
    <2>5. CASE p = 4
      <3>1. (v \div 1) % 4 = 2 * ((v \div 2) % 2) + ((v \div 1) % 2)
        OBVIOUS
      <3> QED
        BY <2>1, <2>5, <3>1 DEF Bit
    <2> QED
      BY <2>2, <2>3, <2>4, <2>5
  <1>2. Bit(v, 2 * p - 1) \in {0, 1} /\ Bit(v, 2 * p) \in {0, 1}
    <2>1. 2 * p - 1 \in 1 .. 8 /\ 2 * p \in 1 .. 8
      OBVIOUS
    <2> QED
      BY <2>1, BitsOfByte
  <1>3. DmaByte(v)[p] = Pair(2 * Bit(v, 2 * p - 1) + Bit(v, 2 * p))
    BY <1>1 DEF DmaByte
  <1>4. Pair(0) = 136 /\ Pair(1) = 140 /\ Pair(2) = 200 /\ Pair(3) = 204
    BY DEF Pair
  <1>5. /\ 136 \div 16 = 8 /\ 136 % 16 = 8 /\ 140 \div 16 = 8 /\ 140 % 16 = 12
        /\ 200 \div 16 = 12 /\ 200 % 16 = 8 /\ 204 \div 16 = 12 /\ 204 % 16 = 12
    OBVIOUS
  <1>6. CASE Bit(v, 2 * p - 1) = 0 /\ Bit(v, 2 * p) = 0
    BY <1>3, <1>4, <1>5, <1>6, NibblePulses
  <1>7. CASE Bit(v, 2 * p - 1) = 0 /\ Bit(v, 2 * p) = 1
    BY <1>3, <1>4, <1>5, <1>7, NibblePulses
  <1>8. CASE Bit(v, 2 * p - 1) = 1 /\ Bit(v, 2 * p) = 0
    BY <1>3, <1>4, <1>5, <1>8, NibblePulses
  <1>9. CASE Bit(v, 2 * p - 1) = 1 /\ Bit(v, 2 * p) = 1
    BY <1>3, <1>4, <1>5, <1>9, NibblePulses
  <1> QED
    BY <1>2, <1>6, <1>7, <1>8, <1>9

\* The bytes that the DMA engine reads.
LEMMA BytesOfFrame ==
    ASSUME NEW pixels \in Frames
    PROVE  /\ DOMAIN DmaBytes(pixels) = 1 .. LEDS * 16 /\ Len(DmaBytes(pixels)) = LEDS * 16
           /\ \A n \in 1 .. LEDS * 4 : \A p \in 1 .. 4 :
                  DmaBytes(pixels)[(n - 1) * 4 + p] = DmaByte(Stream(pixels)[n])[p]
  <1> DEFINE s == Stream(pixels)
             pieces == [n \in DOMAIN s |-> DmaByte(s[n])]
             bytes == Joined(pieces, 4)
  <1>1. LEDS \in Nat \ {0}
    BY StripAssumption
  <1>2. DOMAIN s = 1 .. LEDS * 4
    BY StreamOfFrame
  <1> HIDE DEF s
  <1>3. Len(pieces) = LEDS * 4 /\ \A n \in 1 .. LEDS * 4 : pieces[n] = DmaByte(s[n])
    BY <1>1, <1>2
  <1>4. DmaBytes(pixels) = bytes
    BY DEF DmaBytes, s
  <1> HIDE DEF pieces
  <1>5. DOMAIN bytes = 1 .. LEDS * 16 /\ Len(bytes) = LEDS * 16
    BY <1>1, <1>3 DEF Joined
  <1>6. ASSUME NEW n \in 1 .. LEDS * 4, NEW p \in 1 .. 4
        PROVE  bytes[(n - 1) * 4 + p] = DmaByte(s[n])[p]
    <2> DEFINE m == (n - 1) * 4 + p
    <2>1. m \in 1 .. LEDS * 4 * 4 /\ (m - 1) \div 4 = n - 1 /\ (m - 1) % 4 = p - 1
      BY <1>1
    <2> HIDE DEF m
    <2>2. bytes[m] = pieces[((m - 1) \div 4) + 1][((m - 1) % 4) + 1]
      BY <1>1, <1>3, <2>1 DEF Joined
    <2>3. bytes[m] = DmaByte(s[n])[p]
      BY <1>3, <2>1, <2>2
    <2> QED
      BY <2>3 DEF m
  <1> QED
    BY <1>4, <1>5, <1>6 DEF s

\* What the DMA driver puts on the wire for one bit of a frame.
LEMMA DmaPulse ==
    ASSUME NEW pixels \in Frames, driver = "dma", NEW n \in 1 .. LEDS * 4, NEW b \in 1 .. 8
    PROVE  Pulses(pixels)[(n - 1) * 8 + b] =
               IF Bit(Stream(pixels)[n], b) = 1 THEN <<50, 50>> ELSE <<25, 75>>
  <1> DEFINE bytes == DmaBytes(pixels)
             pieces == [c \in DOMAIN bytes |-> <<SpiPulse(bytes[c] \div 16), SpiPulse(bytes[c] % 16)>>]
             v == Stream(pixels)[n]
  <1>1. LEDS \in Nat \ {0} /\ v \in 0 .. 255
    BY StripAssumption, StreamOfFrame
  <1>2. Pulses(pixels) = Joined(pieces, 2)
    BY DEF Pulses, SpiPulses
  <1>3. /\ DOMAIN bytes = 1 .. LEDS * 16
        /\ \A p \in 1 .. 4 : bytes[(n - 1) * 4 + p] = DmaByte(v)[p]
    BY BytesOfFrame
  <1> HIDE DEF bytes, v
  <1>4. /\ Len(pieces) = LEDS * 16
        /\ \A c \in 1 .. LEDS * 16 : pieces[c][1] = SpiPulse(bytes[c] \div 16)
                                  /\ pieces[c][2] = SpiPulse(bytes[c] % 16)
    BY <1>1, <1>3
  <1> HIDE DEF pieces
  <1>5. PICK p \in 1 .. 4, h \in 1 .. 2 : b = (2 * p - 1) + (h - 1)
    <2>1. ((b - 1) \div 2) + 1 \in 1 .. 4 /\ ((b - 1) % 2) + 1 \in 1 .. 2
      OBVIOUS
    <2>2. b = (2 * (((b - 1) \div 2) + 1) - 1) + (((b - 1) % 2) + 1 - 1)
      OBVIOUS
    <2> QED
      BY <2>1, <2>2
  <1> DEFINE c == (n - 1) * 4 + p
             m == (n - 1) * 8 + b
  <1>6. /\ c \in 1 .. LEDS * 16 /\ m \in 1 .. LEDS * 16 * 2
        /\ (m - 1) \div 2 = c - 1 /\ (m - 1) % 2 = h - 1
    BY <1>1, <1>5
  <1>7. bytes[c] = DmaByte(v)[p]
    BY <1>3
  <1> HIDE DEF c, m
  <1>8. Joined(pieces, 2)[m] = pieces[((m - 1) \div 2) + 1][((m - 1) % 2) + 1]
    BY <1>1, <1>4, <1>6 DEF Joined
  <1>9. Joined(pieces, 2)[m] = pieces[c][h]
    BY <1>6, <1>8
  <1>10. Joined(pieces, 2)[m] = IF Bit(v, b) = 1 THEN <<50, 50>> ELSE <<25, 75>>
    <2>1. CASE h = 1
      <3>1. b = 2 * p - 1
        BY <1>5, <2>1
      <3>2. Joined(pieces, 2)[m] = SpiPulse(DmaByte(v)[p] \div 16)
        BY <1>4, <1>6, <1>7, <1>9, <2>1
      <3> QED
        BY <1>1, <3>1, <3>2, PairPulses
    <2>2. CASE h = 2
      <3>1. b = 2 * p
        BY <1>5, <2>2
      <3>2. Joined(pieces, 2)[m] = SpiPulse(DmaByte(v)[p] % 16)
        BY <1>4, <1>6, <1>7, <1>9, <2>2
      <3> QED
        BY <1>1, <3>1, <3>2, PairPulses
    <2> QED
      BY <2>1, <2>2
  <1> QED
    BY <1>2, <1>10 DEF m, v

\* Either driver's pulse for a bit is in the strip's window for it.
LEMMA PulseInWindow ==
    ASSUME NEW pixels \in Frames, driver \in {"rmt", "dma"},
           NEW n \in 1 .. LEDS * 4, NEW b \in 1 .. 8
    PROVE  LET pulse == Pulses(pixels)[(n - 1) * 8 + b]
           IN  IF Bit(Stream(pixels)[n], b) = 1 THEN IsOne(pulse) ELSE IsZero(pulse) /\ ~IsOne(pulse)
  <1>1. /\ IsOne(T1) /\ IsZero(T0) /\ ~IsOne(T0)
        /\ IsOne(<<50, 50>>) /\ IsZero(<<25, 75>>) /\ ~IsOne(<<25, 75>>)
    BY DEF T0, T1, IsZero, IsOne
  <1>2. CASE driver = "rmt"
    <2> QED
      BY <1>1, <1>2, RmtPulse
  <1>3. CASE driver = "dma"
    BY <1>1, <1>3, DmaPulse
  <1> QED
    BY <1>2, <1>3

\* Eight pulses, each in the window of a bit, say the byte of those bits.
LEMMA ByteOfPulses ==
    ASSUME NEW v \in 0 .. 255, NEW pulses, DOMAIN pulses = 1 .. 8,
           \A b \in 1 .. 8 : IF Bit(v, b) = 1 THEN IsOne(pulses[b])
                                              ELSE IsZero(pulses[b]) /\ ~IsOne(pulses[b])
    PROVE  Byte(pulses) = v
  <1> DEFINE says == [b \in 1 .. 8 |-> IF IsOne(pulses[b]) THEN Weights[b] ELSE 0]
  <1>1. Byte(pulses) =
            says[1] + says[2] + says[3] + says[4] + says[5] + says[6] + says[7] + says[8]
    BY DEF Byte
  <1>2. /\ Weights[1] = 128 /\ Weights[2] = 64 /\ Weights[3] = 32 /\ Weights[4] = 16
        /\ Weights[5] = 8 /\ Weights[6] = 4 /\ Weights[7] = 2 /\ Weights[8] = 1
    BY DEF Weights
  <1>3. \A b \in 1 .. 8 : /\ Bit(v, b) \in {0, 1}
                          /\ says[b] = IF Bit(v, b) = 1 THEN Weights[b] ELSE 0
    BY BitsOfByte
  <1> HIDE DEF says
  <1>4. /\ says[1] = 128 * Bit(v, 1) /\ says[2] = 64 * Bit(v, 2) /\ says[3] = 32 * Bit(v, 3)
        /\ says[4] = 16 * Bit(v, 4) /\ says[5] = 8 * Bit(v, 5) /\ says[6] = 4 * Bit(v, 6)
        /\ says[7] = 2 * Bit(v, 7) /\ says[8] = Bit(v, 8)
    BY <1>2, <1>3
  <1> QED
    BY <1>1, <1>4, BitsOfByte

\* What the strip latches is the picture in its own order, the white dies dark.
LEMMA FrameLatched ==
    ASSUME NEW pixels \in Frames, driver \in {"rmt", "dma"}
    PROVE  Latched(Pulses(pixels)) = [i \in 1 .. LEDS |-> Colour(pixels[i])]
  <1> DEFINE pulses == Pulses(pixels)
             byte(i, k) == Byte([b \in 1 .. 8 |-> pulses[((i - 1) * 4 + k) * 8 + b]])
  <1>1. LEDS \in Nat \ {0}
    BY StripAssumption
  <1>2. ASSUME NEW i \in 1 .. LEDS, NEW k \in 0 .. 3
        PROVE  byte(i, k) = LedBytes(pixels[i])[k + 1]
    <2> DEFINE n == (i - 1) * 4 + (k + 1)
               eight == [b \in 1 .. 8 |-> pulses[((i - 1) * 4 + k) * 8 + b]]
    <2>1. n \in 1 .. LEDS * 4 /\ n - 1 = (i - 1) * 4 + k /\ k + 1 \in 1 .. 4
      BY <1>1
    <2>2. Stream(pixels)[n] = LedBytes(pixels[i])[k + 1] /\ Stream(pixels)[n] \in 0 .. 255
      BY <2>1, StreamOfFrame
    <2>3. DOMAIN eight = 1 .. 8 /\ \A b \in 1 .. 8 : eight[b] = pulses[(n - 1) * 8 + b]
      BY <2>1
    <2>4. byte(i, k) = Byte(eight)
      OBVIOUS
    <2> HIDE DEF n, eight
    <2>5. \A b \in 1 .. 8 : IF Bit(Stream(pixels)[n], b) = 1
                            THEN IsOne(eight[b]) ELSE IsZero(eight[b]) /\ ~IsOne(eight[b])
      BY <2>1, <2>3, PulseInWindow
    <2>6. Byte(eight) = Stream(pixels)[n]
      BY <2>2, <2>3, <2>5, ByteOfPulses
    <2> QED
      BY <2>2, <2>4, <2>6
  <1>3. Latched(pulses) =
            [i \in 1 .. LEDS |-> <<byte(i, 1), byte(i, 0), byte(i, 2), byte(i, 3)>>]
    BY DEF Latched, PerLed
  <1> HIDE DEF byte
  <1>4. ASSUME NEW i \in 1 .. LEDS
        PROVE  <<byte(i, 1), byte(i, 0), byte(i, 2), byte(i, 3)>> = Colour(pixels[i])
    <2>1. /\ byte(i, 0) = LedBytes(pixels[i])[0 + 1] /\ byte(i, 1) = LedBytes(pixels[i])[1 + 1]
          /\ byte(i, 2) = LedBytes(pixels[i])[2 + 1] /\ byte(i, 3) = LedBytes(pixels[i])[3 + 1]
      BY <1>2
    <2> QED
      BY <2>1 DEF LedBytes, Colour
  <1> QED
    BY <1>3, <1>4

\* The renderer's pictures are frames, and each is one of them.
LEMMA PictureIsAFrame ==
    ASSUME NEW n \in Nat
    PROVE  Picture(n) \in Frames /\ \E k \in DOMAIN Pictures : Picture(n) = Pictures[k]
  <1> DEFINE count == Len(Pictures)
  <1>1. Pictures \in Seq(Frames) /\ Pictures # << >>
    BY LoopAssumption DEF Frames
  <1>2. count \in Nat \ {0}
    BY <1>1
  <1> HIDE DEF count
  <1>3. (n % count) + 1 \in 1 .. count
    BY <1>2, Division
  <1>4. Picture(n) = Pictures[(n % count) + 1]
    BY DEF Picture, count
  <1> QED
    BY <1>1, <1>3, <1>4 DEF count

\* A frame is ended, so that the channel comes back whether it was accepted.
LEMMA FrameEnds ==
    ASSUME NEW pixels \in Frames, driver \in {"rmt", "dma"}
    PROVE  Ended(pixels)
  BY CodesOfFrame DEF Ended

\* What the LEDs show after write(): the picture if the driver took it; each its part
\* of the picture or what it showed if not.
LEMMA LedsAfterWrite ==
    ASSUME NEW pixels \in Frames, driver \in {"rmt", "dma"}, NEW accepted \in BOOLEAN,
           NEW shown, NEW next \in Shown(shown, pixels, accepted)
    PROVE  /\ accepted => next = [i \in 1 .. LEDS |-> Colour(pixels[i])]
           /\ \A i \in 1 .. LEDS : next[i] = Colour(pixels[i]) \/ next[i] = shown[i]
  <1>1. Latched(Pulses(pixels)) = [i \in 1 .. LEDS |-> Colour(pixels[i])]
    BY FrameLatched
  <1>2. CASE accepted
    BY <1>1, <1>2 DEF Shown
  <1>3. CASE ~accepted
    <2>1. next \in AfterFailure(shown, pixels)
      BY <1>3 DEF Shown
    <2>2. CASE driver = "rmt"
      BY <1>1, <1>3, <2>1, <2>2 DEF AfterFailure
    <2>3. CASE driver # "rmt"
      BY <1>3, <2>1, <2>3 DEF AfterFailure
    <2> QED
      BY <2>2, <2>3
  <1> QED
    BY <1>2, <1>3

\* What the strip depends on.
StripInv == driver \in {"rmt", "dma"} /\ StripShowsFrames

\* After a clear that was refused an LED shows the clear or what it was left with.
LEMMA StripInitially == LoopInit => StripInv
  <1> SUFFICES ASSUME LoopInit PROVE StripInv
    OBVIOUS
  <1>1. PICK before \in Leftovers, cleared \in BOOLEAN :
            /\ StripInit(before, cleared)
            /\ drawn = IF cleared THEN Blank ELSE None
            /\ left = IF cleared THEN None ELSE before
    BY DEF LoopInit
  <1>2. driver \in {"rmt", "dma"} /\ leds \in Shown(before, Blank, cleared)
    BY <1>1 DEF StripInit
  <1>3. Blank \in Frames
    BY DEF Blank, Frames, Pixels
  <1>4. /\ cleared => leds = [i \in 1 .. LEDS |-> Colour(Blank[i])]
        /\ \A i \in 1 .. LEDS : leds[i] = Colour(Blank[i]) \/ leds[i] = before[i]
    BY <1>2, <1>3, LedsAfterWrite
  <1>5. channel = TRUE
    BY <1>1, <1>2, <1>3, FrameEnds DEF StripInit, Kept
  <1>6. \A i \in 1 .. LEDS :
            leds[i] = Colour(Blank[i]) \/ (left # None /\ leds[i] = left[i])
    <2>1. before # None
      BY <1>1, LoopAssumption
    <2>2. CASE cleared
      BY <1>4, <2>2
    <2>3. CASE ~cleared
      BY <1>1, <1>4, <2>1, <2>3
    <2> QED
      BY <2>2, <2>3
  <1>7. drawn # None => leds = [i \in 1 .. LEDS |-> Colour(drawn[i])]
    BY <1>1, <1>4
  <1> QED
    BY <1>2, <1>5, <1>6, <1>7 DEF StripInv, StripShowsFrames

LEMMA StripNext ==
    ASSUME FrameInv, StripInv, [LoopNext]_loopVars
    PROVE  StripInv'
  <1>1. CASE UNCHANGED <<stripVars, drawn, left>>
    BY <1>1 DEF StripInv, StripShowsFrames, stripVars
  <1> DEFINE frame_index == show_now \div FRAME_US
  <1>2. ASSUME NEW accepted \in BOOLEAN, Write(Picture(frame_index), accepted),
               drawn' = IF accepted THEN Picture(frame_index) ELSE None,
               left' = IF accepted THEN None ELSE left
        PROVE  StripInv'
    <2> DEFINE pixels == Picture(frame_index)
    <2>1. frame_index \in Nat
      BY LoopAssumption, Division DEF FrameInv, FramesBehind
    <2>2. pixels \in Frames /\ \E k \in DOMAIN Pictures : pixels = Pictures[k]
      BY <2>1, PictureIsAFrame
    <2>3. driver \in {"rmt", "dma"} /\ driver' = driver
      BY <1>2 DEF StripInv, Write
    <2>4. leds' \in Shown(leds, pixels, accepted)
      BY <1>2 DEF Write
    <2>5. channel' = TRUE
      BY <1>2, <2>2, <2>3, FrameEnds DEF Write, Kept
    <2> HIDE DEF frame_index
    <2>6. drawn' = (IF accepted THEN pixels ELSE None) /\ left' = (IF accepted THEN None ELSE left)
      BY <1>2 DEF frame_index
    <2> HIDE DEF pixels
    <2>7. /\ accepted => leds' = [i \in 1 .. LEDS |-> Colour(pixels[i])]
          /\ \A i \in 1 .. LEDS : leds'[i] = Colour(pixels[i]) \/ leds'[i] = leds[i]
      BY <2>2, <2>3, <2>4, LedsAfterWrite
    <2>8. drawn' # None => leds' = [i \in 1 .. LEDS |-> Colour(drawn'[i])]
      BY <2>6, <2>7
    <2>9. ASSUME NEW i \in 1 .. LEDS
          PROVE  \/ leds'[i] = Colour(Blank[i])
                 \/ \E n \in DOMAIN Pictures : leds'[i] = Colour(Pictures[n][i])
                 \/ left' # None /\ leds'[i] = left'[i]
      <3>1. CASE leds'[i] = Colour(pixels[i])
        BY <2>2, <3>1
      <3>2. CASE ~accepted /\ leds'[i] = leds[i]
        BY <2>6, <3>2 DEF StripInv, StripShowsFrames
      <3>3. accepted => leds'[i] = Colour(pixels[i])
        BY <2>7
      <3> QED
        BY <2>7, <3>1, <3>2, <3>3
    <2> QED
      BY <2>3, <2>5, <2>8, <2>9 DEF StripInv, StripShowsFrames, Blank
  <1>3. CASE Frame
    BY <1>1, <1>2, <1>3 DEF Frame
  <1>4. CASE GetLease \/ Advance \/ Tick \/ Drained \/ UNCHANGED loopVars
    BY <1>1, <1>4 DEF GetLease, Advance, Tick, Drained, loopVars, world
  <1>5. ASSUME NEW prefix \in Prefixes, NEW address \in Homes[prefix], Datagram(prefix, address)
        PROVE  StripInv'
    BY <1>1, <1>5 DEF Datagram
  <1> QED
    BY <1>3, <1>4, <1>5 DEF LoopNext

\* A strip that took its last frame shows it by either driver, no LED shows what
\* neither a frame had there nor was left there and not yet drawn over, and the channel
\* is there for the next, for every number of LEDs, all pictures and whatever frames
\* are refused, the clear included.
THEOREM StripShowsFramesHolds == LoopSpec => []StripShowsFrames
  <1>1. LoopInit => StripInv
    BY StripInitially
  <1>2. FrameInv /\ StripInv /\ [LoopNext]_loopVars => StripInv'
    BY StripNext
  <1>3. StripInv => StripShowsFrames
    BY DEF StripInv
  <1> QED
    BY <1>1, <1>2, <1>3, FrameAndClock, PTL DEF LoopSpec
==============================================================================
