------------------------------ MODULE DeviceLoop ------------------------------
(***************************************************************************)
(* The main loop of a device: device_loop() in spikes/s5-device/src/       *)
(* main.rs, with its show clock (ShowClock) and its strip (Strip).         *)
(*                                                                         *)
(* One thread goes round the places "lease", "advance", "tick", "receive"  *)
(* and "frame".  The hardware counter is read at "advance" and the turn    *)
(* keeps what the show clock said then; the time a turn takes passes       *)
(* before the next "advance".  The mesh core (lumen_device::node::Node) is *)
(* external: it answers an event with a batch of actions, which            *)
(* apply_mesh() carries out.                                               *)
(***************************************************************************)
EXTENDS ShowClock, Strip

CONSTANTS
    FRAME_US,       \* the frame grid
    FLOOR_US,       \* the least time after which apply_mesh() wakes the core
    SYNC_US,        \* the least time between two corrections of the core
    MAX_PEERS,      \* peers an address is remembered for
    Prefixes,       \* what peers call themselves
    Homes,          \* Homes[p]: the addresses that peer p may have
    Timers,         \* what the core asks for in a batch: sequences of durations
    Leads,          \* how far the leader's clock may be ahead of this one's
    Pictures,       \* what the renderer makes of frames 0, 1, ..., in turn
    MaxTurn,        \* bound: how long a turn takes
    MaxBatch,       \* bound: datagrams in a turn
    None

\* Red, green and blue of an LED.
Pixels == [1 .. 3 -> 0 .. 255]

ASSUME LoopAssumption ==
    /\ FRAME_US \in Nat \ {0}
    /\ FLOOR_US \in Nat \ {0}
    /\ SYNC_US \in Nat \ {0}
    /\ MAX_PEERS \in Nat \ {0}
    /\ SLEW_PPM < PPM_DENOM
    /\ Timers \subseteq Seq(Nat)
    /\ Leads \subseteq Int
    /\ None \notin Prefixes \cup Leftovers
    /\ Pictures \in Seq([1 .. LEDS -> Pixels]) \ {<< >>}

VARIABLES
    at,                 \* where the loop is
    show_now,           \* what the show clock read at the start of the turn
    mesh_deadline_us,   \* show time at which the core wants a tick
    last_frame_index,   \* the frame drawn last; None before the first
    peers               \* who lives where: a sequence of <<prefix, address>>

(***************************************************************************)
(* The world, and history for the properties.                              *)
(***************************************************************************)
VARIABLES
    lead,               \* the leader's clock less the hardware counter
    next_sync,          \* show time before which the core corrects no further
    taken,              \* datagrams this turn has taken
    heard,              \* where each peer was last heard; None if never
    speaker,            \* who was heard last
    wake_by,            \* hardware time by which the core should be woken
    drawn,              \* what the strip last took; None if it refused a frame since
    left                \* what it showed at the start; None once it took a frame

turn == <<at, show_now, mesh_deadline_us, last_frame_index, peers>>
world == <<lead, next_sync, taken, heard, speaker, wake_by, drawn, left>>
loopVars == <<vars, turn, world, stripVars>>

------------------------------------------------------------------------------
\* Where a prefix lives, as far as the table says.
Known(table) == {table[i][1] : i \in DOMAIN table}
AddressOf(table, prefix) == table[CHOOSE i \in DOMAIN table : table[i][1] = prefix][2]

\* Mutants of remember(): an entry of its own for each address; and a table that
\* is full takes nobody else.
RememberAppending(prefix, address) ==
    IF Len(peers) < MAX_PEERS
    THEN Append(peers, <<prefix, address>>)
    ELSE [peers EXCEPT ![1] = <<prefix, address>>]
RememberNoMore(prefix, address) ==
    IF prefix \in Known(peers)
    THEN [i \in DOMAIN peers |->
             IF peers[i][1] = prefix THEN <<prefix, address>> ELSE peers[i]]
    ELSE IF Len(peers) < MAX_PEERS THEN Append(peers, <<prefix, address>>) ELSE peers

\* remember(): a known prefix moves; a new one is added, or takes the first
\* place of a full table.
Remember(prefix, address) ==
    IF prefix \in Known(peers)
    THEN [i \in DOMAIN peers |->
             IF peers[i][1] = prefix THEN <<prefix, address>> ELSE peers[i]]
    ELSE IF Len(peers) < MAX_PEERS
         THEN Append(peers, <<prefix, address>>)
         ELSE [peers EXCEPT ![1] = <<prefix, address>>]

\* A mutant of the deadline: the last timer of the batch.
LastTimer(timers) ==
    show_now + (IF timers = << >> THEN FLOOR_US ELSE Larger(timers[Len(timers)], FLOOR_US))

\* apply_mesh()'s return: the earliest timer of the batch, and not before the
\* floor; a batch without one is asked again after the floor.
Earliest(timers) ==
    CHOOSE t \in {timers[i] : i \in DOMAIN timers} : \A i \in DOMAIN timers : t <= timers[i]
Deadline(timers) ==
    show_now + (IF timers = << >> THEN FLOOR_US ELSE Larger(Earliest(timers), FLOOR_US))

\* What a batch asks for: the earliest of its timers, or the floor.
Wanted(timers) == IF timers = << >> THEN FLOOR_US ELSE Larger(Earliest(timers), FLOOR_US)

\* The hardware time that a show clock may need for a duration, at its slowest.
AtMost(duration) == (duration * PPM_DENOM) \div (PPM_DENOM - SLEW_PPM) + 1

\* The batches of the core: its timers and whether it corrects the clock, which
\* it does now and then, and never twice in a turn, by what it measured against the
\* show time it was given.  What it sends goes to addresses of the table, and has no
\* effect here.
Batch == [timers : Timers, corrects : BOOLEAN]
Offset == last_raw_us + lead - show_now

\* apply_mesh(): the deadline is that of this batch, and the correction goes to
\* the show clock.
ApplyMesh(batch) ==
    LET timers == batch.timers
    IN  /\ mesh_deadline_us' = Deadline(timers)
        /\ wake_by' = last_raw_us + AtMost(Wanted(timers))
        /\ IF batch.corrects
           THEN /\ show_now >= next_sync
                /\ next_sync' = show_now + SYNC_US
                /\ Discipline(Offset)
           ELSE UNCHANGED <<next_sync, vars>>

------------------------------------------------------------------------------
\* The hardware counter is counted from the start of the loop.
LoopInit ==
    /\ Init /\ last_raw_us = 0
    /\ at = "lease"
    /\ show_now = 0
    /\ mesh_deadline_us = 0
    /\ last_frame_index = None
    /\ peers = << >>
    /\ lead \in Leads
    /\ next_sync = 0
    /\ taken = 0
    /\ heard = [p \in Prefixes |-> None]
    /\ speaker = None
    /\ wake_by = 0
    /\ \E before \in Leftovers, cleared \in BOOLEAN :
           /\ StripInit(before, cleared)
           /\ drawn = IF cleared THEN Blank ELSE None
           /\ left = IF cleared THEN None ELSE before

\* Without a lease the loop only polls; nothing takes a lease away again.
GetLease ==
    /\ at = "lease"
    /\ at' = "advance"
    /\ UNCHANGED <<vars, stripVars, world, show_now, mesh_deadline_us, last_frame_index, peers>>

\* A turn begins: the clock is advanced once, before anything reads the time.
Advance ==
    /\ at = "advance"
    /\ at' = "tick"
    /\ \E raw \in RawTimes :
           /\ raw \in last_raw_us .. last_raw_us + MaxTurn
           /\ AdvanceTo(raw)
    /\ show_now' = now_us'
    /\ taken' = 0
    /\ speaker' = None
    /\ UNCHANGED <<stripVars, mesh_deadline_us, last_frame_index, peers,
                   lead, next_sync, heard, wake_by, drawn, left>>

\* The core is given a tick when it is due.
Tick ==
    /\ at = "tick"
    /\ at' = "receive"
    /\ IF show_now >= mesh_deadline_us
       THEN \E batch \in Batch : ~batch.corrects /\ ApplyMesh(batch)
       ELSE UNCHANGED <<vars, mesh_deadline_us, next_sync, wake_by>>
    /\ UNCHANGED <<stripVars, show_now, last_frame_index, peers,
                   lead, taken, heard, speaker, drawn, left>>

\* A datagram long enough to carry a prefix, and no hello: its sender is
\* remembered, and then the core is given it with the show time of the turn.  A
\* batch without anything in it changes nothing.
Datagram(prefix, address) ==
    /\ at = "receive"
    /\ taken < MaxBatch
    /\ taken' = taken + 1
    /\ peers' = Remember(prefix, address)
    /\ heard' = [heard EXCEPT ![prefix] = address]
    /\ speaker' = prefix
    /\ \/ UNCHANGED <<vars, mesh_deadline_us, next_sync, wake_by>>
       \/ \E batch \in Batch : ApplyMesh(batch)
    /\ UNCHANGED <<stripVars, at, show_now, last_frame_index, lead, drawn, left>>

\* The socket is empty.
Drained ==
    /\ at = "receive"
    /\ at' = "frame"
    /\ UNCHANGED <<vars, stripVars, world, show_now, mesh_deadline_us, last_frame_index, peers>>

Picture(n) == Pictures[(n % Len(Pictures)) + 1]

\* A frame that has begun since the last turn is drawn, if there is anything to
\* draw, and given to the strip, which may refuse it.
Frame ==
    LET frame_index == show_now \div FRAME_US
    IN  /\ at = "frame"
        /\ at' = "advance"
        /\ last_frame_index' = frame_index
        /\ \/ UNCHANGED <<stripVars, drawn, left>>
           \/ /\ frame_index # last_frame_index
              /\ \E accepted \in BOOLEAN :
                     /\ Write(Picture(frame_index), accepted)
                     /\ drawn' = IF accepted THEN Picture(frame_index) ELSE None
                     /\ left' = IF accepted THEN None ELSE left
        /\ UNCHANGED <<vars, show_now, mesh_deadline_us, peers,
                       lead, next_sync, taken, heard, speaker, wake_by>>

LoopNext ==
    \/ GetLease \/ Advance \/ Tick \/ Drained \/ Frame
    \/ \E prefix \in Prefixes : \E address \in Homes[prefix] : Datagram(prefix, address)

LoopSpec == LoopInit /\ [][LoopNext]_loopVars
------------------------------------------------------------------------------
\* The core is not left waiting: whatever is done to the show clock in the
\* meantime, the core has its tick in the first turn after the hardware time by
\* which the earliest timer of its last batch has run out at the slowest slew
\* ("A core that asks for 10 ms and then a second in one batch wants waking in
\* 10 ms").
CoreIsWoken == at \in {"receive", "frame"} => last_raw_us <= wake_by

\* The frames drawn only go forward, so that no frame is drawn twice and none
\* out of turn, whatever corrections and steps the mesh makes.
FramesGoForward ==
    [][ last_frame_index' # last_frame_index /\ last_frame_index # None
            => last_frame_index' > last_frame_index ]_loopVars

\* The table of peers says of each where it was last heard, and says it once.
PeersAsHeard ==
    /\ \A i, j \in DOMAIN peers : peers[i][1] = peers[j][1] => i = j
    /\ \A i \in DOMAIN peers : peers[i][2] = heard[peers[i][1]]

\* Whoever was heard last can be answered, however many peers there are.
SpeakerIsKnown == speaker # None => speaker \in Known(peers)

\* A datagram can be answered where it came from, whoever moved, spoke again or
\* was forgotten in between.
CanAnswer == PeersAsHeard /\ SpeakerIsKnown

\* A correction that the slew absorbs before the core makes another.
AbsorbedInTime(gap) == Abs(gap) * (PPM_DENOM + SLEW_PPM) <= SLEW_PPM * SYNC_US

\* Following a leader never takes the clock past it, although a correction is
\* measured without regard to what is outstanding of the one before: if the leader's clock is so near that a correction is absorbed
\* before the next, or so far that it is stepped ("Nothing real lands in
\* between").
NeverPastTheLeader ==
    AbsorbedInTime(lead) \/ Abs(lead) > STEP_ABOVE_US =>
        IF lead >= 0 THEN now_us <= last_raw_us + lead ELSE now_us >= last_raw_us + lead

\* A strip that took its last frame shows it, in its colours and with the white
\* dies dark, by either driver; whatever frames it refuses, the clear before the
\* first included, an LED shows nothing that no frame had there, and what the
\* firmware before this one left only until the strip takes a frame; and a frame that
\* the driver refuses is not the end of all output ("dropping it here would make one
\* bad frame the end of all output"): it can write again.
Colour(pixel) == <<pixel[1], pixel[2], pixel[3], 0>>
StripShowsFrames ==
    /\ drawn # None => leds = [i \in 1 .. LEDS |-> Colour(drawn[i])]
    /\ \A i \in 1 .. LEDS :
           \/ leds[i] = Colour(Blank[i])
           \/ \E n \in DOMAIN Pictures : leds[i] = Colour(Pictures[n][i])
           \/ left # None /\ leds[i] = left[i]
    /\ channel
==============================================================================
