--------------------------------- MODULE Node ---------------------------------
(***************************************************************************)
(* One device's program slots, source stack and renderer:                  *)
(* spikes/s5-device/src/node.rs.  Every datagram the device takes is an    *)
(* action, and so are a frame and a reboot; which datagrams arrive, and in *)
(* which order, is up to the environment.                                  *)
(*                                                                         *)
(* A program is transferred in chunks, and the unit of length is the       *)
(* chunk.  A cell of a slot's buffer holds the program whose chunk was     *)
(* written there, or Zero; what the parser makes of a sequence of cells is *)
(* the virtual machine's business and enters as the set Torn of incomplete *)
(* images it accepts.  The per-channel calls (ChanClaim, Chan) do not      *)
(* touch this state and are left out, as is the output stage.              *)
(***************************************************************************)
EXTENDS Integers, Sequences, FiniteSets

CONSTANTS
    Programs,       \* what can be transferred
    Size,           \* Size[p]: the length of program p, in chunks
    Torn,           \* images that are no whole program, and parse all the same
    Sources,        \* the source ids that can be pushed
    Zones,          \* the zones they can name, known to the device or not
    Priorities,     \* the priorities they are pushed at
    SLOTS,          \* programs a device holds at once
    MAX_SOURCES,    \* sources a device admits, and remembers a slot for
    MAX_PROGRAM,    \* length of a slot's buffer
    Zero,           \* an unwritten cell
    Black,          \* an unlit part of the strip
    None            \* no slot is being filled

ASSUME NodeAssumption ==
    /\ SLOTS \in Nat \ {0}
    /\ MAX_SOURCES \in Nat \ {0}
    /\ MAX_PROGRAM \in Nat \ {0}
    /\ Size \in [Programs -> Nat \ {0}]
    /\ Priorities \subseteq Nat
    /\ Zero \notin Programs
    /\ None \notin 0 .. SLOTS - 1
    /\ Black \notin Seq(Programs \cup {Zero})

VARIABLES
    slots,          \* slots[s]: the buffer of slot s, empty before its first use
    slot_len,       \* slot_len[s]: how much of it is held
    filling,        \* the slot being filled, or None
    expected_len,   \* the length the transfer declared
    last_filled,    \* the slot of the program that most recently finished
    source_slot,    \* which slot each source renders from, in order of binding
    active,         \* the sources admitted to the stack
    rendering,      \* whether a source is admitted, as main is told
    frame,          \* what each half of the strip shows
    running         \* FALSE once the firmware has panicked

transfer == <<slots, slot_len, filling, expected_len, last_filled>>
stack == <<source_slot, active, rendering>>
nodeVars == <<transfer, stack, frame, running>>

Slot == 0 .. SLOTS - 1
Cell == Programs \cup {Zero}
Buffer == [1 .. MAX_PROGRAM -> Cell]
Empty == << >>

Halves == {"first", "second"}
Source == [id : Sources, zone : Zones, priority : Priorities]

\* What a parser sees of slot s.
Image(s) == SubSeq(slots[s], 1, slot_len[s])
IsWhole(image) ==
    \E p \in Programs : Len(image) = Size[p] /\ \A i \in 1 .. Len(image) : image[i] = p
Parses(image) == IsWhole(image) \/ image \in Torn

Held == {s \in Slot : slot_len[s] > 0}

\* self.program_bytes() > 0: what the hello says of this device.
HasProgram == Held # {}

Admitted == {s.id : s \in active}
Bound == {source_slot[k][1] : k \in DOMAIN source_slot}

Init ==
    /\ slots = [s \in Slot |-> Empty]
    /\ slot_len = [s \in Slot |-> 0]
    /\ filling = None
    /\ expected_len = 0
    /\ last_filled = 0
    /\ source_slot = Empty
    /\ active = {}
    /\ rendering = FALSE
    /\ frame = [h \in Halves |-> Black]
    /\ running = TRUE

------------------------------------------------------------------------------
(***************************************************************************)
(* A program transfer.                                                     *)
(***************************************************************************)

\* Mutants of the beginning: the buffer resized and never cleared; and the
\* declared length not checked.
ProgBeginUncleared(slot, total) ==
    /\ IF total > MAX_PROGRAM
       THEN UNCHANGED transfer
       ELSE LET s == IF slot < SLOTS THEN slot ELSE SLOTS - 1
            IN  /\ slots' = [slots EXCEPT ![s] =
                                IF @ = Empty THEN [i \in 1 .. MAX_PROGRAM |-> Zero] ELSE @]
                /\ slot_len' = [slot_len EXCEPT ![s] = 0]
                /\ filling' = s /\ expected_len' = total /\ UNCHANGED last_filled
    /\ UNCHANGED <<stack, frame, running>>

ProgBeginUnchecked(slot, total) ==
    LET s == IF slot < SLOTS THEN slot ELSE SLOTS - 1
    IN  /\ slots' = [slots EXCEPT ![s] = [i \in 1 .. MAX_PROGRAM |-> Zero]]
        /\ slot_len' = [slot_len EXCEPT ![s] = 0]
        /\ filling' = s /\ expected_len' = total /\ UNCHANGED last_filled
        /\ UNCHANGED <<stack, frame, running>>

\* The slot is the controller's choice, clamped rather than refused.
ProgBegin(slot, total) ==
    /\ IF total > MAX_PROGRAM
       THEN UNCHANGED transfer
       ELSE LET s == IF slot < SLOTS THEN slot ELSE SLOTS - 1
            IN  /\ slots' = [slots EXCEPT ![s] = [i \in 1 .. MAX_PROGRAM |-> Zero]]
                /\ slot_len' = [slot_len EXCEPT ![s] = 0]
                /\ filling' = s
                /\ expected_len' = total
                /\ UNCHANGED last_filled
    /\ UNCHANGED <<stack, frame, running>>

\* A chunk that ends at `at` goes where it says, in whichever slot is being
\* filled; which program it belongs to is not looked at.  One beyond the declared
\* length ends the transfer and leaves behind what had arrived.
ProgChunk(p, at) ==
    /\ IF filling = None
       THEN UNCHANGED transfer
       ELSE IF at > expected_len \/ at > MAX_PROGRAM
       THEN /\ filling' = None
            /\ UNCHANGED <<slots, slot_len, expected_len, last_filled>>
       ELSE /\ slots' = [slots EXCEPT ![filling][at] = p]
            /\ slot_len' = [slot_len EXCEPT ![filling] = IF at > @ THEN at ELSE @]
            /\ UNCHANGED <<filling, expected_len, last_filled>>
    /\ UNCHANGED <<stack, frame, running>>

\* Where a chunk ends is its offset, any of 32 bits, plus its length, in 32 bits:
\* one whose offset is near the last ends before it begins.  That is within every
\* length, and the slice from its offset to its end panics.
ProgChunkWraps ==
    /\ running' = (filling = None)
    /\ UNCHANGED <<transfer, stack, frame>>

\* Mutants of the end: whatever has arrived is accepted; a failure clears the
\* program that finished last; and last_filled is not set.
ProgEndTrusting ==
    /\ filling' = None
    /\ last_filled' = IF filling = None THEN last_filled ELSE filling
    /\ UNCHANGED <<slots, slot_len, expected_len, stack, frame, running>>

ProgEndFailing(spoilt, finished) ==
    /\ IF filling = None
       THEN UNCHANGED transfer
       ELSE /\ filling' = None
            /\ IF slot_len[filling] = expected_len /\ Parses(Image(filling))
               THEN last_filled' = finished /\ UNCHANGED slot_len
               ELSE slot_len' = [slot_len EXCEPT ![spoilt] = 0] /\ UNCHANGED last_filled
            /\ UNCHANGED <<slots, expected_len>>
    /\ UNCHANGED <<stack, frame, running>>

ProgEndSpoilsLast == ProgEndFailing(last_filled, filling)
ProgEndUnrecorded == ProgEndFailing(filling, last_filled)

\* The end of a transfer: accepted when all of the length is there and the
\* result parses.  The hash is not checked.
ProgEnd ==
    /\ IF filling = None
       THEN UNCHANGED transfer
       ELSE /\ filling' = None
            /\ IF slot_len[filling] = expected_len /\ Parses(Image(filling))
               THEN last_filled' = filling /\ UNCHANGED slot_len
               ELSE slot_len' = [slot_len EXCEPT ![filling] = 0] /\ UNCHANGED last_filled
            /\ UNCHANGED <<slots, expected_len>>
    /\ UNCHANGED <<stack, frame, running>>

------------------------------------------------------------------------------
(***************************************************************************)
(* The source stack, and which slot a source renders from.                 *)
(***************************************************************************)

\* SourceStack::push, which is outside this repository: an admitted source is
\* replaced, and a new one takes a place if one is left.
CanAdmit(src) == src.id \in Admitted \/ Cardinality(active) < MAX_SOURCES
Admit(src) == {s \in active : s.id # src.id} \cup {src}

\* Mutants of the table: always appended to; and its first entry given up when
\* it is full.
BindAppending(id, slot) ==
    IF Len(source_slot) < MAX_SOURCES THEN Append(source_slot, <<id, slot>>) ELSE source_slot

BindEvicting(id, slot) ==
    IF id \in Bound
    THEN [k \in DOMAIN source_slot |->
            IF source_slot[k][1] = id THEN <<id, slot>> ELSE source_slot[k]]
    ELSE IF Len(source_slot) < MAX_SOURCES
    THEN Append(source_slot, <<id, slot>>)
    ELSE [source_slot EXCEPT ![1] = <<id, slot>>]

\* The table of bindings after source id is bound to a slot: overwritten if it
\* is there, appended if there is room, and otherwise left as it was.
Bind(id, slot) ==
    IF id \in Bound
    THEN [k \in DOMAIN source_slot |->
            IF source_slot[k][1] = id THEN <<id, slot>> ELSE source_slot[k]]
    ELSE IF Len(source_slot) < MAX_SOURCES
    THEN Append(source_slot, <<id, slot>>)
    ELSE source_slot

\* The slot a source renders from; slot 0 if it was never bound.
SlotOf(id) ==
    IF id \in Bound
    THEN source_slot[CHOOSE k \in DOMAIN source_slot : source_slot[k][1] = id][2]
    ELSE 0

SrcPush(src) ==
    /\ IF CanAdmit(src)
       THEN /\ active' = Admit(src)
            /\ source_slot' = Bind(src.id, last_filled)
            /\ rendering' = TRUE
       ELSE UNCHANGED stack
    /\ UNCHANGED <<transfer, frame, running>>

\* A binding outlives the source, and rendering is only refreshed by a frame.
SrcPop(id) ==
    /\ active' = {s \in active : s.id # id}
    /\ UNCHANGED <<transfer, source_slot, rendering, frame, running>>

------------------------------------------------------------------------------
(***************************************************************************)
(* A frame: sources that have expired go, and the rest are drawn.          *)
(***************************************************************************)

\* The halves a zone covers.  A zone this device does not know is all of it.
Membership(zone) == IF zone \in Halves THEN {zone} ELSE Halves

\* The sources of a set that have something to draw from.
Drawable(srcs) ==
    {s \in srcs : slot_len[SlotOf(s.id)] > 0 /\ Parses(Image(SlotOf(s.id)))}

Over(h, srcs) == {s \in srcs : h \in Membership(s.zone)}
Top(srcs) == {s \in srcs : \A t \in srcs : t.priority <= s.priority}

\* What a half may show: a source of the highest priority over it, and nothing
\* where there is none.
Pictures(h, srcs) ==
    LET over == Over(h, Drawable(srcs))
    IN  IF over = {} THEN {Black} ELSE {Image(SlotOf(s.id)) : s \in Top(over)}

\* A mutant of the frame: with nothing to draw the strip goes dark.
FrameBlanking(gone) ==
    LET left == active \ gone
    IN  /\ active' = left
        /\ rendering' = (left # {})
        /\ IF Drawable(left) = {}
           THEN frame' = [h \in Halves |-> Black]
           ELSE /\ frame' \in [Halves -> UNION {Pictures(h, left) : h \in Halves}]
                /\ \A h \in Halves : frame'[h] \in Pictures(h, left)
        /\ UNCHANGED <<transfer, source_slot, running>>

\* With nothing to draw the strip is left as it is.
Frame(gone) ==
    LET left == active \ gone
    IN  /\ active' = left
        /\ rendering' = (left # {})
        /\ IF Drawable(left) = {}
           THEN UNCHANGED frame
           ELSE /\ frame' \in [Halves -> UNION {Pictures(h, left) : h \in Halves}]
                /\ \A h \in Halves : frame'[h] \in Pictures(h, left)
        /\ UNCHANGED <<transfer, source_slot, running>>

\* Nothing is persisted: a device that restarts has nothing.  One that has panicked
\* does nothing until somebody restarts it.
Reboot ==
    /\ slots' = [s \in Slot |-> Empty]
    /\ slot_len' = [s \in Slot |-> 0]
    /\ filling' = None
    /\ expected_len' = 0
    /\ last_filled' = 0
    /\ source_slot' = Empty
    /\ active' = {}
    /\ rendering' = FALSE
    /\ frame' = [h \in Halves |-> Black]
    /\ running' = TRUE

\* What the environment may ask for: every slot number and every length, of
\* which the first one out of range stands for all that are, and chunks that end
\* anywhere.
SlotNumbers == 0 .. SLOTS
Lengths == 0 .. MAX_PROGRAM + 1

Works ==
    \/ \E slot \in SlotNumbers, total \in Lengths : ProgBegin(slot, total)
    \/ \E p \in Programs : \E at \in Lengths \ {0} : ProgChunk(p, at)
    \/ ProgChunkWraps
    \/ ProgEnd
    \/ \E src \in Source : SrcPush(src)
    \/ \E id \in Sources : SrcPop(id)
    \/ \E gone \in SUBSET active : Frame(gone)

Next == (running /\ Works) \/ Reboot

Spec == Init /\ [][Next]_nodeVars

------------------------------------------------------------------------------
\* The types of the variables.
TypeOK ==
    /\ slots \in [Slot -> Buffer \cup {Empty}]
    /\ slot_len \in [Slot -> 0 .. MAX_PROGRAM]
    /\ filling \in Slot \cup {None}
    /\ expected_len \in 0 .. MAX_PROGRAM
    /\ last_filled \in Slot
    /\ source_slot \in Seq(Sources \X Slot)
    /\ active \in SUBSET Source
    /\ rendering \in BOOLEAN
    /\ frame \in [Halves -> Seq(Cell) \cup {Black}]
    /\ running \in BOOLEAN

\* What is held of a slot lies within its buffer (the slices that ProgEnd and
\* render take), and a slot being filled has its whole buffer (the slice that a
\* chunk is copied to, if its end is not before its beginning).
SlicesInBounds ==
    /\ \A s \in Slot : slot_len[s] <= Len(slots[s])
    /\ filling # None => Len(slots[filling]) = MAX_PROGRAM

\* A transfer never mixes with the program it replaces: the part of the buffer
\* beyond what has arrived is blank, and no more has arrived than was declared.
\* (A lost chunk leaves a hole, not the previous program's bytes.)
NoStaleBytes ==
    filling # None =>
        /\ slot_len[filling] <= expected_len
        /\ \A i \in slot_len[filling] + 1 .. MAX_PROGRAM : slots[filling][i] = Zero

\* A transfer that any sequence of datagrams begins, interrupts, redirects or
\* abandons stays within its buffer and apart from what the buffer held before.
\* The one slice that is not in bounds is that of ProgChunkWraps, which the
\* device does not survive.
TransferSound == SlicesInBounds /\ NoStaleBytes

\* The table of bindings answers for every source: at most one entry each, and
\* an admitted source is missing from it only when the table is full.
BindingsSound ==
    /\ \A j, k \in DOMAIN source_slot : source_slot[j][1] = source_slot[k][1] => j = k
    /\ Len(source_slot) <= MAX_SOURCES
    /\ Admitted \subseteq Bound \/ Len(source_slot) = MAX_SOURCES

\* A slot that is not being filled keeps what it holds, whatever arrives, until
\* a transfer into that very slot begins or the device restarts.
HeldUntouched ==
    [][ \A s \in Slot :
            filling # s =>
                \/ slots'[s] = slots[s] /\ slot_len'[s] = slot_len[s]
                \/ filling' = s
                \/ Reboot ]_nodeVars

\* The slot a source renders from is the one that was filled last when it was
\* pushed, unless it found the table full of others: that is slot 0.  And whatever
\* else is pushed, popped or transferred, an admitted source goes on rendering from
\* its slot until it is pushed again (bind and slot_of).
BindingSticks ==
    [][ /\ \A src \in Source :
              running /\ SrcPush(src) /\ CanAdmit(src) =>
                  \/ SlotOf(src.id)' = last_filled
                  \/ /\ SlotOf(src.id)' = 0
                     /\ Len(source_slot) = MAX_SOURCES /\ src.id \notin Bound
        /\ \A id \in Admitted :
              \/ SlotOf(id)' = SlotOf(id)
              \/ \E src \in Source : src.id = id /\ SrcPush(src)
              \/ Reboot ]_nodeVars

\* A strip that shows something goes on showing something until the device
\* restarts: not a source expiring, a program being replaced or a transfer
\* failing makes it dark.
StaysLit ==
    [][ (\E h \in Halves : frame[h] # Black)
            => (\E h \in Halves : frame'[h] # Black) \/ Reboot ]_nodeVars
==============================================================================
