------------------------------ MODULE NodeProofs ------------------------------
(***************************************************************************)
(* What a device guarantees of its slots, its bindings and its strip for   *)
(* every number of slots and sources, every set of programs, every parser  *)
(* and every sequence of datagrams, frames and restarts.                   *)
(***************************************************************************)
EXTENDS Node, TLAPS

------------------------------------------------------------------------------
(***************************************************************************)
(* Buffers and images.                                                     *)
(***************************************************************************)

\* A whole buffer is a sequence as long as a slot.
LEMMA BufferIsSequence ==
    ASSUME NEW b \in Buffer
    PROVE  b \in Seq(Cell) /\ Len(b) = MAX_PROGRAM /\ b # Empty
  <1>1. MAX_PROGRAM \in Nat \ {0}
    BY NodeAssumption
  <1> QED
    BY <1>1 DEF Buffer, Empty

\* A slot's buffer is a sequence, whole or not there at all.
LEMMA SlotIsSequence ==
    ASSUME TypeOK, NEW s \in Slot
    PROVE  /\ slots[s] \in Seq(Cell)
           /\ Len(slots[s]) \in {0, MAX_PROGRAM}
           /\ Len(slots[s]) = MAX_PROGRAM => slots[s] \in Buffer
  <1>1. slots[s] \in Buffer \cup {Empty}
    BY DEF TypeOK
  <1>2. CASE slots[s] \in Buffer
    BY <1>2, BufferIsSequence
  <1>3. CASE slots[s] = Empty
    BY <1>3, NodeAssumption DEF Empty
  <1> QED
    BY <1>1, <1>2, <1>3

\* What a parser sees is a sequence of cells, and never reaches out of a buffer.
LEMMA ImageType ==
    ASSUME TypeOK, SlicesInBounds, NEW s \in Slot
    PROVE  Image(s) \in Seq(Cell) /\ Len(Image(s)) = slot_len[s]
  <1>1. /\ slots[s] \in Seq(Cell) /\ slot_len[s] \in Nat /\ slot_len[s] <= Len(slots[s])
    BY SlotIsSequence, NodeAssumption DEF TypeOK, SlicesInBounds
  <1> QED
    BY <1>1 DEF Image

\* A source renders from one of the slots.
LEMMA SlotOfType ==
    ASSUME TypeOK, NEW id \in Sources
    PROVE  SlotOf(id) \in Slot
  <1>1. 0 \in Slot
    BY NodeAssumption DEF Slot
  <1>2. CASE id \in Bound
    <2>1. \E k \in DOMAIN source_slot : source_slot[k][1] = id
      BY <1>2 DEF Bound
    <2> DEFINE k == CHOOSE k \in DOMAIN source_slot : source_slot[k][1] = id
    <2>2. k \in DOMAIN source_slot
      BY <2>1
    <2> HIDE DEF k
    <2>3. source_slot[k] \in Sources \X Slot
      BY <2>2 DEF TypeOK
    <2> QED
      BY <2>3, <1>2 DEF SlotOf, k
  <1>3. CASE id \notin Bound
    BY <1>1, <1>3 DEF SlotOf
  <1> QED
    BY <1>2, <1>3

------------------------------------------------------------------------------
(***************************************************************************)
(* The transfer of programs.  TypeOK is not inductive without              *)
(* SlicesInBounds: a chunk may only be written because the slot being      *)
(* filled has its whole buffer.                                            *)
(***************************************************************************)
SlotInv == TypeOK /\ SlicesInBounds /\ NoStaleBytes

LEMMA SlotInit == Init => SlotInv
  <1> SUFFICES ASSUME Init PROVE SlotInv
    OBVIOUS
  <1>1. 0 \in Slot /\ Empty \in Seq(Sources \X Slot)
    BY NodeAssumption DEF Slot, Empty
  <1>2. TypeOK
    <2>1. slots \in [Slot -> Buffer \cup {Empty}] /\ frame \in [Halves -> Seq(Cell) \cup {Black}]
      BY DEF Init
    <2>2. /\ slot_len \in [Slot -> 0 .. MAX_PROGRAM] /\ expected_len \in 0 .. MAX_PROGRAM
          /\ filling \in Slot \cup {None} /\ last_filled \in Slot
      BY <1>1, NodeAssumption DEF Init
    <2>3. source_slot \in Seq(Sources \X Slot) /\ active \in SUBSET Source /\ rendering \in BOOLEAN
          /\ running \in BOOLEAN
      BY <1>1 DEF Init
    <2> QED
      BY <2>1, <2>2, <2>3 DEF TypeOK
  <1>3. SlicesInBounds /\ NoStaleBytes
    BY DEF Init, SlicesInBounds, NoStaleBytes, Empty
  <1> QED
    BY <1>2, <1>3 DEF SlotInv

LEMMA SlotBegin ==
    ASSUME SlotInv, NEW slot \in SlotNumbers, NEW total \in Lengths, ProgBegin(slot, total)
    PROVE  SlotInv'
  <1>1. CASE total > MAX_PROGRAM
    BY <1>1 DEF ProgBegin, transfer, stack, SlotInv, TypeOK, SlicesInBounds, NoStaleBytes
  <1>2. CASE ~(total > MAX_PROGRAM)
    <2> DEFINE s == IF slot < SLOTS THEN slot ELSE SLOTS - 1
               blank == [i \in 1 .. MAX_PROGRAM |-> Zero]
    <2>1. s \in Slot /\ s # None
      BY NodeAssumption DEF Slot, SlotNumbers
    <2>2. blank \in Buffer /\ \A i \in 1 .. MAX_PROGRAM : blank[i] = Zero
      BY DEF Buffer, Cell
    <2>3. total \in 0 .. MAX_PROGRAM
      BY <1>2, NodeAssumption DEF Lengths
    <2>4. /\ slots' = [slots EXCEPT ![s] = blank]
          /\ slot_len' = [slot_len EXCEPT ![s] = 0]
          /\ filling' = s /\ expected_len' = total /\ last_filled' = last_filled
          /\ UNCHANGED <<stack, frame, running>>
      BY <1>2 DEF ProgBegin
    <2> HIDE DEF s, blank
    <2>5. TypeOK'
      BY <2>1, <2>2, <2>3, <2>4, NodeAssumption DEF SlotInv, TypeOK, stack
    <2>6. Len(blank) = MAX_PROGRAM
      BY <2>2, BufferIsSequence
    <2>7. SlicesInBounds'
      BY <2>1, <2>4, <2>6, NodeAssumption DEF SlotInv, TypeOK, SlicesInBounds
    <2>8. NoStaleBytes'
      BY <2>1, <2>2, <2>3, <2>4 DEF SlotInv, TypeOK, NoStaleBytes
    <2> QED
      BY <2>5, <2>7, <2>8 DEF SlotInv
  <1> QED
    BY <1>1, <1>2

LEMMA SlotChunk ==
    ASSUME SlotInv, NEW p \in Programs, NEW at \in Lengths \ {0}, ProgChunk(p, at)
    PROVE  SlotInv'
  <1>1. CASE filling = None
    BY <1>1 DEF ProgChunk, transfer, stack, SlotInv, TypeOK, SlicesInBounds, NoStaleBytes
  <1>2. CASE filling # None /\ (at > expected_len \/ at > MAX_PROGRAM)
    <2>1. /\ filling' = None
          /\ UNCHANGED <<slots, slot_len, expected_len, last_filled, stack, frame, running>>
      BY <1>2 DEF ProgChunk
    <2> QED
      BY <2>1 DEF stack, SlotInv, TypeOK, SlicesInBounds, NoStaleBytes
  <1>3. CASE filling # None /\ ~(at > expected_len \/ at > MAX_PROGRAM)
    <2>1. /\ slots' = [slots EXCEPT ![filling][at] = p]
          /\ slot_len' = [slot_len EXCEPT ![filling] = IF at > @ THEN at ELSE @]
          /\ UNCHANGED <<filling, expected_len, last_filled, stack, frame, running>>
      BY <1>3 DEF ProgChunk
    <2>2. filling \in Slot /\ slots[filling] \in Buffer
      BY <1>3, SlotIsSequence DEF SlotInv, TypeOK, SlicesInBounds
    <2>3. at \in Nat \ {0} /\ MAX_PROGRAM \in Nat /\ expected_len \in Nat
      BY NodeAssumption DEF SlotInv, TypeOK, Lengths
    <2>4. at \in 1 .. MAX_PROGRAM /\ at <= expected_len
      BY <1>3, <2>3
    <2> DEFINE b == [slots[filling] EXCEPT ![at] = p]
               n == IF at > slot_len[filling] THEN at ELSE slot_len[filling]
    <2>5. /\ b \in Buffer
          /\ \A i \in 1 .. MAX_PROGRAM : i # at => b[i] = slots[filling][i]
      BY <2>2, <2>4 DEF Buffer, Cell
    <2>6. /\ n \in 0 .. MAX_PROGRAM /\ at <= n /\ slot_len[filling] <= n
          /\ (n = at \/ n = slot_len[filling])
      <3>1. slot_len[filling] \in 0 .. MAX_PROGRAM
        BY <2>2 DEF SlotInv, TypeOK
      <3>2. CASE at > slot_len[filling]
        BY <2>3, <2>4, <3>1, <3>2
      <3>3. CASE ~(at > slot_len[filling])
        BY <2>3, <2>4, <3>1, <3>3
      <3> QED
        BY <3>2, <3>3
    <2>7. slots' = [slots EXCEPT ![filling] = b] /\ slot_len' = [slot_len EXCEPT ![filling] = n]
      BY <2>1, <2>2 DEF SlotInv, TypeOK
    <2> HIDE DEF b, n
    <2>8. TypeOK'
      <3>1. TypeOK
        BY DEF SlotInv
      <3>2. slots' \in [Slot -> Buffer \cup {Empty}] /\ slot_len' \in [Slot -> 0 .. MAX_PROGRAM]
        BY <2>2, <2>5, <2>6, <2>7, <3>1 DEF TypeOK
      <3> QED
        BY <2>1, <3>1, <3>2 DEF TypeOK, stack
    <2>9. Len(b) = MAX_PROGRAM
      BY <2>5, BufferIsSequence
    <2>10. SlicesInBounds'
      BY <2>1, <2>2, <2>3, <2>6, <2>7, <2>9 DEF SlotInv, TypeOK, SlicesInBounds
    <2>11. NoStaleBytes'
      <3>1. slot_len'[filling] = n /\ slots'[filling] = b
        BY <2>2, <2>7 DEF SlotInv, TypeOK
      <3>2. n <= expected_len
        BY <1>3, <2>4, <2>6 DEF SlotInv, NoStaleBytes
      <3>3. ASSUME NEW i \in n + 1 .. MAX_PROGRAM PROVE b[i] = Zero
        <4>1. i \in 1 .. MAX_PROGRAM /\ i # at /\ i \in slot_len[filling] + 1 .. MAX_PROGRAM
          BY <2>2, <2>3, <2>4, <2>6 DEF SlotInv, TypeOK
        <4> QED
          BY <4>1, <1>3, <2>5 DEF SlotInv, NoStaleBytes
      <3> QED
        BY <3>1, <3>2, <3>3, <2>1 DEF NoStaleBytes
    <2> QED
      BY <2>8, <2>10, <2>11 DEF SlotInv
  <1> QED
    BY <1>1, <1>2, <1>3

\* A chunk that wraps changes nothing but whether the device runs.
LEMMA SlotWraps ==
    ASSUME SlotInv, ProgChunkWraps
    PROVE  SlotInv'
  BY DEF ProgChunkWraps, transfer, stack, SlotInv, TypeOK, SlicesInBounds, NoStaleBytes

LEMMA SlotEnd ==
    ASSUME SlotInv, ProgEnd
    PROVE  SlotInv'
  <1>1. CASE filling = None
    BY <1>1 DEF ProgEnd, transfer, stack, SlotInv, TypeOK, SlicesInBounds, NoStaleBytes
  <1>2. CASE filling # None
    <2>1. /\ filling' = None
          /\ UNCHANGED <<slots, expected_len, stack, frame, running>>
          /\ \/ last_filled' = filling /\ slot_len' = slot_len
             \/ slot_len' = [slot_len EXCEPT ![filling] = 0] /\ last_filled' = last_filled
      BY <1>2 DEF ProgEnd
    <2>2. filling \in Slot /\ MAX_PROGRAM \in Nat
      BY <1>2, NodeAssumption DEF SlotInv, TypeOK
    <2>3. TypeOK'
      <3>1. slot_len' \in [Slot -> 0 .. MAX_PROGRAM] /\ last_filled' \in Slot
        BY <2>1, <2>2 DEF SlotInv, TypeOK
      <3> QED
        BY <2>1, <3>1 DEF SlotInv, TypeOK, stack
    <2>4. SlicesInBounds'
      <3>1. ASSUME NEW s \in Slot PROVE slot_len'[s] <= Len(slots'[s])
        <4>1. slot_len'[s] = slot_len[s] \/ slot_len'[s] = 0
          BY <2>1, <2>2 DEF SlotInv, TypeOK
        <4>2. Len(slots[s]) \in Nat
          BY SlotIsSequence, <2>2 DEF SlotInv
        <4> QED
          BY <4>1, <4>2, <2>1 DEF SlotInv, SlicesInBounds
      <3> QED
        BY <3>1, <2>1 DEF SlicesInBounds
    <2>5. NoStaleBytes'
      BY <2>1 DEF NoStaleBytes
    <2> QED
      BY <2>3, <2>4, <2>5 DEF SlotInv
  <1> QED
    BY <1>1, <1>2

\* Binding keeps the table a table of sources and slots.
LEMMA BindType ==
    ASSUME TypeOK, NEW id \in Sources, NEW slot \in Slot
    PROVE  Bind(id, slot) \in Seq(Sources \X Slot)
  <1>1. source_slot \in Seq(Sources \X Slot) /\ <<id, slot>> \in Sources \X Slot
    BY DEF TypeOK
  <1>2. CASE id \in Bound
    <2> DEFINE t == [k \in DOMAIN source_slot |->
                        IF source_slot[k][1] = id THEN <<id, slot>> ELSE source_slot[k]]
    <2>1. t \in [1 .. Len(source_slot) -> Sources \X Slot] /\ Len(source_slot) \in Nat
      BY <1>1
    <2>2. t \in Seq(Sources \X Slot)
      BY <2>1
    <2> QED
      BY <2>2, <1>2 DEF Bind
  <1>3. CASE id \notin Bound
    BY <1>1, <1>3 DEF Bind
  <1> QED
    BY <1>2, <1>3

LEMMA SlotPush ==
    ASSUME SlotInv, NEW src \in Source, SrcPush(src)
    PROVE  SlotInv'
  <1>1. UNCHANGED <<transfer, frame, running>>
    BY DEF SrcPush
  <1>2. source_slot' \in Seq(Sources \X Slot)
    <2>1. src.id \in Sources /\ last_filled \in Slot
      BY DEF Source, SlotInv, TypeOK
    <2>2. source_slot' = Bind(src.id, last_filled) \/ source_slot' = source_slot
      BY DEF SrcPush, stack
    <2> QED
      BY <2>1, <2>2, BindType DEF SlotInv, TypeOK
  <1>3. active' \in SUBSET Source /\ rendering' \in BOOLEAN
    BY DEF SrcPush, stack, Admit, SlotInv, TypeOK
  <1> QED
    BY <1>1, <1>2, <1>3 DEF transfer, SlotInv, TypeOK, SlicesInBounds, NoStaleBytes

LEMMA SlotPop ==
    ASSUME SlotInv, NEW id \in Sources, SrcPop(id)
    PROVE  SlotInv'
  BY DEF SrcPop, transfer, SlotInv, TypeOK, SlicesInBounds, NoStaleBytes

\* What a half may show is something an admitted source renders, or nothing.
LEMMA PicturesType ==
    ASSUME SlotInv, NEW h \in Halves, NEW srcs \in SUBSET Source
    PROVE  Pictures(h, srcs) \subseteq Seq(Cell) \cup {Black}
  <1>1. ASSUME NEW s \in srcs PROVE Image(SlotOf(s.id)) \in Seq(Cell)
    <2>1. s.id \in Sources
      BY DEF Source
    <2> QED
      BY <2>1, SlotOfType, ImageType DEF SlotInv
  <1>2. Top(Over(h, Drawable(srcs))) \subseteq srcs
    BY DEF Top, Over, Drawable
  <1> QED
    BY <1>1, <1>2 DEF Pictures

LEMMA SlotFrame ==
    ASSUME SlotInv, NEW gone \in SUBSET active, Frame(gone)
    PROVE  SlotInv'
  <1>1. /\ UNCHANGED <<transfer, source_slot, running>>
        /\ active' = active \ gone /\ rendering' \in BOOLEAN
    BY DEF Frame
  <1>2. frame' \in [Halves -> Seq(Cell) \cup {Black}]
    <2>1. CASE Drawable(active \ gone) = {}
      BY <2>1 DEF Frame, SlotInv, TypeOK
    <2>2. CASE Drawable(active \ gone) # {}
      <3>1. /\ frame' \in [Halves -> UNION {Pictures(h, active \ gone) : h \in Halves}]
            /\ \A h \in Halves : frame'[h] \in Pictures(h, active \ gone)
        BY <2>2 DEF Frame
      <3>2. active \ gone \in SUBSET Source
        BY DEF SlotInv, TypeOK
      <3>3. \A h \in Halves : frame'[h] \in Seq(Cell) \cup {Black}
        BY <3>1, <3>2, PicturesType
      <3> QED
        BY <3>1, <3>3
    <2> QED
      BY <2>1, <2>2
  <1> QED
    BY <1>1, <1>2 DEF transfer, SlotInv, TypeOK, SlicesInBounds, NoStaleBytes

\* A restart leaves the device as it starts.
LEMMA SlotReboot ==
    ASSUME SlotInv, Reboot
    PROVE  SlotInv'
  <1>1. 0 \in Slot /\ Empty \in Seq(Sources \X Slot)
    BY NodeAssumption DEF Slot, Empty
  <1>2. slots' \in [Slot -> Buffer \cup {Empty}] /\ frame' \in [Halves -> Seq(Cell) \cup {Black}]
    BY DEF Reboot
  <1>3. /\ slot_len' \in [Slot -> 0 .. MAX_PROGRAM] /\ expected_len' \in 0 .. MAX_PROGRAM
        /\ filling' \in Slot \cup {None} /\ last_filled' \in Slot
    BY <1>1, NodeAssumption DEF Reboot
  <1>4. source_slot' \in Seq(Sources \X Slot) /\ active' \in SUBSET Source /\ rendering' \in BOOLEAN
        /\ running' \in BOOLEAN
    BY <1>1 DEF Reboot
  <1>5. TypeOK'
    BY <1>2, <1>3, <1>4 DEF TypeOK
  <1>6. SlicesInBounds' /\ NoStaleBytes'
    BY DEF Reboot, SlicesInBounds, NoStaleBytes, Empty
  <1> QED
    BY <1>5, <1>6 DEF SlotInv

LEMMA SlotNext == SlotInv /\ [Works \/ Reboot]_nodeVars => SlotInv'
  <1> SUFFICES ASSUME SlotInv, [Works \/ Reboot]_nodeVars PROVE SlotInv'
    OBVIOUS
  <1>1. ASSUME NEW slot \in SlotNumbers, NEW total \in Lengths, ProgBegin(slot, total)
        PROVE  SlotInv'
    BY <1>1, SlotBegin
  <1>2. ASSUME NEW p \in Programs, NEW at \in Lengths \ {0}, ProgChunk(p, at)
        PROVE  SlotInv'
    BY <1>2, SlotChunk
  <1>3. CASE ProgEnd
    BY <1>3, SlotEnd
  <1>4. ASSUME NEW src \in Source, SrcPush(src) PROVE SlotInv'
    BY <1>4, SlotPush
  <1>5. ASSUME NEW id \in Sources, SrcPop(id) PROVE SlotInv'
    BY <1>5, SlotPop
  <1>6. ASSUME NEW gone \in SUBSET active, Frame(gone) PROVE SlotInv'
    BY <1>6, SlotFrame
  <1>7. CASE Reboot
    BY <1>7, SlotReboot
  <1>8. CASE ProgChunkWraps
    BY <1>8, SlotWraps
  <1>9. CASE UNCHANGED nodeVars
    BY <1>9 DEF nodeVars, transfer, stack, SlotInv, TypeOK, SlicesInBounds, NoStaleBytes
  <1> QED
    BY <1>1, <1>2, <1>3, <1>4, <1>5, <1>6, <1>7, <1>8, <1>9 DEF Works

LEMMA SlotInductive == Spec => []SlotInv
  <1>1. [Next]_nodeVars => [Works \/ Reboot]_nodeVars
    BY DEF Next
  <1> QED
    BY <1>1, SlotInit, SlotNext, PTL DEF Spec

\* Every variable keeps its type.
THEOREM TypeCorrect == Spec => []TypeOK
  <1>1. SlotInv => TypeOK
    BY DEF SlotInv
  <1> QED
    BY <1>1, SlotInductive, PTL

\* No sequence of datagrams makes the device index out of a buffer.
THEOREM SlicesStayInBounds == Spec => []SlicesInBounds
  <1>1. SlotInv => SlicesInBounds
    BY DEF SlotInv
  <1> QED
    BY <1>1, SlotInductive, PTL

\* A lost chunk leaves a hole and never the bytes of the previous program.
THEOREM NoStaleBytesHolds == Spec => []NoStaleBytes
  <1>1. SlotInv => NoStaleBytes
    BY DEF SlotInv
  <1> QED
    BY <1>1, SlotInductive, PTL

\* Both at once: a transfer stays within its buffer and apart from what was there.
THEOREM TransferSoundHolds == Spec => []TransferSound
  BY SlicesStayInBounds, NoStaleBytesHolds, PTL DEF TransferSound

------------------------------------------------------------------------------
(***************************************************************************)
(* The table of bindings.                                                  *)
(***************************************************************************)

\* Binding a source keeps one entry a source, keeps whoever was bound, and
\* binds the source unless the table is full.
LEMMA BindSound ==
    ASSUME TypeOK, BindingsSound, NEW id \in Sources, NEW slot \in Slot,
           NEW t, t = Bind(id, slot)
    PROVE  /\ \A j, k \in DOMAIN t : t[j][1] = t[k][1] => j = k
           /\ Len(t) <= MAX_SOURCES
           /\ Bound \subseteq {t[k][1] : k \in DOMAIN t}
           /\ id \in {t[k][1] : k \in DOMAIN t} \/ Len(t) = MAX_SOURCES
           /\ Len(source_slot) = MAX_SOURCES => Len(t) = MAX_SOURCES
  <1> DEFINE n == Len(source_slot)
  <1>1. /\ n \in Nat /\ MAX_SOURCES \in Nat /\ n <= MAX_SOURCES
        /\ DOMAIN source_slot = 1 .. n
        /\ source_slot \in [1 .. n -> Sources \X Slot]
        /\ source_slot \in Seq(Sources \X Slot)
    BY NodeAssumption DEF TypeOK, BindingsSound
  <1>2. CASE id \in Bound
    <2>1. t = [k \in 1 .. n |->
                  IF source_slot[k][1] = id THEN <<id, slot>> ELSE source_slot[k]]
      BY <1>1, <1>2 DEF Bind
    <2>2. DOMAIN t = 1 .. n /\ Len(t) = n
      BY <1>1, <2>1
    <2>3. \A k \in 1 .. n : t[k][1] = source_slot[k][1]
      BY <2>1
    <2>4. {t[k][1] : k \in DOMAIN t} = Bound
      BY <1>1, <2>2, <2>3 DEF Bound
    <2>5. \A j, k \in DOMAIN t : t[j][1] = t[k][1] => j = k
      BY <1>1, <2>2, <2>3 DEF BindingsSound
    <2> HIDE DEF n
    <2> QED
      BY <1>1, <1>2, <2>2, <2>4, <2>5 DEF n
  <1>3. CASE id \notin Bound /\ n < MAX_SOURCES
    <2>1. t = Append(source_slot, <<id, slot>>)
      BY <1>3 DEF Bind
    <2>2. /\ DOMAIN t = 1 .. n + 1 /\ Len(t) = n + 1
          /\ \A k \in 1 .. n : t[k] = source_slot[k]
          /\ t[n + 1] = <<id, slot>>
      BY <1>1, <2>1
    <2>3. \A k \in 1 .. n : t[k][1] # id
      <3>1. \A k \in 1 .. n : source_slot[k][1] # id
        BY <1>1, <1>3 DEF Bound
      <3> QED
        BY <2>2, <3>1
    <2>4. \A j, k \in DOMAIN t : t[j][1] = t[k][1] => j = k
      <3> SUFFICES ASSUME NEW j \in DOMAIN t, NEW k \in DOMAIN t, t[j][1] = t[k][1]
                   PROVE  j = k
        OBVIOUS
      <3>1. CASE j \in 1 .. n /\ k \in 1 .. n
        <4>1. source_slot[j][1] = source_slot[k][1]
          BY <2>2, <3>1
        <4> QED
          BY <1>1, <3>1, <4>1 DEF BindingsSound
      <3>2. CASE j = n + 1 \/ k = n + 1
        BY <3>2, <1>1, <2>2, <2>3
      <3> QED
        BY <3>1, <3>2, <1>1, <2>2
    <2>5. id \in {t[k][1] : k \in DOMAIN t}
      <3>1. n + 1 \in DOMAIN t /\ t[n + 1][1] = id
        BY <1>1, <2>2
      <3> QED
        BY <3>1
    <2>6. Bound \subseteq {t[k][1] : k \in DOMAIN t}
      BY <1>1, <2>2 DEF Bound
    <2>7. Len(t) <= MAX_SOURCES /\ Len(source_slot) # MAX_SOURCES
      <3>1. Len(t) = n + 1
        BY <2>2
      <3>2. n \in Nat /\ MAX_SOURCES \in Nat /\ n < MAX_SOURCES
        BY <1>1, <1>3
      <3> QED
        BY <3>1, <3>2
    <2> QED
      BY <2>4, <2>5, <2>6, <2>7
  <1>4. CASE id \notin Bound /\ ~(n < MAX_SOURCES)
    <2>1. t = source_slot /\ n = MAX_SOURCES
      BY <1>1, <1>4 DEF Bind
    <2>2. {t[k][1] : k \in DOMAIN t} = Bound
      BY <2>1 DEF Bound
    <2>3. \A j, k \in DOMAIN t : t[j][1] = t[k][1] => j = k
      BY <2>1 DEF BindingsSound
    <2> QED
      BY <1>1, <2>1, <2>2, <2>3
  <1> QED
    BY <1>2, <1>3, <1>4

LEMMA BindPush ==
    ASSUME TypeOK, BindingsSound, NEW src \in Source, SrcPush(src)
    PROVE  BindingsSound'
  <1>1. CASE ~CanAdmit(src)
    BY <1>1 DEF SrcPush, stack, BindingsSound, Admitted, Bound
  <1>2. CASE CanAdmit(src)
    <2>1. src.id \in Sources /\ last_filled \in Slot
      BY DEF Source, TypeOK
    <2>2. source_slot' = Bind(src.id, last_filled) /\ active' = Admit(src)
      BY <1>2 DEF SrcPush
    <2> DEFINE t == Bind(src.id, last_filled)
    <2>3. /\ \A j, k \in DOMAIN t : t[j][1] = t[k][1] => j = k
          /\ Len(t) <= MAX_SOURCES
          /\ Bound \subseteq {t[k][1] : k \in DOMAIN t}
          /\ src.id \in {t[k][1] : k \in DOMAIN t} \/ Len(t) = MAX_SOURCES
          /\ Len(source_slot) = MAX_SOURCES => Len(t) = MAX_SOURCES
      BY <2>1, BindSound
    <2> HIDE DEF t
    <2>4. source_slot' = t
      BY <2>2 DEF t
    <2>5. Bound' = {t[k][1] : k \in DOMAIN t}
      BY <2>4 DEF Bound
    <2>6. /\ \A j, k \in DOMAIN source_slot' : source_slot'[j][1] = source_slot'[k][1] => j = k
          /\ Len(source_slot') <= MAX_SOURCES
          /\ Bound \subseteq Bound'
          /\ src.id \in Bound' \/ Len(source_slot') = MAX_SOURCES
          /\ Len(source_slot) = MAX_SOURCES => Len(source_slot') = MAX_SOURCES
      BY <2>3, <2>4, <2>5
    <2>7. Admitted' \subseteq Admitted \cup {src.id}
      BY <2>2 DEF Admitted, Admit
    <2> QED
      BY <2>6, <2>7 DEF BindingsSound
  <1> QED
    BY <1>1, <1>2

LEMMA BindNext == TypeOK /\ BindingsSound /\ [Works \/ Reboot]_nodeVars => BindingsSound'
  <1> SUFFICES ASSUME TypeOK, BindingsSound, [Works \/ Reboot]_nodeVars PROVE BindingsSound'
    OBVIOUS
  <1>1. ASSUME UNCHANGED source_slot, Admitted' \subseteq Admitted PROVE BindingsSound'
    BY <1>1 DEF BindingsSound, Bound
  <1>2. ASSUME NEW slot \in SlotNumbers, NEW total \in Lengths, ProgBegin(slot, total)
        PROVE  BindingsSound'
    BY <1>1, <1>2 DEF ProgBegin, stack, Admitted
  <1>3. ASSUME NEW p \in Programs, NEW at \in Lengths \ {0}, ProgChunk(p, at)
        PROVE  BindingsSound'
    BY <1>1, <1>3 DEF ProgChunk, stack, Admitted
  <1>4. CASE ProgEnd
    BY <1>1, <1>4 DEF ProgEnd, stack, Admitted
  <1>5. ASSUME NEW src \in Source, SrcPush(src) PROVE BindingsSound'
    BY <1>5, BindPush
  <1>6. ASSUME NEW id \in Sources, SrcPop(id) PROVE BindingsSound'
    <2>1. source_slot' = source_slot /\ active' \subseteq active
      BY <1>6 DEF SrcPop
    <2> QED
      BY <1>1, <2>1 DEF Admitted
  <1>7. ASSUME NEW gone \in SUBSET active, Frame(gone) PROVE BindingsSound'
    <2>1. source_slot' = source_slot /\ active' \subseteq active
      BY <1>7 DEF Frame
    <2> QED
      BY <1>1, <2>1 DEF Admitted
  <1>8. CASE Reboot
    BY <1>8, NodeAssumption DEF Reboot, BindingsSound, Admitted, Bound, Empty
  <1>9. CASE ProgChunkWraps
    BY <1>1, <1>9 DEF ProgChunkWraps, stack, Admitted
  <1>10. CASE UNCHANGED nodeVars
    BY <1>1, <1>10 DEF nodeVars, stack, Admitted
  <1> QED
    BY <1>2, <1>3, <1>4, <1>5, <1>6, <1>7, <1>8, <1>9, <1>10 DEF Works

\* At most one binding a source, and none missing while there is room.
THEOREM BindingsSoundHolds == Spec => []BindingsSound
  <1>1. Init => BindingsSound
    BY NodeAssumption DEF Init, BindingsSound, Admitted, Bound, Empty
  <1>2. [Next]_nodeVars => [Works \/ Reboot]_nodeVars
    BY DEF Next
  <1> QED
    BY <1>1, <1>2, BindNext, TypeCorrect, PTL DEF Spec

------------------------------------------------------------------------------
(***************************************************************************)
(* What a step may never do.                                               *)
(***************************************************************************)

\* A transfer never touches a slot other than the one it fills.
THEOREM HeldUntouchedHolds == Spec => HeldUntouched
  <1> DEFINE Untouched ==
        \A s \in Slot :
            filling # s =>
                \/ slots'[s] = slots[s] /\ slot_len'[s] = slot_len[s]
                \/ filling' = s
                \/ Reboot
  <1>1. TypeOK /\ [Next]_nodeVars => [Untouched]_nodeVars
    <2> SUFFICES ASSUME TypeOK, Next, NEW s \in Slot, filling # s
                 PROVE  \/ slots'[s] = slots[s] /\ slot_len'[s] = slot_len[s]
                        \/ filling' = s
                        \/ Reboot
      OBVIOUS
    <2>1. ASSUME NEW slot \in SlotNumbers, NEW total \in Lengths, ProgBegin(slot, total)
          PROVE  (slots'[s] = slots[s] /\ slot_len'[s] = slot_len[s]) \/ filling' = s
      BY <2>1 DEF ProgBegin, transfer, TypeOK
    <2>2. ASSUME NEW p \in Programs, NEW at \in Lengths \ {0}, ProgChunk(p, at)
          PROVE  slots'[s] = slots[s] /\ slot_len'[s] = slot_len[s]
      BY <2>2 DEF ProgChunk, transfer, TypeOK
    <2>3. ASSUME ProgEnd PROVE slots'[s] = slots[s] /\ slot_len'[s] = slot_len[s]
      BY <2>3 DEF ProgEnd, transfer, TypeOK
    <2>4. ASSUME UNCHANGED transfer PROVE slots'[s] = slots[s] /\ slot_len'[s] = slot_len[s]
      BY <2>4 DEF transfer
    <2> QED
      BY <2>1, <2>2, <2>3, <2>4 DEF Next, Works, ProgChunkWraps, SrcPush, SrcPop, Frame
  <1> QED
    BY <1>1, TypeCorrect, PTL DEF Spec, HeldUntouched

\* In a table with one entry a source, any entry of a source is the one chosen.
LEMMA OneEntryIsChosen ==
    ASSUME NEW t, \A j, k \in DOMAIN t : t[j][1] = t[k][1] => j = k,
           NEW k \in DOMAIN t
    PROVE  t[CHOOSE j \in DOMAIN t : t[j][1] = t[k][1]] = t[k]
  <1> DEFINE c == CHOOSE j \in DOMAIN t : t[j][1] = t[k][1]
  <1>1. c \in DOMAIN t /\ t[c][1] = t[k][1]
    OBVIOUS
  <1> QED
    BY <1>1

\* A push leaves every other admitted source where it was.  One that was never bound
\* renders from slot 0 for good: the table it found full is never emptied.
LEMMA PushSticks ==
    ASSUME TypeOK, BindingsSound, NEW src \in Source, SrcPush(src),
           NEW id \in Admitted, id # src.id
    PROVE  SlotOf(id)' = SlotOf(id)
  <1>1. CASE ~CanAdmit(src)
    BY <1>1 DEF SrcPush, stack, SlotOf, Bound
  <1>2. CASE CanAdmit(src)
    <2> DEFINE n == Len(source_slot)
               t == Bind(src.id, last_filled)
    <2>1. src.id \in Sources /\ last_filled \in Slot
      BY DEF Source, TypeOK
    <2>2. source_slot' = t
      BY <1>2 DEF SrcPush
    <2>3. /\ n \in Nat /\ DOMAIN source_slot = 1 .. n
          /\ source_slot \in Seq(Sources \X Slot) /\ n <= MAX_SOURCES /\ MAX_SOURCES \in Nat
      BY NodeAssumption DEF TypeOK, BindingsSound
    <2>4. \A j, k \in DOMAIN t : t[j][1] = t[k][1] => j = k
      BY <2>1, BindSound
    <2>5. DOMAIN source_slot \subseteq DOMAIN t
          /\ \A k \in DOMAIN source_slot : source_slot[k][1] = id => t[k] = source_slot[k]
      BY <2>3 DEF Bind
    <2>6. n = MAX_SOURCES => DOMAIN t = DOMAIN source_slot
                            /\ \A k \in DOMAIN t : t[k][1] = source_slot[k][1]
      BY <2>3 DEF Bind
    <2> HIDE DEF t
    <2>7. CASE id \in Bound
      <3>1. PICK k \in DOMAIN source_slot : source_slot[k][1] = id
        BY <2>7 DEF Bound
      <3>2. SlotOf(id) = source_slot[k][2]
        BY <2>7, <3>1, OneEntryIsChosen DEF SlotOf, BindingsSound
      <3>3. k \in DOMAIN t /\ t[k] = source_slot[k] /\ t[k][1] = id
        BY <3>1, <2>5
      <3>4. t[CHOOSE j \in DOMAIN t : t[j][1] = id] = t[k]
        BY <3>3, <2>4, OneEntryIsChosen
      <3>5. id \in {t[j][1] : j \in DOMAIN t}
        BY <3>3
      <3>6. SlotOf(id)' = t[k][2]
        BY <2>2, <3>4, <3>5 DEF SlotOf, Bound
      <3> QED
        BY <3>2, <3>3, <3>6
    <2>8. CASE id \notin Bound
      <3>1. n = MAX_SOURCES
        BY <2>8 DEF BindingsSound
      <3>2. id \notin {t[j][1] : j \in DOMAIN t}
        BY <2>6, <2>8, <3>1 DEF Bound
      <3> QED
        BY <2>2, <2>8, <3>2 DEF SlotOf, Bound
    <2> QED
      BY <2>7, <2>8
  <1> QED
    BY <1>1, <1>2

\* A push binds the source to the slot that was filled last; one that finds the table
\* full of others leaves it unbound.
LEMMA PushBinds ==
    ASSUME TypeOK, BindingsSound, NEW src \in Source, SrcPush(src), CanAdmit(src)
    PROVE  \/ SlotOf(src.id)' = last_filled
           \/ /\ SlotOf(src.id)' = 0
              /\ Len(source_slot) = MAX_SOURCES /\ src.id \notin Bound
  <1> DEFINE n == Len(source_slot)
             id == src.id
             t == Bind(id, last_filled)
  <1>1. id \in Sources /\ last_filled \in Slot
    BY DEF Source, TypeOK
  <1>2. source_slot' = t
    BY DEF SrcPush
  <1>3. n \in Nat /\ n <= MAX_SOURCES /\ MAX_SOURCES \in Nat
    BY NodeAssumption DEF TypeOK, BindingsSound
  <1>4. \A j, k \in DOMAIN t : t[j][1] = t[k][1] => j = k
    BY <1>1, BindSound
  <1>5. ASSUME NEW k \in DOMAIN t, t[k] = <<id, last_filled>>
        PROVE  SlotOf(id)' = last_filled
    <2> HIDE DEF t
    <2>1. t[k][1] = id /\ t[k][2] = last_filled
      BY <1>5
    <2>2. t[CHOOSE j \in DOMAIN t : t[j][1] = id] = t[k]
      BY <2>1, <1>4, OneEntryIsChosen
    <2>3. id \in {t[j][1] : j \in DOMAIN t}
      BY <2>1
    <2> QED
      BY <1>2, <2>1, <2>2, <2>3 DEF SlotOf, Bound
  <1>6. CASE id \in Bound
    <2>1. PICK k \in DOMAIN source_slot : source_slot[k][1] = id
      BY <1>6 DEF Bound
    <2>2. k \in DOMAIN t /\ t[k] = <<id, last_filled>>
      BY <1>6, <2>1 DEF Bind
    <2> QED
      BY <1>5, <2>2
  <1>7. CASE id \notin Bound /\ n < MAX_SOURCES
    <2>1. t = Append(source_slot, <<id, last_filled>>)
      BY <1>7 DEF Bind
    <2>2. n + 1 \in DOMAIN t /\ t[n + 1] = <<id, last_filled>>
      BY <2>1 DEF TypeOK
    <2> QED
      BY <1>5, <2>2
  <1>8. CASE id \notin Bound /\ ~(n < MAX_SOURCES)
    <2>1. t = source_slot
      BY <1>8 DEF Bind
    <2> HIDE DEF n, t
    <2>2. n = MAX_SOURCES
      BY <1>3, <1>8
    <2>3. source_slot' = source_slot
      BY <1>2, <2>1
    <2>4. SlotOf(id)' = 0
      BY <1>8, <2>3 DEF SlotOf, Bound
    <2> QED
      BY <1>8, <2>2, <2>4 DEF n
  <1> QED
    BY <1>6, <1>7, <1>8

\* An admitted source renders from the slot that was filled last when it was pushed,
\* or from slot 0 if it found the table full of others, until it is pushed again or
\* the device restarts.
THEOREM BindingSticksHolds == Spec => BindingSticks
  <1> DEFINE Binds ==
        \A src \in Source :
            running /\ SrcPush(src) /\ CanAdmit(src) =>
                \/ SlotOf(src.id)' = last_filled
                \/ /\ SlotOf(src.id)' = 0
                   /\ Len(source_slot) = MAX_SOURCES /\ src.id \notin Bound
      Sticks ==
        \A id \in Admitted :
            \/ SlotOf(id)' = SlotOf(id)
            \/ \E src \in Source : src.id = id /\ SrcPush(src)
            \/ Reboot
  <1>1. TypeOK /\ BindingsSound => Binds
    BY PushBinds
  <1>2. TypeOK /\ BindingsSound /\ [Next]_nodeVars => [Sticks]_nodeVars
    <2> SUFFICES ASSUME TypeOK, BindingsSound, Next, NEW id \in Admitted
                 PROVE  \/ SlotOf(id)' = SlotOf(id)
                        \/ \E src \in Source : src.id = id /\ SrcPush(src)
                        \/ Reboot
      OBVIOUS
    <2>1. ASSUME UNCHANGED source_slot PROVE SlotOf(id)' = SlotOf(id)
      BY <2>1 DEF SlotOf, Bound
    <2>2. ASSUME NEW src \in Source, SrcPush(src)
          PROVE  SlotOf(id)' = SlotOf(id) \/ \E u \in Source : u.id = id /\ SrcPush(u)
      BY <2>2, PushSticks
    <2> QED
      BY <2>1, <2>2
        DEF Next, Works, ProgBegin, ProgChunk, ProgChunkWraps, ProgEnd, SrcPop, Frame, stack
  <1>3. TypeOK /\ BindingsSound /\ [Next]_nodeVars => [Binds /\ Sticks]_nodeVars
    BY <1>1, <1>2
  <1> QED
    BY <1>3, TypeCorrect, BindingsSoundHolds, PTL DEF Spec, BindingSticks

\* A lit strip stays lit until the device restarts.
THEOREM StaysLitHolds == Spec => StaysLit
  <1> DEFINE Lit == \E h \in Halves : frame[h] # Black
             LitNext == \E h \in Halves : frame'[h] # Black
  <1>1. SlotInv /\ [Next]_nodeVars => [Lit => LitNext \/ Reboot]_nodeVars
    <2> SUFFICES ASSUME SlotInv, Next, Lit PROVE LitNext \/ Reboot
      OBVIOUS
    <2>1. ASSUME UNCHANGED frame PROVE LitNext
      BY <2>1
    <2>2. ASSUME NEW gone \in SUBSET active, Frame(gone) PROVE LitNext
      <3> DEFINE left == active \ gone
      <3>1. CASE Drawable(left) = {}
        BY <2>1, <2>2, <3>1 DEF Frame
      <3>2. CASE Drawable(left) # {}
        <4>1. PICK s \in Drawable(left) : TRUE
          BY <3>2
        <4>2. PICK h \in Halves : h \in Membership(s.zone)
          BY DEF Membership, Halves
        <4>3. s \in Over(h, Drawable(left))
          BY <4>1, <4>2 DEF Over
        <4>4. frame'[h] \in {Image(SlotOf(u.id)) : u \in Top(Over(h, Drawable(left)))}
          BY <2>2, <3>2, <4>3 DEF Frame, Pictures
        <4>5. PICK u \in left : frame'[h] = Image(SlotOf(u.id))
          BY <4>4 DEF Top, Over, Drawable
        <4>6. u.id \in Sources
          BY DEF SlotInv, TypeOK, Source
        <4>7. frame'[h] \in Seq(Cell)
          BY <4>5, <4>6, SlotOfType, ImageType DEF SlotInv
        <4> QED
          BY <4>7, NodeAssumption DEF Cell
      <3> QED
        BY <3>1, <3>2
    <2> QED
      BY <2>1, <2>2
        DEF Next, Works, ProgBegin, ProgChunk, ProgChunkWraps, ProgEnd, SrcPush, SrcPop
  <1> QED
    BY <1>1, SlotInductive, PTL DEF Spec, StaysLit
==============================================================================
