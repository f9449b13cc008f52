------------------------------ MODULE PeerProofs ------------------------------
(***************************************************************************)
(* What the peer, the path and the device guarantee together, at every     *)
(* number of slots, sources, requests, alerts and restarts, and for all    *)
(* programs.                                                               *)
(***************************************************************************)
EXTENDS Peer, NodeProofs, SequenceTheorems

------------------------------------------------------------------------------
(***************************************************************************)
(* Sequences.                                                              *)
(***************************************************************************)

LEMMA Listed ==
    ASSUME NEW S, NEW n \in Nat, NEW f \in [1 .. n -> S]
    PROVE  f \in Seq(S) /\ Len(f) = n
  OBVIOUS

\* c is a and then b.
Joins(S, c, a, b) ==
    /\ c \in Seq(S) /\ Len(a) \in Nat /\ Len(b) \in Nat /\ Len(c) = Len(a) + Len(b)
    /\ \A i \in 1 .. Len(a) : c[i] = a[i]
    /\ \A i \in 1 .. Len(b) : c[Len(a) + i] = b[i]

LEMMA Joined ==
    ASSUME NEW S, NEW a \in Seq(S), NEW b \in Seq(S)
    PROVE  Joins(S, a \o b, a, b)
  <1> DEFINE c == a \o b
  <1>1. Len(a) \in Nat /\ Len(b) \in Nat
    OBVIOUS
  <1>2. /\ a \o b \in Seq(S) /\ Len(a \o b) = Len(a) + Len(b)
        /\ \A i \in 1 .. Len(a) + Len(b) :
               (a \o b)[i] = IF i <= Len(a) THEN a[i] ELSE b[i - Len(a)]
    BY ConcatProperties
  <1>3. /\ c \in Seq(S) /\ Len(c) = Len(a) + Len(b)
        /\ \A i \in 1 .. Len(a) + Len(b) : c[i] = IF i <= Len(a) THEN a[i] ELSE b[i - Len(a)]
    BY <1>2
  <1> HIDE DEF c
  <1>4. PICK m \in Nat, n \in Nat : m = Len(a) /\ n = Len(b)
    BY <1>1
  <1>5. \A i \in 1 .. m + n : c[i] = IF i <= m THEN a[i] ELSE b[i - m]
    BY <1>3, <1>4
  <1>6. \A i \in 1 .. m : c[i] = a[i]
    BY <1>5
  <1>7. \A i \in 1 .. n : m + i \in 1 .. m + n /\ ~(m + i <= m) /\ (m + i) - m = i
    OBVIOUS
  <1>8. \A i \in 1 .. n : c[m + i] = b[i]
    BY <1>5, <1>7
  <1> QED
    BY <1>1, <1>3, <1>4, <1>6, <1>8 DEF Joins, c

------------------------------------------------------------------------------
(***************************************************************************)
(* What the peer sends.                                                    *)
(***************************************************************************)

\* What can be on the path.
Sent ==
    {Begin(slot, total) : slot \in {0, 1}, total \in Nat}
        \cup {m \in {Chunk(p, at) : p \in Programs, at \in Nat} : m.at \in 1 .. Size[m.program]}
        \cup {End}
        \cup {Push(src) : src \in Source}
        \cup {Pop(id) : id \in Sources}

\* A program for a slot, and the source that is to render it.
Job(p, slot, src) == [program |-> p, slot |-> slot, source |-> src]
Jobs ==
    {Job(Play, 0, ShowSource(ShowId, IF split THEN "first" ELSE "all")),
     Job(Alert, 1, AlertSource)}
    \cup IF split THEN {Job(Other, 1, ShowSource(SecondId, "second"))} ELSE {}
Script(j) == PushProgram(j.program, j.slot, j.source)
Chunks(j) == Size[j.program]

LEMMA JobType ==
    ASSUME NEW j \in Jobs
    PROVE  /\ j.program \in Programs /\ j.slot \in {0, 1} /\ j.slot \in Slot
           /\ j.source \in Source /\ Chunks(j) \in Nat \ {0}
           /\ j.program \in SentTo(j.slot)
  <1>1. /\ Play \in Programs /\ Other \in Programs /\ Alert \in Programs
        /\ ShowId \in Sources /\ SecondId \in Sources /\ AlertId \in Sources
        /\ ShowPriority \in Priorities /\ AlertPriority \in Priorities
        /\ "all" \in Zones /\ "first" \in Zones /\ "second" \in Zones
    BY PeerAssumption
  <1>2. 0 \in Slot /\ 1 \in Slot
    BY NodeAssumption, PeerAssumption DEF Slot
  <1>3. \A p \in Programs : Size[p] \in Nat \ {0}
    BY NodeAssumption
  <1>4. AlertSource \in Source /\ \A id \in {ShowId, SecondId}, z \in Zones : ShowSource(id, z) \in Source
    BY <1>1 DEF AlertSource, ShowSource, Source
  <1>5. CASE j = Job(Alert, 1, AlertSource)
    BY <1>1, <1>2, <1>3, <1>4, <1>5 DEF Job, SentTo, Chunks
  <1>6. CASE j = Job(Play, 0, ShowSource(ShowId, IF split THEN "first" ELSE "all"))
    BY <1>1, <1>2, <1>3, <1>4, <1>6 DEF Job, SentTo, Chunks
  <1>7. CASE j = Job(Other, 1, ShowSource(SecondId, "second"))
    BY <1>1, <1>2, <1>3, <1>4, <1>7 DEF Job, SentTo, Chunks
  <1> QED
    BY <1>5, <1>6, <1>7 DEF Jobs

\* A script is its beginning, its chunks in order, its end and its source.
LEMMA ScriptShape ==
    ASSUME NEW j \in Jobs, NEW n, n = Chunks(j)
    PROVE  /\ Script(j) \in Seq(Sent) /\ Len(Script(j)) = n + 3
           /\ Script(j)[1] = Begin(j.slot, n)
           /\ \A i \in 1 .. n : Script(j)[i + 1] = Chunk(j.program, i)
           /\ Script(j)[n + 2] = End /\ Script(j)[n + 3] = Push(j.source)
  <1> DEFINE first == <<Begin(j.slot, n)>>
             chunks == [at \in 1 .. n |-> Chunk(j.program, at)]
             rest == <<End, Push(j.source)>>
  <1>1. /\ n \in Nat \ {0} /\ Script(j) = first \o chunks \o rest
        /\ j.program \in Programs /\ j.slot \in {0, 1} /\ j.source \in Source
    BY JobType DEF Script, PushProgram, Chunks
  <1>2. Begin(j.slot, n) \in Sent /\ End \in Sent /\ Push(j.source) \in Sent
    BY <1>1 DEF Sent
  <1>3. ASSUME NEW i \in 1 .. n PROVE Chunk(j.program, i) \in Sent
    <2>1. /\ Chunk(j.program, i) \in {Chunk(p, at) : p \in Programs, at \in Nat}
          /\ Chunk(j.program, i).at = i /\ Chunk(j.program, i).program = j.program
      BY <1>1 DEF Chunk
    <2> QED
      BY <2>1 DEF Sent, Chunks
  <1>4. /\ first \in Seq(Sent) /\ Len(first) = 1 /\ first[1] = Begin(j.slot, n)
        /\ rest \in Seq(Sent) /\ Len(rest) = 2 /\ rest[1] = End /\ rest[2] = Push(j.source)
    BY <1>2
  <1>5. /\ chunks \in Seq(Sent) /\ Len(chunks) = n
        /\ \A i \in 1 .. n : chunks[i] = Chunk(j.program, i)
    <2>1. chunks \in [1 .. n -> Sent]
      BY <1>3
    <2> QED
      BY <1>1, <2>1, Listed
  <1> HIDE DEF first, chunks, rest
  <1>6. PICK begun : begun = first \o chunks /\ Joins(Sent, begun, first, chunks)
    BY <1>4, <1>5, Joined
  <1>7. /\ begun \in Seq(Sent) /\ Len(begun) = 1 + n
        /\ \A i \in 1 .. 1 : begun[i] = first[i]
        /\ \A i \in 1 .. n : begun[1 + i] = chunks[i]
    BY <1>4, <1>5, <1>6 DEF Joins
  <1>8. PICK all : all = begun \o rest /\ Joins(Sent, all, begun, rest)
    BY <1>4, <1>7, Joined
  <1>9. /\ all \in Seq(Sent) /\ Len(all) = (1 + n) + 2
        /\ \A i \in 1 .. 1 + n : all[i] = begun[i]
        /\ \A i \in 1 .. 2 : all[(1 + n) + i] = rest[i]
    BY <1>4, <1>7, <1>8 DEF Joins
  <1>10. Script(j) = all
    BY <1>1, <1>6, <1>8
  <1>11. all[1] = first[1]
    <2>1. 1 \in 1 .. 1 /\ 1 \in 1 .. 1 + n
      BY <1>1
    <2> QED
      BY <1>7, <1>9, <2>1
  <1>12. ASSUME NEW i \in 1 .. n PROVE all[i + 1] = chunks[i]
    <2>1. 1 + i \in 1 .. 1 + n /\ i + 1 = 1 + i
      BY <1>1
    <2> QED
      BY <1>7, <1>9, <2>1
  <1>13. all[n + 2] = rest[1] /\ all[n + 3] = rest[2]
    <2>1. (1 + n) + 1 = n + 2 /\ (1 + n) + 2 = n + 3 /\ 1 \in 1 .. 2 /\ 2 \in 1 .. 2
      BY <1>1
    <2> QED
      BY <1>9, <2>1
  <1>14. (1 + n) + 2 = n + 3
    BY <1>1
  <1> QED
    BY <1>4, <1>5, <1>9, <1>10, <1>11, <1>12, <1>13, <1>14

\* What the peer sends is the scripts of jobs, and the show's removal.
LEMMA Scripts ==
    /\ AlertScript = Script(Job(Alert, 1, AlertSource))
    /\ Job(Alert, 1, AlertSource) \in Jobs
    /\ \E j \in Jobs :
           /\ j = Job(Play, 0, ShowSource(ShowId, IF split THEN "first" ELSE "all"))
           /\ ~split => ShowScript = Script(j)
           /\ split => \E k \in Jobs :
                  /\ k = Job(Other, 1, ShowSource(SecondId, "second"))
                  /\ ShowScript = Script(j) \o Script(k)
    /\ Off \in Sent
  <1>1. AlertScript = Script(Job(Alert, 1, AlertSource)) /\ Job(Alert, 1, AlertSource) \in Jobs
    BY DEF AlertScript, Script, Job, Jobs
  <1>2. Off \in Sent
    BY PeerAssumption DEF Off, Sent
  <1>3. CASE split
    <2> DEFINE j == Job(Play, 0, ShowSource(ShowId, "first"))
               k == Job(Other, 1, ShowSource(SecondId, "second"))
    <2>1. j \in Jobs /\ k \in Jobs
      BY <1>3 DEF Jobs
    <2>2. ShowScript = Script(j) \o Script(k)
      BY <1>3 DEF ShowScript, Script, Job
    <2> QED
      BY <1>1, <1>2, <1>3, <2>1, <2>2
  <1>4. CASE ~split
    <2> DEFINE j == Job(Play, 0, ShowSource(ShowId, "all"))
    <2>1. j \in Jobs
      BY <1>4 DEF Jobs
    <2>2. ShowScript = Script(j)
      BY <1>4 DEF ShowScript, Script, Job
    <2> QED
      BY <1>1, <1>2, <1>4, <2>1, <2>2
  <1> QED
    BY <1>3, <1>4

LEMMA ScriptsTyped ==
    /\ ShowScript \in Seq(Sent) /\ AlertScript \in Seq(Sent) /\ Off \in Sent
  <1>1. \A j \in Jobs : Script(j) \in Seq(Sent)
    BY ScriptShape
  <1>2. PICK j \in Jobs :
           /\ ~split => ShowScript = Script(j)
           /\ split => \E k \in Jobs : ShowScript = Script(j) \o Script(k)
    BY Scripts
  <1>3. ShowScript \in Seq(Sent)
    <2>1. CASE ~split
      BY <1>1, <1>2, <2>1
    <2>2. CASE split
      <3>1. PICK k \in Jobs : ShowScript = Script(j) \o Script(k)
        BY <1>2, <2>2
      <3>2. Script(j) \o Script(k) \in Seq(Sent)
        BY <1>1, ConcatProperties
      <3> QED
        BY <3>1, <3>2
    <2> QED
      BY <2>1, <2>2
  <1> QED
    BY <1>1, <1>3, Scripts

------------------------------------------------------------------------------
(***************************************************************************)
(* The device of a peer takes only steps of Node, whatever the path does.  *)
(***************************************************************************)
PathTyped == toDevice \in Seq(Sent)

\* Each kind of datagram, by its type.
LEMMA Kinds ==
    ASSUME NEW m \in Sent
    PROVE  /\ m.type = "begin" => m.slot \in {0, 1} /\ m.total \in Nat /\ m = Begin(m.slot, m.total)
           /\ m.type = "chunk" => m.program \in Programs /\ m.at \in 1 .. Size[m.program]
           /\ m.type = "push" => m.source \in Source /\ m = Push(m.source)
           /\ m.type = "pop" => m.id \in Sources /\ m = Pop(m.id)
  <1>1. CASE m \in {Begin(slot, total) : slot \in {0, 1}, total \in Nat}
    BY <1>1 DEF Begin
  <1>2. CASE m \in {c \in {Chunk(p, at) : p \in Programs, at \in Nat} : c.at \in 1 .. Size[c.program]}
    BY <1>2 DEF Chunk
  <1>3. CASE m = End
    BY <1>3 DEF End
  <1>4. CASE m \in {Push(src) : src \in Source}
    BY <1>4 DEF Push
  <1>5. CASE m \in {Pop(id) : id \in Sources}
    BY <1>5 DEF Pop
  <1> QED
    BY <1>1, <1>2, <1>3, <1>4, <1>5 DEF Sent

\* What the device does with any datagram is something that Node has it do.
LEMMA ReceiveIsNode ==
    ASSUME NEW m \in Sent, Receive(m)
    PROVE  Works /\ UNCHANGED running
  <1>1. CASE m.type = "begin" /\ ProgBegin(m.slot, m.total)
    <2>1. m.slot \in SlotNumbers /\ m.total \in Nat
      BY <1>1, Kinds, NodeAssumption DEF SlotNumbers
    <2>2. MAX_PROGRAM \in Nat /\ MAX_PROGRAM + 1 \in Lengths
      BY NodeAssumption DEF Lengths
    <2>3. CASE m.total <= MAX_PROGRAM
      BY <1>1, <2>1, <2>2, <2>3 DEF Works, Lengths, ProgBegin
    <2>4. CASE m.total > MAX_PROGRAM
      <3>1. ProgBegin(m.slot, MAX_PROGRAM + 1)
        BY <1>1, <2>2, <2>4 DEF ProgBegin
      <3> QED
        BY <2>1, <2>2, <3>1 DEF Works, ProgBegin
    <2> QED
      BY <2>1, <2>2, <2>3, <2>4
  <1>2. CASE m.type = "chunk" /\ ProgChunk(m.program, m.at)
    <2>1. m.program \in Programs /\ m.at \in Nat \ {0} /\ MAX_PROGRAM \in Nat
      BY <1>2, Kinds, NodeAssumption
    <2>2. CASE m.at <= MAX_PROGRAM
      BY <1>2, <2>1, <2>2 DEF Works, Lengths, ProgChunk
    <2>3. CASE m.at > MAX_PROGRAM
      <3>1. ProgChunk(m.program, MAX_PROGRAM + 1) /\ MAX_PROGRAM + 1 \in Lengths \ {0}
        BY <1>2, <2>1, <2>3 DEF ProgChunk, Lengths
      <3> QED
        BY <2>1, <3>1 DEF Works, ProgChunk
    <2> QED
      BY <2>1, <2>2, <2>3
  <1>3. CASE m.type = "end" /\ ProgEnd
    BY <1>3 DEF Works, ProgEnd
  <1>4. CASE m.type = "push" /\ SrcPush(m.source)
    BY <1>4, Kinds DEF Works, SrcPush
  <1>5. CASE m.type = "pop" /\ SrcPop(m.id)
    BY <1>5, Kinds DEF Works, SrcPop
  <1> QED
    BY <1>1, <1>2, <1>3, <1>4, <1>5 DEF Receive

LEMMA PeerStepIsNode ==
    ASSUME PathTyped, [PeerNext]_peerVars
    PROVE  [(Works /\ UNCHANGED running) \/ Reboot]_nodeVars
  <1>1. CASE HearHello \/ HttpAsks \/ TakeRequest \/ TimedAlert \/ Hello
    BY <1>1 DEF HearHello, HttpAsks, TakeRequest, TimedAlert, Hello
  <1>2. CASE DeviceReceives
    <2>1. Head(toDevice) \in Sent /\ Receive(Head(toDevice))
      BY <1>2, HeadTailProperties DEF DeviceReceives, Deliver, PathTyped
    <2> QED
      BY <2>1, ReceiveIsNode
  <1>3. CASE DeviceDraws \/ AlertExpires \/ ShowExpires
    <2>1. \E gone \in SUBSET active : Frame(gone)
      BY <1>3 DEF DeviceDraws, AlertExpires, ShowExpires
    <2> QED
      BY <2>1 DEF Works, Frame
  <1>4. CASE DeviceRestarts
    BY <1>4 DEF DeviceRestarts
  <1>5. CASE PathFails
    BY <1>5 DEF PathFails, Fault
  <1>6. CASE UNCHANGED peerVars
    BY <1>6 DEF peerVars
  <1> QED
    BY <1>1, <1>2, <1>3, <1>4, <1>5, <1>6 DEF PeerNext

\* A part of the path is a path.
LEMMA PartOfPath ==
    ASSUME NEW q \in Seq(Sent), NEW m \in Nat, NEW n \in Nat, 1 <= m, n <= Len(q)
    PROVE  SubSeq(q, m, n) \in Seq(Sent)
  <1>1. \A i \in m .. n : q[i] \in Sent
    OBVIOUS
  <1> QED
    BY <1>1, SubSeqProperties

LEMMA FaultTyped ==
    ASSUME PathTyped, Fault
    PROVE  PathTyped'
  <1> DEFINE q == toDevice
  <1>1. q \in Seq(Sent) /\ Len(q) \in Nat /\ DOMAIN q = 1 .. Len(q)
    BY DEF PathTyped
  <1>2. CASE Lose
    <2>1. PICK i \in 1 .. Len(q) : toDevice' = SubSeq(q, 1, i - 1) \o SubSeq(q, i + 1, Len(q))
      BY <1>1, <1>2 DEF Lose, Without
    <2>2. i - 1 \in Nat /\ i + 1 \in Nat /\ i - 1 <= Len(q) /\ 1 <= i + 1
      BY <1>1
    <2>3. SubSeq(q, 1, i - 1) \in Seq(Sent) /\ SubSeq(q, i + 1, Len(q)) \in Seq(Sent)
      BY <1>1, <2>2, PartOfPath
    <2> QED
      BY <2>1, <2>3, ConcatProperties DEF PathTyped
  <1>3. CASE Repeat
    <2>1. PICK i \in 1 .. Len(q) : toDevice' = SubSeq(q, 1, i) \o SubSeq(q, i, Len(q))
      BY <1>1, <1>3 DEF Repeat
    <2>2. SubSeq(q, 1, i) \in Seq(Sent) /\ SubSeq(q, i, Len(q)) \in Seq(Sent)
      BY <1>1, PartOfPath
    <2> QED
      BY <2>1, <2>2, ConcatProperties DEF PathTyped
  <1>4. CASE Swap
    <2>1. PICK i \in 1 .. Len(q) - 1 : toDevice' = [q EXCEPT ![i] = q[i + 1], ![i + 1] = q[i]]
      BY <1>4 DEF Swap
    <2>2. i \in 1 .. Len(q) /\ i + 1 \in 1 .. Len(q)
      BY <1>1
    <2>3. q[i] \in Sent /\ q[i + 1] \in Sent
      BY <1>1, <2>2
    <2>4. [q EXCEPT ![i] = q[i + 1]] \in Seq(Sent) /\ Len([q EXCEPT ![i] = q[i + 1]]) = Len(q)
      BY <1>1, <2>2, <2>3, ExceptSeq
    <2>5. PICK r \in Seq(Sent) : r = [q EXCEPT ![i] = q[i + 1]] /\ Len(r) = Len(q)
      BY <2>4
    <2>6. toDevice' = [r EXCEPT ![i + 1] = q[i]]
      BY <2>1, <2>5
    <2>7. [r EXCEPT ![i + 1] = q[i]] \in Seq(Sent)
      BY <2>2, <2>3, <2>5, ExceptSeq
    <2> QED
      BY <2>6, <2>7 DEF PathTyped
  <1> QED
    BY <1>2, <1>3, <1>4 DEF Fault

LEMMA PathTypedNext ==
    ASSUME PathTyped, [PeerNext]_peerVars
    PROVE  PathTyped'
  <1>1. ASSUME UNCHANGED toDevice PROVE PathTyped'
    BY <1>1 DEF PathTyped
  <1>2. \A s \in Seq(Sent) : toDevice \o s \in Seq(Sent)
    BY ConcatProperties DEF PathTyped
  <1>3. ASSUME SendAlert PROVE PathTyped'
    BY <1>2, <1>3, ScriptsTyped DEF SendAlert, PathTyped
  <1>4. CASE HearHello
    BY <1>1, <1>2, <1>4, ScriptsTyped DEF HearHello, PathTyped
  <1>5. CASE TakeRequest
    <2>1. CASE toDevice' = Append(toDevice, Off)
      BY <2>1, ScriptsTyped DEF PathTyped
    <2> QED
      BY <1>1, <1>3, <1>5, <2>1 DEF TakeRequest
  <1>6. CASE TimedAlert
    BY <1>3, <1>6 DEF TimedAlert
  <1>7. CASE DeviceReceives
    BY <1>7, HeadTailProperties DEF DeviceReceives, Deliver, PathTyped
  <1>8. CASE PathFails
    BY <1>8, FaultTyped DEF PathFails
  <1>9. CASE HttpAsks \/ Hello \/ DeviceDraws \/ AlertExpires
             \/ ShowExpires \/ DeviceRestarts \/ UNCHANGED peerVars
    BY <1>1, <1>9
       DEF HttpAsks, Hello, DeviceDraws, AlertExpires,
           ShowExpires, histories, DeviceRestarts, peerVars, wireVars
  <1> QED
    BY <1>4, <1>5, <1>6, <1>7, <1>8, <1>9 DEF PeerNext

\* No chunk that a peer sends wraps, whatever the path does to it.
LEMMA DeviceRuns == PeerSpec => [](PathTyped /\ running)
  <1>1. PeerInit => PathTyped /\ running
    BY DEF PeerInit, Init, WireInit, PathTyped
  <1>2. PathTyped /\ running /\ [PeerNext]_peerVars => running'
    BY PeerStepIsNode DEF nodeVars, Reboot
  <1> QED
    BY <1>1, <1>2, PathTypedNext, PTL DEF PeerSpec

\* Whatever the peer sends and the path loses, repeats or reorders, the device behind
\* it is a Node: what is proved of a Node holds of it.
THEOREM PeerImplementsNode == PeerSpec => Spec
  <1>1. PeerInit => Init
    BY DEF PeerInit
  <1>2. PathTyped /\ running /\ [PeerNext]_peerVars => [Next]_nodeVars
    BY PeerStepIsNode DEF Next
  <1> QED
    BY <1>1, <1>2, DeviceRuns, PTL DEF PeerSpec, Spec

\* So its transfers stay within their buffers, no slice of one panics, and its bindings
\* are sound.
THEOREM DeviceSoundUnderPeer ==
    PeerSpec => [](TypeOK /\ TransferSound /\ BindingsSound /\ running)
  BY PeerImplementsNode, DeviceRuns, TypeCorrect, TransferSoundHolds, BindingsSoundHolds, PTL

------------------------------------------------------------------------------
(***************************************************************************)
(* The path, as long as it has failed nobody: a part of a script that the  *)
(* device is in the middle of, and then whole scripts and removals.        *)
(***************************************************************************)
Opens(m) == m.type \in {"begin", "pop"}
Shuts(m) == m.type \in {"push", "pop"}

\* The script of job j is on path q, after its first i datagrams.
ScriptAt(q, i, j) ==
    \A k \in 1 .. Chunks(j) + 3 : i + k \in 1 .. Len(q) /\ q[i + k] = Script(j)[k]

PathOK(q) ==
    /\ \A i \in 1 .. Len(q) : q[i].type = "begin" => \E j \in Jobs : ScriptAt(q, i - 1, j)
    /\ \A i \in 1 .. Len(q) : Shuts(q[i]) /\ i # Len(q) => Opens(q[i + 1])
    /\ Len(q) > 0 => Shuts(q[Len(q)])

\* The kinds of datagram in a script.
LEMMA ScriptKinds ==
    ASSUME NEW j \in Jobs, NEW n, n = Chunks(j), NEW k \in 1 .. n + 3
    PROVE  /\ Script(j)[k].type = "begin" => k = 1
           /\ Script(j)[k].type \in {"push", "pop"} => k = n + 3
  <1>1. /\ n \in Nat \ {0} /\ Script(j)[1] = Begin(j.slot, n)
        /\ \A i \in 1 .. n : Script(j)[i + 1] = Chunk(j.program, i)
        /\ Script(j)[n + 2] = End /\ Script(j)[n + 3] = Push(j.source)
    BY ScriptShape, JobType
  <1>2. CASE k = 1
    BY <1>1, <1>2 DEF Begin
  <1>3. CASE k \in 2 .. n + 1
    <2>1. k - 1 \in 1 .. n /\ (k - 1) + 1 = k
      BY <1>1, <1>3
    <2>2. Script(j)[k] = Chunk(j.program, k - 1)
      BY <1>1, <2>1
    <2> QED
      BY <2>2 DEF Chunk
  <1>4. CASE k = n + 2
    BY <1>1, <1>4 DEF End
  <1>5. CASE k = n + 3
    BY <1>1, <1>5 DEF Push
  <1>6. k = 1 \/ k \in 2 .. n + 1 \/ k = n + 2 \/ k = n + 3
    BY <1>1
  <1> QED
    BY <1>2, <1>3, <1>4, <1>5, <1>6

LEMMA PathTail ==
    ASSUME NEW q \in Seq(Sent), q # << >>, PathOK(q), NEW r, r = Tail(q)
    PROVE  PathOK(r) /\ (Shuts(q[1]) /\ r # << >> => Opens(r[1]))
  <1>1. PICK l \in Nat : l = Len(r) /\ Len(q) = l + 1 /\ \A i \in 1 .. l : r[i] = q[i + 1]
    BY HeadTailProperties, LenProperties
  <1>2. \A i \in 1 .. l : i + 1 \in 1 .. Len(q) /\ (i + 1) - 1 = i
    BY <1>1
  <1>3. ASSUME NEW i \in 1 .. l, r[i].type = "begin"
        PROVE  \E j \in Jobs : ScriptAt(r, i - 1, j)
    <2>1. PICK j \in Jobs : ScriptAt(q, i, j)
      BY <1>1, <1>2, <1>3 DEF PathOK
    <2>2. PICK n \in Nat : n = Chunks(j)
      BY JobType
    <2>3. ASSUME NEW k \in 1 .. n + 3
          PROVE  (i - 1) + k \in 1 .. l /\ r[(i - 1) + k] = Script(j)[k]
      <3>1. i + k \in 1 .. l + 1 /\ q[i + k] = Script(j)[k]
        BY <1>1, <2>1, <2>2 DEF ScriptAt
      <3>2. (i - 1) + k \in 1 .. l /\ ((i - 1) + k) + 1 = i + k
        BY <3>1
      <3> QED
        BY <1>1, <3>1, <3>2
    <2> QED
      BY <1>1, <2>2, <2>3 DEF ScriptAt
  <1>4. ASSUME NEW i \in 1 .. l, Shuts(r[i]), i # l
        PROVE  Opens(r[i + 1])
    <2>1. i + 1 \in 1 .. l /\ i + 1 # Len(q) /\ i + 1 \in 1 .. Len(q)
      BY <1>1, <1>4
    <2>2. r[i] = q[i + 1] /\ r[i + 1] = q[(i + 1) + 1]
      BY <1>1, <2>1
    <2> QED
      BY <1>4, <2>1, <2>2 DEF PathOK
  <1>5. ASSUME l > 0 PROVE Shuts(r[l])
    <2>1. r[l] = q[l + 1] /\ Len(q) > 0
      BY <1>1, <1>5
    <2> QED
      BY <1>1, <2>1 DEF PathOK
  <1>6. ASSUME Shuts(q[1]), r # << >> PROVE Opens(r[1])
    <2>1. r \in Seq(Sent)
      BY HeadTailProperties
    <2>2. l > 0
      BY <1>1, <1>6, <2>1, EmptySeq
    <2>3. 1 \in 1 .. Len(q) /\ 1 # Len(q) /\ 1 + 1 = 2 /\ r[1] = q[1 + 1]
      BY <1>1, <2>2
    <2> QED
      BY <1>6, <2>3 DEF PathOK
  <1> QED
    BY <1>1, <1>3, <1>4, <1>5, <1>6 DEF PathOK

\* r is q with more sent after it, and a path that was empty begins with an opening.
Grows(q, r) ==
    /\ r \in Seq(Sent) /\ Len(r) > 0
    /\ \A i \in 1 .. Len(q) : i \in 1 .. Len(r) /\ r[i] = q[i]
    /\ Len(q) = 0 => Opens(r[1])

LEMMA PathAndScript ==
    ASSUME NEW q \in Seq(Sent), PathOK(q), NEW j \in Jobs, NEW r, r = q \o Script(j)
    PROVE  PathOK(r) /\ Grows(q, r)
  <1> DEFINE s == Script(j)
  <1>1. PICK n \in Nat \ {0} : n = Chunks(j)
    BY JobType
  <1>2. s \in Seq(Sent) /\ Len(s) = n + 3 /\ s[1] = Begin(j.slot, n) /\ s[n + 3] = Push(j.source)
    BY <1>1, ScriptShape
  <1>3. Joins(Sent, r, q, s)
    BY <1>2, Joined
  <1>4. PICK l \in Nat : l = Len(q)
    BY <1>3 DEF Joins
  <1>5. /\ r \in Seq(Sent) /\ Len(r) = l + (n + 3)
        /\ \A i \in 1 .. l : r[i] = q[i]
        /\ \A k \in 1 .. n + 3 : r[l + k] = s[k]
    BY <1>2, <1>3, <1>4 DEF Joins
  <1>6. \A i \in 1 .. Len(r) : i \in 1 .. l \/ \E k \in 1 .. n + 3 : i = l + k
    <2>1. \A i \in 1 .. l + (n + 3) : i \in 1 .. l \/ (i - l \in 1 .. n + 3 /\ i = l + (i - l))
      OBVIOUS
    <2> QED
      BY <1>5, <2>1
  <1>7. \A k \in 1 .. n + 3 : /\ s[k].type = "begin" => k = 1
                              /\ s[k].type \in {"push", "pop"} => k = n + 3
    BY <1>1, ScriptKinds
  <1> HIDE DEF s
  <1>8. ASSUME NEW i \in 1 .. Len(r), r[i].type = "begin"
        PROVE  \E k \in Jobs : ScriptAt(r, i - 1, k)
    <2>1. CASE i \in 1 .. l
      <3>1. PICK k \in Jobs : ScriptAt(q, i - 1, k)
        BY <1>4, <1>5, <1>8, <2>1 DEF PathOK
      <3>2. ASSUME NEW x \in 1 .. Chunks(k) + 3
            PROVE  (i - 1) + x \in 1 .. Len(r) /\ r[(i - 1) + x] = Script(k)[x]
        <4>1. (i - 1) + x \in 1 .. l /\ q[(i - 1) + x] = Script(k)[x]
          BY <1>4, <3>1 DEF ScriptAt
        <4>2. \A y \in 1 .. l : y \in 1 .. Len(r)
          BY <1>5
        <4> QED
          BY <1>5, <4>1, <4>2
      <3> QED
        BY <3>2 DEF ScriptAt
    <2>2. CASE \E k \in 1 .. n + 3 : i = l + k
      <3>1. PICK k \in 1 .. n + 3 : i = l + k
        BY <2>2
      <3>2. k = 1 /\ i - 1 = l
        <4>1. r[i] = s[k]
          BY <1>5, <3>1
        <4>2. k = 1
          BY <1>7, <1>8, <4>1
        <4> QED
          BY <3>1, <4>2
      <3>3. ASSUME NEW x \in 1 .. n + 3
            PROVE  l + x \in 1 .. Len(r) /\ r[l + x] = s[x]
        BY <1>5
      <3>4. ScriptAt(r, l, j)
        BY <1>1, <3>3 DEF ScriptAt, s
      <3> QED
        BY <3>2, <3>4
    <2> QED
      BY <1>6, <2>1, <2>2
  <1>9. ASSUME NEW i \in 1 .. Len(r), Shuts(r[i]), i # Len(r)
        PROVE  Opens(r[i + 1])
    <2>1. CASE i \in 1 .. l /\ i # l
      <3>1. i + 1 \in 1 .. l
        BY <2>1
      <3> QED
        BY <1>4, <1>5, <1>9, <2>1, <3>1 DEF PathOK
    <2>2. CASE i = l
      <3>1. 1 \in 1 .. n + 3
        OBVIOUS
      <3>2. r[i + 1] = s[1]
        BY <1>5, <2>2, <3>1
      <3> QED
        BY <1>2, <3>2 DEF Opens, Begin, s
    <2>3. CASE \E k \in 1 .. n + 3 : i = l + k
      <3>1. PICK k \in 1 .. n + 3 : i = l + k
        BY <2>3
      <3>2. k = n + 3
        BY <1>5, <1>7, <1>9, <3>1 DEF Shuts
      <3> QED
        BY <1>5, <1>9, <3>1, <3>2
    <2> QED
      BY <1>6, <2>1, <2>2, <2>3
  <1>10. Shuts(r[Len(r)])
    <2>1. n + 3 \in 1 .. n + 3
      OBVIOUS
    <2>2. r[Len(r)] = s[n + 3]
      BY <1>5, <2>1
    <2> QED
      BY <1>2, <2>2 DEF Shuts, Push, s
  <1>11. Len(r) > 0 /\ \A i \in 1 .. l : i \in 1 .. Len(r)
    BY <1>5
  <1>12. l = 0 => Opens(r[1])
    <2>1. 1 \in 1 .. n + 3 /\ (l = 0 => l + 1 = 1)
      OBVIOUS
    <2>2. r[l + 1] = s[1]
      BY <1>5, <2>1
    <2> QED
      BY <1>2, <2>1, <2>2 DEF Opens, Begin, s
  <1> QED
    BY <1>4, <1>5, <1>8, <1>9, <1>10, <1>11, <1>12 DEF PathOK, Grows

LEMMA PathAndOff ==
    ASSUME NEW q \in Seq(Sent), PathOK(q), NEW r, r = Append(q, Off)
    PROVE  PathOK(r) /\ Grows(q, r)
  <1>1. PICK l \in Nat : l = Len(q)
    BY LenProperties
  <1>2. /\ r \in Seq(Sent) /\ Len(r) = l + 1 /\ r[l + 1] = Off
        /\ \A i \in 1 .. l : r[i] = q[i]
    BY <1>1, ScriptsTyped, AppendProperties
  <1>3. Off.type = "pop"
    BY DEF Off, Pop
  <1>4. \A i \in 1 .. Len(r) : i \in 1 .. l \/ i = l + 1
    BY <1>2
  <1>5. \A i \in 1 .. l : i \in 1 .. Len(r)
    BY <1>2
  <1>6. ASSUME NEW i \in 1 .. Len(r), r[i].type = "begin"
        PROVE  \E k \in Jobs : ScriptAt(r, i - 1, k)
    <2>1. i \in 1 .. l
      BY <1>2, <1>3, <1>4, <1>6
    <2>2. PICK k \in Jobs : ScriptAt(q, i - 1, k)
      BY <1>1, <1>2, <1>6, <2>1 DEF PathOK
    <2>3. ASSUME NEW x \in 1 .. Chunks(k) + 3
          PROVE  (i - 1) + x \in 1 .. Len(r) /\ r[(i - 1) + x] = Script(k)[x]
      <3>1. (i - 1) + x \in 1 .. l /\ q[(i - 1) + x] = Script(k)[x]
        BY <1>1, <2>2 DEF ScriptAt
      <3> QED
        BY <1>2, <1>5, <3>1
    <2> QED
      BY <2>3 DEF ScriptAt
  <1>7. ASSUME NEW i \in 1 .. Len(r), Shuts(r[i]), i # Len(r)
        PROVE  Opens(r[i + 1])
    <2>1. CASE i \in 1 .. l /\ i # l
      <3>1. i + 1 \in 1 .. l
        BY <2>1
      <3> QED
        BY <1>1, <1>2, <1>7, <2>1, <3>1 DEF PathOK
    <2>2. CASE i = l
      BY <1>2, <1>3, <2>2 DEF Opens
    <2> QED
      BY <1>2, <1>4, <1>7, <2>1, <2>2
  <1>8. Shuts(r[Len(r)])
    BY <1>2, <1>3 DEF Shuts
  <1>9. Len(r) > 0 /\ (l = 0 => Opens(r[1]))
    BY <1>2, <1>3 DEF Opens
  <1> QED
    BY <1>1, <1>2, <1>5, <1>6, <1>7, <1>8, <1>9 DEF PathOK, Grows

------------------------------------------------------------------------------
(***************************************************************************)
(* The device, as long as the path has failed nobody: it is between two    *)
(* scripts, or has taken the first k datagrams of one of which the rest is *)
(* on the path.  If it restarted in between it takes no notice of the rest.*)
(***************************************************************************)

\* What the device has of job j when it has taken k datagrams of its script.
Filled(j, k) ==
    /\ k <= Chunks(j) + 1
    /\ filling = j.slot /\ expected_len = Chunks(j) /\ slot_len[j.slot] = k - 1
    /\ \A i \in 1 .. k - 1 : slots[j.slot][i] = j.program

\* A device that has not restarted and that the program fits is where it should be.
OnTime(j, k) ==
    reboots = 0 /\ Chunks(j) <= MAX_PROGRAM =>
        /\ k <= Chunks(j) + 1 => filling = j.slot
        /\ k = Chunks(j) + 2 => last_filled = j.slot

Idle == filling = None /\ (Len(toDevice) > 0 => Opens(toDevice[1]))
Busy(j, k) ==
    /\ \A i \in k + 1 .. Chunks(j) + 3 : i - k \in 1 .. Len(toDevice) /\ toDevice[i - k] = Script(j)[i]
    /\ filling = None \/ Filled(j, k)
    /\ OnTime(j, k)
HeadOK == Idle \/ \E j \in Jobs : \E k \in 1 .. Chunks(j) + 2 : Busy(j, k)

\* What a slot holds that is not being filled: nothing, or a program sent to it.
Holds(s) == IF s = filling THEN Empty ELSE Image(s)
HeldOK ==
    \A s \in Slot : Holds(s) = Empty \/ \E j \in Jobs : j.slot = s /\ Holds(s) = WholeImage(j.program)

\* A step of a Store, with the job that fills a slot.
StoreStep ==
    \A s \in Slot :
        \/ Holds(s)' = Holds(s)
        \/ Holds(s)' = Empty
        \/ Holds(s) = Empty /\ \E j \in Jobs : j.slot = s /\ Holds(s)' = WholeImage(j.program)

LEMMA HeldOKNext ==
    ASSUME HeldOK, StoreStep, UNCHANGED split
    PROVE  HeldOK'
  <1>1. Jobs' = Jobs
    BY DEF Jobs
  <1>2. ASSUME NEW s \in Slot
        PROVE  Holds(s)' = Empty \/ \E j \in Jobs : j.slot = s /\ Holds(s)' = WholeImage(j.program)
    BY DEF HeldOK, StoreStep
  <1> QED
    BY <1>1, <1>2 DEF HeldOK

\* Where a transfer is not touched, nothing is.
LEMMA SlotsKept ==
    ASSUME UNCHANGED transfer
    PROVE  StoreStep
  BY DEF transfer, StoreStep, Holds, Image

\* A slot apart from the one filled keeps what it holds.
LEMMA OthersKept ==
    ASSUME NEW f, NEW s \in Slot, s # f, filling \in {None, f}, filling' \in {None, f},
           s # None, slots'[s] = slots[s], slot_len'[s] = slot_len[s]
    PROVE  Holds(s)' = Holds(s)
  BY DEF Holds, Image

\* The whole of a program that has arrived is its image.
LEMMA WholeArrived ==
    ASSUME SlotInv, NEW j \in Jobs, slot_len[j.slot] = Chunks(j),
           \A i \in 1 .. Chunks(j) : slots[j.slot][i] = j.program
    PROVE  Image(j.slot) = WholeImage(j.program) /\ IsWhole(Image(j.slot))
  <1>1. PICK n \in Nat \ {0} : n = Chunks(j)
    BY JobType
  <1>2. j.slot \in Slot /\ j.program \in Programs /\ Size[j.program] = n
    BY <1>1, JobType DEF Chunks
  <1>3. PICK b : b = slots[j.slot] /\ b \in Seq(Cell) /\ n <= Len(b)
    BY <1>1, <1>2, SlotIsSequence DEF SlotInv, SlicesInBounds
  <1>4. Image(j.slot) = SubSeq(b, 1, n)
    BY <1>1, <1>3 DEF Image
  <1>5. \A i \in 1 .. n : b[i] = j.program /\ b[i] \in Cell
    BY <1>1, <1>2, <1>3 DEF Cell
  <1>6. PICK m : m = SubSeq(b, 1, n)
    OBVIOUS
  <1>7. m \in Seq(Cell) /\ Len(m) = n /\ \A i \in 1 .. n : m[i] = j.program
    BY <1>3, <1>5, <1>6
  <1>8. m = WholeImage(j.program)
    <2>1. WholeImage(j.program) = [i \in 1 .. n |-> j.program]
      BY <1>2 DEF WholeImage
    <2>2. m \in [1 .. n -> Cell]
      BY <1>6, <1>7, LenProperties
    <2> QED
      BY <1>7, <2>1, <2>2
  <1>9. IsWhole(m)
    BY <1>2, <1>7 DEF IsWhole
  <1> QED
    BY <1>4, <1>6, <1>8, <1>9

------------------------------------------------------------------------------
(***************************************************************************)
(* The device takes the next datagram.                                     *)
(***************************************************************************)
Takes ==
    /\ toDevice # << >> /\ Receive(toDevice[1]) /\ toDevice' = Tail(toDevice)
    /\ UNCHANGED <<split, reboots>>

LEMMA WhatIsLeft ==
    ASSUME PathTyped, Takes
    PROVE  /\ Len(toDevice) \in Nat \ {0} /\ Len(toDevice') = Len(toDevice) - 1
           /\ toDevice[1] \in Sent
           /\ \A i \in 1 .. Len(toDevice) - 1 : toDevice'[i] = toDevice[i + 1]
  <1>1. PICK q \in Seq(Sent) : q = toDevice /\ q # << >>
    BY DEF PathTyped, Takes
  <1>2. /\ Tail(q) \in Seq(Sent) /\ Len(Tail(q)) = Len(q) - 1
        /\ \A i \in 1 .. Len(Tail(q)) : Tail(q)[i] = q[i + 1]
    BY <1>1, HeadTailProperties
  <1>3. Len(q) \in Nat \ {0}
    BY <1>1, EmptySeq
  <1>4. q[1] \in Sent
    <2>1. 1 \in 1 .. Len(q)
      BY <1>3
    <2> QED
      BY <1>1, <2>1, ElementOfSeq
  <1> QED
    BY <1>1, <1>2, <1>3, <1>4 DEF Takes

\* The rest of a script, when one of its datagrams has been taken.
LEMMA RestOfScript ==
    ASSUME PathTyped, Takes, NEW j \in Jobs, NEW k \in Nat,
           \A i \in k + 1 .. Chunks(j) + 3 :
               i - k \in 1 .. Len(toDevice) /\ toDevice[i - k] = Script(j)[i]
    PROVE  \A i \in k + 2 .. Chunks(j) + 3 :
               i - (k + 1) \in 1 .. Len(toDevice') /\ toDevice'[i - (k + 1)] = Script(j)[i]
  <1>1. PICK l \in Nat : Len(toDevice) = l + 1
    <2>1. Len(toDevice) - 1 \in Nat /\ Len(toDevice) = (Len(toDevice) - 1) + 1
      BY WhatIsLeft
    <2> QED
      BY <2>1
  <1>2. Len(toDevice') = l /\ \A i \in 1 .. l : toDevice'[i] = toDevice[i + 1]
    <2>1. Len(toDevice) - 1 = l
      BY <1>1
    <2> QED
      BY <2>1, WhatIsLeft
  <1>3. PICK n \in Nat \ {0} : n = Chunks(j)
    BY JobType
  <1>4. ASSUME NEW i \in k + 2 .. n + 3
        PROVE  i - (k + 1) \in 1 .. l /\ toDevice'[i - (k + 1)] = Script(j)[i]
    <2>1. i \in k + 1 .. n + 3 /\ i - (k + 1) \in Int /\ 1 <= i - (k + 1)
          /\ (i - (k + 1)) + 1 = i - k
      BY <1>4
    <2>2. i - k \in 1 .. l + 1 /\ toDevice[i - k] = Script(j)[i]
      BY <1>1, <1>3, <2>1
    <2>3. i - (k + 1) \in 1 .. l
      BY <2>1, <2>2
    <2> QED
      BY <1>2, <2>1, <2>2, <2>3
  <1> QED
    BY <1>2, <1>3, <1>4

LEMMA JobsStay ==
    ASSUME UNCHANGED split
    PROVE  Jobs' = Jobs
  BY DEF Jobs

LEMMA TakesBegin ==
    ASSUME SlotInv, PathTyped, PathOK(toDevice), Idle, Takes, toDevice[1].type = "begin"
    PROVE  HeadOK' /\ StoreStep
  <1>1. Len(toDevice) \in Nat \ {0} /\ 1 \in 1 .. Len(toDevice)
    BY WhatIsLeft
  <1>2. PICK j \in Jobs : ScriptAt(toDevice, 0, j)
    <2>1. 1 - 1 = 0
      OBVIOUS
    <2> QED
      BY <1>1, <2>1 DEF PathOK
  <1>3. PICK n \in Nat \ {0} : n = Chunks(j)
    BY JobType
  <1>4. j.slot \in Slot /\ j.slot < SLOTS /\ j.slot # None
    BY JobType, NodeAssumption DEF Slot
  <1>5. \A i \in 1 .. n + 3 : i \in 1 .. Len(toDevice) /\ toDevice[i] = Script(j)[i]
    <2>1. \A i \in 1 .. n + 3 : 0 + i = i
      OBVIOUS
    <2> QED
      BY <1>2, <1>3, <2>1 DEF ScriptAt
  <1>6. toDevice[1] = Begin(j.slot, n)
    <2>1. 1 \in 1 .. n + 3
      OBVIOUS
    <2> QED
      BY <1>3, <1>5, <2>1, ScriptShape
  <1>7. ProgBegin(j.slot, n) /\ UNCHANGED reboots
    BY <1>6 DEF Takes, Receive, Begin
  <1>8. \A i \in 2 .. n + 3 : i - 1 \in 1 .. Len(toDevice') /\ toDevice'[i - 1] = Script(j)[i]
    <2>1. \A i \in 0 + 1 .. Chunks(j) + 3 :
              i - 0 \in 1 .. Len(toDevice) /\ toDevice[i - 0] = Script(j)[i]
      BY <1>3, <1>5
    <2>2. \A i \in 0 + 2 .. Chunks(j) + 3 :
              i - (0 + 1) \in 1 .. Len(toDevice') /\ toDevice'[i - (0 + 1)] = Script(j)[i]
      BY <2>1, RestOfScript
    <2>3. 0 + 2 = 2 /\ 0 + 1 = 1
      OBVIOUS
    <2> QED
      BY <1>3, <2>2, <2>3
  <1>9. filling = None
    BY DEF Idle
  <1>10. /\ filling' = None \/ Filled(j, 1)'
         /\ OnTime(j, 1)' /\ StoreStep
    <2>1. CASE n > MAX_PROGRAM
      <3>1. UNCHANGED transfer
        BY <1>7, <2>1 DEF ProgBegin
      <3>2. ~(n <= MAX_PROGRAM)
        BY <2>1, NodeAssumption
      <3> QED
        BY <1>3, <1>9, <3>1, <3>2, SlotsKept DEF transfer, OnTime
    <2>2. CASE ~(n > MAX_PROGRAM)
      <3>1. /\ slots' = [slots EXCEPT ![j.slot] = [i \in 1 .. MAX_PROGRAM |-> Zero]]
            /\ slot_len' = [slot_len EXCEPT ![j.slot] = 0]
            /\ filling' = j.slot /\ expected_len' = n
        BY <1>4, <1>7, <2>2 DEF ProgBegin
      <3>2. slot_len'[j.slot] = 0
        BY <1>4, <3>1 DEF SlotInv, TypeOK
      <3>3. 1 <= n + 1 /\ 1 - 1 = 0 /\ 1 .. 0 = {} /\ 1 # n + 2
        OBVIOUS
      <3>4. Filled(j, 1)'
        BY <1>3, <3>1, <3>2, <3>3 DEF Filled
      <3>5. OnTime(j, 1)'
        BY <1>3, <3>1, <3>3 DEF OnTime
      <3>6. ASSUME NEW s \in Slot
            PROVE  Holds(s)' = Holds(s) \/ Holds(s)' = Empty
        <4>1. CASE s = j.slot
          BY <3>1, <4>1 DEF Holds
        <4>2. CASE s # j.slot
          <5>1. slots'[s] = slots[s] /\ slot_len'[s] = slot_len[s] /\ s # None
            BY <3>1, <4>2, NodeAssumption DEF SlotInv, TypeOK, Slot
          <5> QED
            BY <1>9, <3>1, <4>2, <5>1, OthersKept
        <4> QED
          BY <4>1, <4>2
      <3> QED
        BY <3>4, <3>5, <3>6 DEF StoreStep
    <2> QED
      BY <2>1, <2>2
  <1>11. Busy(j, 1)'
    <2>1. 1 + 1 = 2
      OBVIOUS
    <2> QED
      BY <1>3, <1>8, <1>10, <2>1 DEF Busy
  <1>12. 1 \in 1 .. n + 2
    OBVIOUS
  <1> QED
    BY <1>3, <1>10, <1>11, <1>12, JobsStay DEF HeadOK, Takes

\* Between two scripts nothing else but the removal of a source can come.
LEMMA TakesPop ==
    ASSUME PathTyped, PathOK(toDevice), Idle, Takes, toDevice[1].type # "begin"
    PROVE  HeadOK' /\ StoreStep
  <1>1. Len(toDevice) \in Nat \ {0}
    BY WhatIsLeft
  <1>2. toDevice[1].type = "pop" /\ filling = None
    BY <1>1 DEF Idle, Opens
  <1>3. UNCHANGED transfer
    BY <1>2 DEF Takes, Receive, SrcPop
  <1>4. Len(toDevice') > 0 => Opens(toDevice'[1])
    <2>1. PICK q \in Seq(Sent) : q = toDevice /\ q # << >>
      BY DEF PathTyped, Takes
    <2>2. PICK r : r = Tail(q) /\ r = toDevice'
      BY <2>1 DEF Takes
    <2>3. Shuts(q[1]) /\ r # << >> => Opens(r[1])
      BY <2>1, <2>2, PathTail
    <2>4. Len(<< >>) = 0
      OBVIOUS
    <2> QED
      BY <1>2, <2>1, <2>2, <2>3, <2>4 DEF Shuts
  <1> QED
    BY <1>2, <1>3, <1>4, SlotsKept DEF HeadOK, Idle, transfer

LEMMA TakesChunk ==
    ASSUME SlotInv, PathTyped, Takes, NEW j \in Jobs, NEW n \in Nat \ {0}, n = Chunks(j),
           NEW k \in 1 .. n, Busy(j, k)
    PROVE  HeadOK' /\ StoreStep
  <1>1. k + 1 \in 1 .. n + 3 /\ k + 1 \in k + 1 .. n + 3 /\ (k + 1) - k = 1 /\ k \in Nat
        /\ k + 1 \in 1 .. n + 2 /\ k + 1 <= n + 1 /\ k <= n + 1
        /\ (k + 1) - 1 = k /\ k # n + 2 /\ k + 1 # n + 2 /\ k - 1 < k /\ k <= n
    OBVIOUS
  <1>2. toDevice[1] = Chunk(j.program, k)
    <2>1. toDevice[1] = Script(j)[k + 1]
      <3>1. toDevice[(k + 1) - k] = Script(j)[k + 1]
        BY <1>1 DEF Busy
      <3> QED
        BY <1>1, <3>1
    <2> QED
      BY <2>1, ScriptShape
  <1>3. ProgChunk(j.program, k) /\ UNCHANGED <<split, reboots>>
    BY <1>2 DEF Takes, Receive, Chunk
  <1>4. \A i \in k + 2 .. n + 3 :
            i - (k + 1) \in 1 .. Len(toDevice') /\ toDevice'[i - (k + 1)] = Script(j)[i]
    BY <1>1, RestOfScript DEF Busy
  <1>5. j.slot \in Slot /\ j.slot # None /\ j.program \in Programs
    BY JobType, NodeAssumption DEF Slot
  <1>6. /\ filling' = None \/ Filled(j, k + 1)'
        /\ OnTime(j, k + 1)' /\ StoreStep
    <2>1. CASE filling = None
      <3>1. UNCHANGED transfer
        BY <1>3, <2>1 DEF ProgChunk
      <3>2. reboots = 0 /\ n <= MAX_PROGRAM => FALSE
        BY <1>1, <1>5, <2>1 DEF Busy, OnTime
      <3> QED
        BY <1>3, <2>1, <3>1, <3>2, SlotsKept DEF transfer, OnTime
    <2>2. CASE filling # None
      <3>1. /\ filling = j.slot /\ expected_len = n /\ slot_len[j.slot] = k - 1
            /\ \A i \in 1 .. k - 1 : slots[j.slot][i] = j.program
        BY <2>2 DEF Busy, Filled
      <3>2. ~(k > expected_len \/ k > MAX_PROGRAM)
        <4>1. PICK e \in Nat : e = expected_len /\ e <= MAX_PROGRAM
          BY NodeAssumption DEF SlotInv, TypeOK
        <4>2. PICK m \in Nat : m = MAX_PROGRAM
          BY NodeAssumption
        <4>3. k \in Nat /\ k <= e /\ e <= m
          BY <1>1, <3>1, <4>1, <4>2
        <4>4. ~(k > e) /\ ~(k > m)
          BY <4>3
        <4> QED
          BY <4>1, <4>2, <4>4
      <3>3. /\ slots' = [slots EXCEPT ![filling][k] = j.program]
            /\ slot_len' = [slot_len EXCEPT ![filling] = IF k > @ THEN k ELSE @]
            /\ UNCHANGED <<filling, expected_len, last_filled>>
        BY <1>3, <2>2, <3>2 DEF ProgChunk
      <3>4. slot_len'[j.slot] = k
        <4>1. slot_len'[j.slot] = IF k > slot_len[j.slot] THEN k ELSE slot_len[j.slot]
          BY <1>5, <3>1, <3>3 DEF SlotInv, TypeOK
        <4> QED
          BY <1>1, <3>1, <4>1
      <3>5. PICK b \in Buffer : b = slots[j.slot]
        <4>1. Len(slots[j.slot]) = MAX_PROGRAM
          BY <2>2, <3>1 DEF SlotInv, SlicesInBounds
        <4> QED
          BY <1>5, <4>1, SlotIsSequence DEF SlotInv
      <3>6. slots'[j.slot] = [b EXCEPT ![k] = j.program]
        BY <1>5, <3>1, <3>3, <3>5 DEF SlotInv, TypeOK
      <3>7. k \in 1 .. MAX_PROGRAM
        BY <3>2, NodeAssumption
      <3>8. \A i \in 1 .. k : slots'[j.slot][i] = j.program
        <4>1. \A i \in 1 .. k : i \in 1 .. MAX_PROGRAM /\ (i \in 1 .. k - 1 \/ i = k)
          BY <1>1, <3>7, NodeAssumption
        <4> QED
          BY <3>1, <3>5, <3>6, <3>7, <4>1 DEF Buffer
      <3>9. Filled(j, k + 1)'
        BY <1>1, <3>1, <3>3, <3>4, <3>8 DEF Filled
      <3>10. OnTime(j, k + 1)'
        BY <1>1, <3>1, <3>3 DEF OnTime
      <3>11. ASSUME NEW s \in Slot
             PROVE  Holds(s)' = Holds(s)
        <4>1. CASE s = j.slot
          BY <3>1, <3>3, <4>1 DEF Holds
        <4>2. CASE s # j.slot
          <5>1. slots'[s] = slots[s] /\ slot_len'[s] = slot_len[s] /\ s # None
            BY <3>1, <3>3, <4>2, NodeAssumption DEF SlotInv, TypeOK, Slot
          <5> QED
            BY <3>1, <3>3, <4>2, <5>1, OthersKept
        <4> QED
          BY <4>1, <4>2
      <3> QED
        BY <3>9, <3>10, <3>11 DEF StoreStep
    <2> QED
      BY <2>1, <2>2
  <1>7. Busy(j, k + 1)'
    <2>1. (k + 1) + 1 = k + 2
      BY <1>1
    <2> QED
      BY <1>4, <1>6, <2>1 DEF Busy
  <1> QED
    BY <1>1, <1>3, <1>6, <1>7, JobsStay DEF HeadOK

LEMMA TakesEnd ==
    ASSUME SlotInv, PathTyped, Takes, NEW j \in Jobs, NEW n \in Nat \ {0}, n = Chunks(j),
           Busy(j, n + 1)
    PROVE  HeadOK' /\ StoreStep
  <1>1. /\ n + 2 \in (n + 1) + 1 .. n + 3 /\ (n + 2) - (n + 1) = 1 /\ n + 1 \in Nat
        /\ n + 2 \in 1 .. n + 2 /\ (n + 1) - 1 = n /\ n + 1 # n + 2 /\ ~(n + 2 <= n + 1)
        /\ (n + 1) + 1 = n + 2 /\ (n + 1) + 2 = n + 3 /\ n + 1 <= n + 1
    <2>1. n + 2 \in (n + 1) + 1 .. n + 3 /\ n + 1 \in Nat /\ n + 2 \in 1 .. n + 2
      OBVIOUS
    <2>2. (n + 2) - (n + 1) = 1 /\ (n + 1) - 1 = n /\ (n + 1) + 1 = n + 2 /\ (n + 1) + 2 = n + 3
      OBVIOUS
    <2>3. n + 1 # n + 2 /\ ~(n + 2 <= n + 1) /\ n + 1 <= n + 1
      OBVIOUS
    <2> QED
      BY <2>1, <2>2, <2>3
  <1>2. toDevice[1] = End
    <2>1. toDevice[1] = Script(j)[n + 2]
      BY <1>1 DEF Busy
    <2> QED
      BY <2>1, ScriptShape
  <1>3. ProgEnd /\ UNCHANGED <<split, reboots>>
    BY <1>2 DEF Takes, Receive, End
  <1>4. \A i \in n + 3 .. n + 3 :
            i - (n + 2) \in 1 .. Len(toDevice') /\ toDevice'[i - (n + 2)] = Script(j)[i]
    <2>1. \A i \in (n + 1) + 2 .. Chunks(j) + 3 : i - ((n + 1) + 1) \in 1 .. Len(toDevice')
                /\ toDevice'[i - ((n + 1) + 1)] = Script(j)[i]
      BY <1>1, RestOfScript DEF Busy
    <2> QED
      BY <1>1, <2>1
  <1>5. j.slot \in Slot /\ j.slot # None /\ j.program \in Programs
    BY JobType, NodeAssumption DEF Slot
  <1>6. filling' = None /\ OnTime(j, n + 2)' /\ StoreStep
    <2>1. CASE filling = None
      <3>1. UNCHANGED transfer
        BY <1>3, <2>1 DEF ProgEnd
      <3>2. reboots = 0 /\ n <= MAX_PROGRAM => FALSE
        BY <1>1, <1>5, <2>1 DEF Busy, OnTime
      <3> QED
        BY <1>3, <2>1, <3>1, <3>2, SlotsKept DEF transfer, OnTime
    <2>2. CASE filling # None
      <3>1. /\ filling = j.slot /\ expected_len = n /\ slot_len[j.slot] = n
            /\ \A i \in 1 .. n : slots[j.slot][i] = j.program
        BY <1>1, <2>2 DEF Busy, Filled
      <3>2. Image(j.slot) = WholeImage(j.program) /\ IsWhole(Image(j.slot))
        BY <3>1, WholeArrived
      <3>3. /\ filling' = None /\ last_filled' = j.slot
            /\ UNCHANGED <<slots, slot_len, expected_len>>
        BY <1>3, <2>2, <3>1, <3>2 DEF ProgEnd, Parses
      <3>4. OnTime(j, n + 2)'
        BY <1>1, <3>3 DEF OnTime
      <3>5. Holds(j.slot) = Empty /\ Holds(j.slot)' = WholeImage(j.program)
        BY <1>5, <3>1, <3>2, <3>3 DEF Holds, Image
      <3>6. ASSUME NEW s \in Slot, s # j.slot
            PROVE  Holds(s)' = Holds(s)
        <4>1. s # None
          BY NodeAssumption DEF Slot
        <4> QED
          BY <3>1, <3>3, <3>6, <4>1, OthersKept
      <3> QED
        BY <3>3, <3>4, <3>5, <3>6 DEF StoreStep
    <2> QED
      BY <2>1, <2>2
  <1>7. Busy(j, n + 2)'
    <2>1. (n + 2) + 1 = n + 3
      OBVIOUS
    <2> QED
      BY <1>4, <1>6, <2>1 DEF Busy
  <1> QED
    BY <1>1, <1>3, <1>6, <1>7, JobsStay DEF HeadOK

LEMMA TakesPush ==
    ASSUME PathTyped, PathOK(toDevice), Takes, NEW j \in Jobs, NEW n \in Nat \ {0},
           n = Chunks(j), Busy(j, n + 2)
    PROVE  HeadOK' /\ StoreStep /\ toDevice[1] = Push(j.source)
  <1>1. n + 3 \in (n + 2) + 1 .. n + 3 /\ (n + 3) - (n + 2) = 1 /\ ~(n + 2 <= n + 1)
    OBVIOUS
  <1>2. toDevice[1] = Push(j.source)
    <2>1. toDevice[1] = Script(j)[n + 3]
      BY <1>1 DEF Busy
    <2> QED
      BY <2>1, ScriptShape
  <1>3. UNCHANGED transfer
    BY <1>2 DEF Takes, Receive, Push, SrcPush
  <1>4. filling = None
    BY <1>1 DEF Busy, Filled
  <1>5. Len(toDevice') > 0 => Opens(toDevice'[1])
    <2>1. PICK q \in Seq(Sent) : q = toDevice /\ q # << >>
      BY DEF PathTyped, Takes
    <2>2. PICK r : r = Tail(q) /\ r = toDevice'
      BY <2>1 DEF Takes
    <2>3. Shuts(q[1]) /\ r # << >> => Opens(r[1])
      BY <2>1, <2>2, PathTail
    <2>4. Len(<< >>) = 0
      OBVIOUS
    <2> QED
      BY <1>2, <2>1, <2>2, <2>3, <2>4 DEF Shuts, Push
  <1> QED
    BY <1>2, <1>3, <1>4, <1>5, SlotsKept DEF HeadOK, Idle, transfer

\* Whatever the next datagram is.
LEMMA DeliverOK ==
    ASSUME SlotInv, PathTyped, PathOK(toDevice), HeadOK, Takes
    PROVE  HeadOK' /\ StoreStep
  <1>1. CASE Idle
    BY <1>1, TakesBegin, TakesPop
  <1>2. CASE \E j \in Jobs : \E k \in 1 .. Chunks(j) + 2 : Busy(j, k)
    <2>1. PICK j \in Jobs : \E k \in 1 .. Chunks(j) + 2 : Busy(j, k)
      BY <1>2
    <2>2. PICK n \in Nat \ {0} : n = Chunks(j)
      BY JobType
    <2>3. PICK k \in 1 .. n + 2 : Busy(j, k)
      BY <2>1, <2>2
    <2>4. k \in 1 .. n \/ k = n + 1 \/ k = n + 2
      OBVIOUS
    <2>5. CASE k \in 1 .. n
      BY <2>2, <2>3, <2>5, TakesChunk
    <2>6. CASE k = n + 1
      BY <2>2, <2>3, <2>6, TakesEnd
    <2>7. CASE k = n + 2
      BY <2>2, <2>3, <2>7, TakesPush
    <2> QED
      BY <2>4, <2>5, <2>6, <2>7
  <1> QED
    BY <1>1, <1>2 DEF HeadOK

------------------------------------------------------------------------------
(***************************************************************************)
(* The peer sends more, the device restarts.                               *)
(***************************************************************************)

PathWhole == PathOK(toDevice)

LEMMA PathStays ==
    ASSUME NEW q, PathOK(q), q = toDevice', UNCHANGED split
    PROVE  PathWhole'
  BY JobsStay DEF PathWhole, PathOK, ScriptAt, Opens, Shuts

LEMMA GrowsTwice ==
    ASSUME NEW q, NEW r, NEW t, Len(q) \in Nat, Len(r) \in Nat, Grows(q, r), Grows(r, t)
    PROVE  Grows(q, t)
  <1>1. 1 \in 1 .. Len(r)
    BY DEF Grows
  <1> QED
    BY <1>1 DEF Grows

\* More on the path does not change what its head is.
LEMMA HeadGrows ==
    ASSUME PathTyped, HeadOK, Grows(toDevice, toDevice'), UNCHANGED <<transfer, split, reboots>>
    PROVE  HeadOK'
  <1>1. Jobs' = Jobs
    BY JobsStay
  <1>2. CASE Idle
    <2>1. CASE Len(toDevice) = 0
      BY <1>2, <2>1 DEF Idle, Grows, HeadOK, transfer
    <2>2. CASE Len(toDevice) # 0
      <3>1. Len(toDevice) > 0 /\ 1 \in 1 .. Len(toDevice)
        BY <2>2, LenProperties DEF PathTyped
      <3>2. toDevice'[1] = toDevice[1]
        BY <3>1 DEF Grows
      <3> QED
        BY <1>2, <3>1, <3>2 DEF Idle, HeadOK, transfer, Opens
    <2> QED
      BY <2>1, <2>2
  <1>3. ASSUME NEW j \in Jobs, NEW k \in 1 .. Chunks(j) + 2, Busy(j, k)
        PROVE  HeadOK'
    <2>1. \A i \in k + 1 .. Chunks(j) + 3 :
              i - k \in 1 .. Len(toDevice') /\ toDevice'[i - k] = Script(j)[i]
      BY <1>3 DEF Busy, Grows
    <2>2. Busy(j, k)'
      BY <1>3, <2>1 DEF Busy, Filled, OnTime, transfer
    <2> QED
      BY <1>1, <2>2 DEF HeadOK
  <1> QED
    BY <1>2, <1>3 DEF HeadOK

\* The peer appends scripts of jobs, or a removal.
LEMMA SendsOK ==
    ASSUME PathTyped, PathOK(toDevice), UNCHANGED split,
           \/ toDevice' = toDevice \o ShowScript
           \/ toDevice' = toDevice \o AlertScript
           \/ toDevice' = Append(toDevice, Off)
    PROVE  PathWhole' /\ Grows(toDevice, toDevice')
  <1>1. PICK q \in Seq(Sent) : q = toDevice /\ PathOK(q)
    BY DEF PathTyped
  <1>2. PICK r : r = toDevice'
    OBVIOUS
  <1>3. ASSUME NEW j \in Jobs, r = q \o Script(j)
        PROVE  PathOK(r) /\ Grows(q, r)
    BY <1>1, <1>3, PathAndScript
  <1>4. ASSUME r = q \o ShowScript PROVE PathOK(r) /\ Grows(q, r)
    <2>1. CASE ~split
      <3>1. PICK j \in Jobs : ShowScript = Script(j)
        BY <2>1, Scripts
      <3> QED
        BY <1>3, <1>4, <3>1
    <2>2. CASE split
      <3>1. PICK j \in Jobs, k \in Jobs : ShowScript = Script(j) \o Script(k)
        BY <2>2, Scripts
      <3>2. PICK s \in Seq(Sent), t \in Seq(Sent) : s = Script(j) /\ t = Script(k)
        BY ScriptShape
      <3>3. r = (q \o s) \o t
        <4>1. r = q \o (s \o t)
          BY <1>4, <3>1, <3>2
        <4>2. q \o (s \o t) = (q \o s) \o t
          BY <1>4, ConcatAssociative
        <4> QED
          BY <4>1, <4>2
      <3>4. PICK p : p = q \o Script(j)
        OBVIOUS
      <3>5. PathOK(p) /\ Grows(q, p)
        BY <1>1, <3>4, PathAndScript
      <3>6. p \in Seq(Sent)
        BY <3>5 DEF Grows
      <3>7. PathOK(r) /\ Grows(p, r)
        BY <3>2, <3>3, <3>4, <3>5, <3>6, PathAndScript
      <3> QED
        BY <3>5, <3>6, <3>7, GrowsTwice, LenProperties
    <2> QED
      BY <2>1, <2>2
  <1>5. ASSUME r = q \o AlertScript PROVE PathOK(r) /\ Grows(q, r)
    <2>1. PICK j \in Jobs : AlertScript = Script(j)
      BY Scripts
    <2> QED
      BY <1>3, <1>5, <2>1
  <1>6. ASSUME r = Append(q, Off) PROVE PathOK(r) /\ Grows(q, r)
    BY <1>1, <1>6, PathAndOff
  <1>7. PathOK(r) /\ Grows(q, r)
    BY <1>1, <1>2, <1>4, <1>5, <1>6
  <1> QED
    BY <1>1, <1>2, <1>7, PathStays

\* A device that restarts has nothing, and takes no notice of the rest of a script.
LEMMA RebootOK ==
    ASSUME HeadOK, reboots \in Nat, reboots' = reboots + 1, Reboot,
           UNCHANGED <<toDevice, split>>
    PROVE  HeadOK' /\ StoreStep
  <1>1. Jobs' = Jobs /\ reboots' # 0 /\ filling' = None
    BY JobsStay DEF Reboot
  <1>2. ASSUME Idle PROVE HeadOK'
    BY <1>1, <1>2 DEF HeadOK, Idle, Opens
  <1>3. ASSUME NEW j \in Jobs, NEW k \in 1 .. Chunks(j) + 2, Busy(j, k)
        PROVE  HeadOK'
    <2>1. Busy(j, k)'
      BY <1>1, <1>3 DEF Busy, OnTime
    <2> QED
      BY <1>1, <2>1 DEF HeadOK
  <1>4. ASSUME NEW s \in Slot PROVE Holds(s)' = Empty
    <2>1. slots'[s] = Empty /\ slot_len'[s] = 0
      BY <1>4 DEF Reboot
    <2>2. SubSeq(Empty, 1, 0) = Empty
      BY SubSeqEmpty DEF Empty
    <2> QED
      BY <2>1, <2>2 DEF Holds, Image
  <1> QED
    BY <1>2, <1>3, <1>4 DEF HeadOK, StoreStep

------------------------------------------------------------------------------
(***************************************************************************)
(* The peer, the path and the device together.                             *)
(***************************************************************************)
Counted == faults \in Nat /\ reboots \in Nat
PathSound == PathWhole /\ HeadOK /\ HeldOK

\* The inductive invariant: as long as the path has failed nobody, it carries whole
\* scripts, the device is where they say, and its slots hold programs sent to them.
PeerInv == SlotInv /\ PathTyped /\ Counted /\ (faults = 0 => PathSound)

LEMMA PeerInvInit == PeerInit => PeerInv
  <1> SUFFICES ASSUME PeerInit PROVE PeerInv
    OBVIOUS
  <1>1. SlotInv
    BY SlotInit DEF PeerInit
  <1>2. toDevice = << >> /\ Len(toDevice) = 0 /\ faults = 0 /\ reboots = 0
    BY DEF PeerInit, WireInit
  <1>3. PathTyped /\ PathWhole
    BY <1>2 DEF PathTyped, PathWhole, PathOK
  <1>4. HeadOK
    BY <1>2 DEF PeerInit, Init, HeadOK, Idle
  <1>5. ASSUME NEW s \in Slot PROVE Holds(s) = Empty
    <2>1. slots[s] = Empty /\ slot_len[s] = 0
      BY <1>5 DEF PeerInit, Init
    <2>2. SubSeq(Empty, 1, 0) = Empty
      BY SubSeqEmpty DEF Empty
    <2> QED
      BY <2>1, <2>2 DEF Holds, Image
  <1> QED
    BY <1>1, <1>2, <1>3, <1>4, <1>5 DEF PeerInv, PathSound, Counted, HeldOK

LEMMA CountedNext == Counted /\ [PeerNext]_peerVars => Counted' /\ (faults' = 0 => faults = 0 /\ ~PathFails)
  <1> SUFFICES ASSUME Counted, [PeerNext]_peerVars
               PROVE  Counted' /\ (faults' = 0 => faults = 0 /\ ~PathFails)
    OBVIOUS
  <1>1. CASE PathFails
    BY <1>1 DEF PathFails, Fault, counts, Counted
  <1>2. CASE DeviceRestarts
    BY <1>2 DEF DeviceRestarts, PathFails, Fault, wireVars, Counted
  <1>3. CASE /\ ~PathFails
             /\ \/ HearHello \/ HttpAsks \/ TakeRequest \/ TimedAlert \/ DeviceReceives
                \/ Hello \/ DeviceDraws \/ AlertExpires \/ ShowExpires \/ UNCHANGED peerVars
    BY <1>3 DEF HearHello, HttpAsks, TakeRequest, TimedAlert, DeviceReceives, Deliver,
                Hello, DeviceDraws, AlertExpires,
                ShowExpires, histories, peerVars, wireVars, counts, Counted
  <1> QED
    BY <1>1, <1>2, <1>3 DEF PeerNext

LEMMA DeliveryTakes ==
    ASSUME PathTyped, DeviceReceives
    PROVE  Takes
  BY HeadTailProperties DEF PathTyped, DeviceReceives, Deliver, Takes, counts

\* A step over a path that has failed nobody is a step of a Store.
LEMMA PeerStep ==
    ASSUME PeerInv, [PeerNext]_peerVars, faults' = 0
    PROVE  PathSound' /\ StoreStep
  <1>1. /\ SlotInv /\ PathTyped /\ PathOK(toDevice) /\ HeadOK /\ HeldOK
        /\ Counted /\ reboots \in Nat /\ ~PathFails
    BY CountedNext DEF PeerInv, PathSound, Counted, PathWhole
  <1>2. UNCHANGED split
    BY <1>1 DEF PeerNext, HearHello, HttpAsks, TakeRequest, TimedAlert, DeviceReceives,
                Hello, DeviceDraws, AlertExpires, ShowExpires, histories, DeviceRestarts, peerVars
  <1>3. ASSUME UNCHANGED <<toDevice, transfer, reboots>>
        PROVE  PathWhole' /\ HeadOK' /\ StoreStep
    <2>1. PathWhole'
      BY <1>1, <1>2, <1>3, PathStays
    <2>2. Jobs' = Jobs
      BY <1>2, JobsStay
    <2>3. HeadOK'
      BY <1>1, <1>3, <2>2 DEF HeadOK, Idle, Busy, Filled, OnTime, Opens, transfer
    <2> QED
      BY <1>3, <2>1, <2>3, SlotsKept
  <1>4. ASSUME UNCHANGED <<transfer, reboots>>,
               \/ toDevice' = toDevice \o ShowScript
               \/ toDevice' = toDevice \o AlertScript
               \/ toDevice' = Append(toDevice, Off)
        PROVE  PathWhole' /\ HeadOK' /\ StoreStep
    BY <1>1, <1>2, <1>4, SendsOK, HeadGrows, SlotsKept
  <1>5. ASSUME HearHello
        PROVE  PathWhole' /\ HeadOK' /\ StoreStep
    BY <1>3, <1>4, <1>5 DEF HearHello, nodeVars, counts
  <1>6. ASSUME TakeRequest
        PROVE  PathWhole' /\ HeadOK' /\ StoreStep
    BY <1>3, <1>4, <1>6 DEF TakeRequest, SendAlert, nodeVars, counts
  <1>7. ASSUME TimedAlert
        PROVE  PathWhole' /\ HeadOK' /\ StoreStep
    BY <1>4, <1>7 DEF TimedAlert, SendAlert, nodeVars
  <1>8. ASSUME DeviceReceives
        PROVE  PathWhole' /\ HeadOK' /\ StoreStep
    <2>1. PICK q \in Seq(Sent) : q = toDevice /\ q # << >>
      BY <1>1, <1>8 DEF DeviceReceives, Deliver, PathTyped
    <2>2. PICK r : r = Tail(q) /\ r = toDevice'
      BY <1>8, <2>1 DEF DeviceReceives, Deliver
    <2>3. PathOK(r)
      BY <1>1, <2>1, <2>2, PathTail
    <2>4. PathWhole'
      BY <1>2, <2>2, <2>3, PathStays
    <2> QED
      BY <1>1, <1>8, <2>4, DeliveryTakes, DeliverOK
  <1>9. ASSUME DeviceRestarts
        PROVE  PathWhole' /\ HeadOK' /\ StoreStep
    <2>1. PathWhole'
      BY <1>1, <1>2, <1>9, PathStays DEF DeviceRestarts, wireVars
    <2> QED
      BY <1>1, <1>2, <1>9, <2>1, RebootOK DEF DeviceRestarts, wireVars
  <1>10. ASSUME HttpAsks \/ Hello \/ DeviceDraws \/ AlertExpires
                \/ ShowExpires \/ UNCHANGED peerVars
        PROVE  PathWhole' /\ HeadOK' /\ StoreStep
    BY <1>3, <1>10
       DEF HttpAsks, Hello, DeviceDraws, AlertExpires,
           ShowExpires, histories, Frame, peerVars, wireVars, nodeVars, counts
  <1>11. PathWhole' /\ HeadOK' /\ StoreStep
    BY <1>1, <1>5, <1>6, <1>7, <1>8, <1>9, <1>10 DEF PeerNext
  <1> QED
    BY <1>1, <1>2, <1>11, HeldOKNext DEF PathSound

LEMMA PeerInvNext == PeerInv /\ [PeerNext]_peerVars => PeerInv'
  <1> SUFFICES ASSUME PeerInv, [PeerNext]_peerVars PROVE PeerInv'
    OBVIOUS
  <1>1. SlotInv'
    BY PeerStepIsNode, SlotNext DEF PeerInv
  <1>2. PathTyped'
    BY PathTypedNext DEF PeerInv
  <1>3. Counted' /\ (faults' = 0 => PathSound')
    BY CountedNext, PeerStep DEF PeerInv
  <1> QED
    BY <1>1, <1>2, <1>3 DEF PeerInv

LEMMA PeerInductive == PeerSpec => []PeerInv
  BY PeerInvInit, PeerInvNext, PTL DEF PeerSpec

\* A step of the device's slots is a step of a Store.
LEMMA StoreSteps ==
    ASSUME StoreStep
    PROVE  Slots!Next
  <1> SUFFICES ASSUME NEW s \in Slot
               PROVE  Slots!Keeps(s) \/ Slots!Empties(s) \/ Slots!Fills(s)
    BY DEF Slots!Next
  <1>1. ASSUME NEW j \in Jobs, j.slot = s
        PROVE  WholeImage(j.program) \in {WholeImage(p) : p \in SentTo(s)}
    BY <1>1, JobType
  <1>2. \/ Holds(s)' = Holds(s)
        \/ Holds(s)' = Empty
        \/ Holds(s) = Empty /\ \E j \in Jobs : j.slot = s /\ Holds(s)' = WholeImage(j.program)
    BY DEF StoreStep
  <1> QED
    BY <1>1, <1>2 DEF Slots!Keeps, Slots!Empties, Slots!Fills, Holds

LEMMA StoreInitially == PeerInit => Slots!Init
  <1> SUFFICES ASSUME PeerInit PROVE Slots!Init
    OBVIOUS
  <1>1. SubSeq(Empty, 1, 0) = Empty
    BY SubSeqEmpty DEF Empty
  <1>2. \A s \in Slot : Image(s) = Empty
    BY <1>1 DEF PeerInit, Init, Image
  <1> QED
    BY <1>2 DEF Slots!Init

LEMMA StoreNext ==
    ASSUME PeerInv, [PeerNext]_peerVars, faults' = 0
    PROVE  Slots!Next
  BY PeerStep, StoreSteps

\* Over a path that has failed nobody the peer, the path and the device take only steps
\* that a Store allows: nothing half received, and nothing sent to the other slot, is
\* ever what a slot holds, however announcements, alerts, requests, frames and restarts
\* of the device come in between the datagrams of a transfer.
THEOREM StoreUntilAFault == PeerSpec => [][faults' = 0 => Slots!Next]_peerVars
  BY PeerInductive, StoreNext, PTL DEF PeerSpec

Flawless == faults = 0

\* So over a path without faults they are a Store.
THEOREM IsStoreHolds ==
    ASSUME MaxFaults = 0
    PROVE  PeerSpec => IsStore
  <1>1. PeerInit => Flawless
    BY DEF PeerInit, WireInit, Flawless
  <1>2. Flawless /\ [PeerNext]_peerVars => Flawless'
    <2> SUFFICES ASSUME Flawless, [PeerNext]_peerVars PROVE Flawless'
      OBVIOUS
    <2>1. ~PathFails
      BY DEF PathFails, Fault, Flawless
    <2> QED
      BY <2>1 DEF PeerNext, HearHello, HttpAsks, TakeRequest, TimedAlert, DeviceReceives,
                  Deliver, Hello, DeviceDraws, AlertExpires,
                  ShowExpires, histories, DeviceRestarts, peerVars,
                  wireVars, Flawless
  <1>3. PeerInv /\ [PeerNext]_peerVars /\ Flawless' => Slots!Next
    BY StoreNext DEF Flawless
  <1> QED
    BY <1>1, <1>2, <1>3, StoreInitially, PeerInductive, PTL DEF PeerSpec, IsStore, Slots!Spec

------------------------------------------------------------------------------
(***************************************************************************)
(* A path that may have failed the device once.                            *)
(*                                                                         *)
(* A transfer needs less than a whole script: that the chunks which come   *)
(* before its end are of its program, and that it is ended, or begun       *)
(* again, or has all its chunks.  A path that has failed nobody assures    *)
(* every transfer of more, and one fault leaves each with that much.       *)
(***************************************************************************)

\* What parts the chunks of one transfer from those of the next: nothing of the
\* kind comes between places i and m of path q.
Parts(m) == m.type \in {"begin", "end"}
Clear(q, i, m) == \A l \in i + 1 .. m - 1 : ~Parts(q[l])

\* What comes after place i of the path, up to what parts it from the rest: only
\* chunks of program p; the end; the same slot's beginning; the chunk for a place.
Owns(q, i, p) ==
    \A m \in i + 1 .. Len(q) : q[m].type = "chunk" /\ Clear(q, i, m) => q[m].program = p
Closed(q, i) == \E e \in i + 1 .. Len(q) : q[e].type = "end" /\ Clear(q, i, e)
Again(q, i, s) ==
    \E b \in i + 1 .. Len(q) : q[b].type = "begin" /\ q[b].slot = s /\ Clear(q, i, b)
Coming(q, i, at) ==
    \E m \in i + 1 .. Len(q) : q[m].type = "chunk" /\ q[m].at = at /\ Clear(q, i, m)
Whole(q, i, n, there) == \A at \in 1 .. n : at \in there \/ Coming(q, i, at)

\* The transfer of job j that is open from place i of the path, with some chunks
\* there already: no other program's chunks get into it, and it is ended, or taken
\* up anew, or left complete; ended and complete over a path that has failed nobody.
Assured(q, i, j, there, tight) ==
    /\ Owns(q, i, j.program)
    /\ IF tight
       THEN Closed(q, i) /\ Whole(q, i, Chunks(j), there)
       ELSE Closed(q, i) \/ Again(q, i, j.slot) \/ Whole(q, i, Chunks(j), there)

BeginsAssured(q, tight) ==
    \A i \in 1 .. Len(q) : q[i].type = "begin" =>
        \E j \in Jobs : q[i] = Begin(j.slot, Chunks(j)) /\ Assured(q, i, j, {}, tight)

------------------------------------------------------------------------------
\* r is what is left of q when its first datagram has been taken.
Taken(q, r) ==
    /\ Len(q) \in Nat \ {0} /\ Len(r) = Len(q) - 1
    /\ \A x \in 1 .. Len(q) - 1 : r[x] = q[x + 1]

\* A place of the path left and the one it had; a transfer that the device has
\* begun is open from before the first.
Moved(q, o, i) == o = i + 1 \/ (o = 0 /\ i = 0 /\ ~Parts(q[1]))

LEMMA TakenClear ==
    ASSUME NEW q, NEW r, NEW L \in Nat \ {0}, Len(q) = L, Taken(q, r),
           NEW i \in 0 .. L - 1, NEW o \in 0 .. L, Moved(q, o, i), NEW m \in i + 1 .. L - 1
    PROVE  /\ Clear(r, i, m) => Clear(q, o, m + 1)
           /\ Clear(q, o, m + 1) => Clear(r, i, m)
  <1>1. \A x \in 1 .. L - 1 : r[x] = q[x + 1]
    BY DEF Taken
  <1>2. ASSUME Clear(r, i, m), NEW l \in o + 1 .. (m + 1) - 1
        PROVE  ~Parts(q[l])
    <2>1. CASE o = 0 /\ i = 0 /\ ~Parts(q[1]) /\ l = 1
      BY <2>1
    <2>2. CASE ~(o = 0 /\ i = 0 /\ ~Parts(q[1]) /\ l = 1)
      <3>1. l - 1 \in i + 1 .. m - 1 /\ l - 1 \in 1 .. L - 1 /\ (l - 1) + 1 = l
        BY <2>2 DEF Moved
      <3>2. ~Parts(r[l - 1])
        BY <1>2, <3>1 DEF Clear
      <3> QED
        BY <1>1, <3>1, <3>2
    <2> QED
      BY <2>1, <2>2
  <1>3. ASSUME Clear(q, o, m + 1), NEW l \in i + 1 .. m - 1
        PROVE  ~Parts(r[l])
    <2>1. l + 1 \in o + 1 .. (m + 1) - 1 /\ l \in 1 .. L - 1
      BY DEF Moved
    <2>2. ~Parts(q[l + 1])
      BY <1>3, <2>1 DEF Clear
    <2> QED
      BY <1>1, <2>1, <2>2
  <1> QED
    BY <1>2, <1>3 DEF Clear

\* What a place was assured of it is assured of when the datagram before has gone,
\* which is there if it was a chunk.
LEMMA TakenAssured ==
    ASSUME NEW q, NEW r, NEW L \in Nat \ {0}, Len(q) = L, Taken(q, r),
           NEW i \in 0 .. L - 1, NEW o \in 0 .. L, Moved(q, o, i),
           NEW j, NEW there, NEW more, there \subseteq more, NEW tight \in BOOLEAN,
           o = 0 /\ q[1].type = "chunk" => q[1].at \in more,
           Assured(q, o, j, there, tight)
    PROVE  Assured(r, i, j, more, tight)
  <1>1. Len(r) = L - 1 /\ \A x \in 1 .. L - 1 : r[x] = q[x + 1]
    BY DEF Taken
  <1>2. Owns(r, i, j.program)
    <2> SUFFICES ASSUME NEW m \in i + 1 .. L - 1, r[m].type = "chunk", Clear(r, i, m)
                 PROVE  r[m].program = j.program
      BY <1>1 DEF Owns
    <2>1. m + 1 \in o + 1 .. L /\ m \in 1 .. L - 1
      BY DEF Moved
    <2>2. Clear(q, o, m + 1)
      BY TakenClear
    <2>3. r[m] = q[m + 1]
      BY <1>1, <2>1
    <2> QED
      BY <2>1, <2>2, <2>3 DEF Assured, Owns
  <1>3. ASSUME NEW x \in o + 1 .. L, Clear(q, o, x), o = 0 => x # 1
        PROVE  x - 1 \in i + 1 .. L - 1 /\ Clear(r, i, x - 1) /\ r[x - 1] = q[x]
    <2>1. x - 1 \in i + 1 .. L - 1 /\ x - 1 \in 1 .. L - 1 /\ (x - 1) + 1 = x
      BY <1>3 DEF Moved
    <2> QED
      BY <1>1, <1>3, <2>1, TakenClear
  <1>4. ASSUME o = 0
        PROVE  ~Parts(q[1])
    BY <1>4 DEF Moved
  <1>5. Closed(q, o) => Closed(r, i)
    <2> SUFFICES ASSUME NEW e \in o + 1 .. L, q[e].type = "end", Clear(q, o, e)
                 PROVE  Closed(r, i)
      BY DEF Closed
    <2>1. o = 0 => e # 1
      BY <1>4 DEF Parts
    <2> QED
      BY <1>1, <1>3, <2>1 DEF Closed
  <1>6. Again(q, o, j.slot) => Again(r, i, j.slot)
    <2> SUFFICES ASSUME NEW b \in o + 1 .. L, q[b].type = "begin", q[b].slot = j.slot, Clear(q, o, b)
                 PROVE  Again(r, i, j.slot)
      BY DEF Again
    <2>1. o = 0 => b # 1
      BY <1>4 DEF Parts
    <2> QED
      BY <1>1, <1>3, <2>1 DEF Again
  <1>7. Whole(q, o, Chunks(j), there) => Whole(r, i, Chunks(j), more)
    <2> SUFFICES ASSUME NEW at \in 1 .. Chunks(j), at \notin more, Coming(q, o, at)
                 PROVE  Coming(r, i, at)
      BY DEF Whole
    <2>1. PICK m \in o + 1 .. L : q[m].type = "chunk" /\ q[m].at = at /\ Clear(q, o, m)
      BY DEF Coming
    <2>2. o = 0 => m # 1
      BY <2>1
    <2> QED
      BY <1>1, <1>3, <2>1, <2>2 DEF Coming
  <1> QED
    BY <1>2, <1>5, <1>6, <1>7 DEF Assured

------------------------------------------------------------------------------
\* r is q with more sent after it, whose chunks come behind a beginning.
Sends(q, r) ==
    /\ Len(q) \in Nat /\ Len(r) \in Nat /\ Len(q) <= Len(r)
    /\ \A x \in 1 .. Len(q) : r[x] = q[x]
    /\ \A m \in Len(q) + 1 .. Len(r) :
           r[m].type = "chunk" => Len(q) + 1 < m /\ r[Len(q) + 1].type = "begin"

LEMMA SentAssured ==
    ASSUME NEW q, NEW r, Sends(q, r), NEW i \in 0 .. Len(q),
           NEW j, NEW there, NEW tight \in BOOLEAN, Assured(q, i, j, there, tight)
    PROVE  Assured(r, i, j, there, tight)
  <1>1. PICK L \in Nat, K \in Nat : L = Len(q) /\ K = Len(r) /\ L <= K
    BY DEF Sends
  <1>2. \A x \in 1 .. L : r[x] = q[x]
    BY <1>1 DEF Sends
  <1>3. ASSUME NEW m \in i + 1 .. L
        PROVE  Clear(q, i, m) <=> Clear(r, i, m)
    <2>1. \A l \in i + 1 .. m - 1 : r[l] = q[l]
      BY <1>1, <1>2
    <2> QED
      BY <2>1 DEF Clear
  <1>4. Owns(r, i, j.program)
    <2> SUFFICES ASSUME NEW m \in i + 1 .. K, r[m].type = "chunk", Clear(r, i, m)
                 PROVE  r[m].program = j.program
      BY <1>1 DEF Owns
    <2>1. CASE m <= L
      <3>1. m \in i + 1 .. L /\ m \in 1 .. L
        BY <1>1, <2>1
      <3> QED
        BY <1>1, <1>2, <1>3, <3>1 DEF Assured, Owns
    <2>2. CASE m > L
      <3>1. m \in L + 1 .. K
        BY <1>1, <2>2
      <3>2. L + 1 < m /\ r[L + 1].type = "begin"
        BY <1>1, <3>1 DEF Sends
      <3>3. L + 1 \in i + 1 .. m - 1
        BY <1>1, <3>2
      <3> QED
        BY <3>2, <3>3 DEF Clear, Parts
    <2> QED
      BY <1>1, <2>1, <2>2
  <1>5. \A m \in i + 1 .. L : m \in i + 1 .. K /\ m \in 1 .. L
    BY <1>1
  <1>6. Closed(q, i) => Closed(r, i)
    BY <1>1, <1>2, <1>3, <1>5 DEF Closed
  <1>7. Again(q, i, j.slot) => Again(r, i, j.slot)
    BY <1>1, <1>2, <1>3, <1>5 DEF Again
  <1>8. Whole(q, i, Chunks(j), there) => Whole(r, i, Chunks(j), there)
    BY <1>1, <1>2, <1>3, <1>5 DEF Whole, Coming
  <1> QED
    BY <1>4, <1>6, <1>7, <1>8 DEF Assured

------------------------------------------------------------------------------
\* A path that has failed nobody: a beginning does not come next to a datagram of
\* a transfer before it, and after an end no chunk comes without a beginning.
Apart(q) ==
    \A i \in 1 .. Len(q) :
        q[i].type \in {"begin", "chunk", "end"} => i # Len(q) /\ q[i + 1].type # "begin"
Parted(q) ==
    \A l \in 1 .. Len(q) : \A m \in l + 1 .. Len(q) :
        q[l].type = "end" /\ q[m].type = "chunk" => \E b \in l + 1 .. m - 1 : q[b].type = "begin"

\* A transfer that is open from place i of such a path: one that the device has
\* begun, or one whose beginning is there.
OpenAt(q, i, j, there) ==
    \/ i = 0
    \/ i # 0 /\ there = {} /\ q[i].type = "begin" /\ q[i].slot = j.slot

\* Where it ends.
EndsAt(q, i, e) == q[e].type = "end" /\ Clear(q, i, e)

\* Its end is on the path, after its own chunks and no others.
RunsToEnd(q, i, j, there) ==
    \E e \in i + 1 .. Len(q) :
        /\ EndsAt(q, i, e)
        /\ i # 0 => e # i + 1
        /\ \A m \in i + 1 .. Len(q) : q[m].type = "chunk" /\ m < e => q[m].program = j.program
        /\ \A at \in 1 .. Chunks(j) : at \notin there =>
               \E m \in i + 1 .. e - 1 : q[m].type = "chunk" /\ q[m].at = at

LEMMA FlawlessTransfer ==
    ASSUME NEW q, NEW L \in Nat, Len(q) = L, NEW i \in 0 .. L, NEW j \in Jobs, NEW there,
           OpenAt(q, i, j, there), Assured(q, i, j, there, TRUE)
    PROVE  RunsToEnd(q, i, j, there)
  <1>1. PICK e \in i + 1 .. L : q[e].type = "end" /\ Clear(q, i, e)
    BY DEF Assured, Closed
  <1>2. ASSUME NEW m \in i + 1 .. L, q[m].type = "chunk", m < e
        PROVE  q[m].program = j.program
    <2>1. Clear(q, i, m)
      BY <1>1, <1>2 DEF Clear
    <2> QED
      BY <1>2, <2>1 DEF Assured, Owns
  <1>3. ASSUME NEW at \in 1 .. Chunks(j), at \notin there
        PROVE  \E m \in i + 1 .. e - 1 : q[m].type = "chunk" /\ q[m].at = at
    <2>1. PICK m \in i + 1 .. L : q[m].type = "chunk" /\ q[m].at = at /\ Clear(q, i, m)
      BY <1>3 DEF Assured, Whole, Coming
    <2>2. m # e
      BY <1>1, <2>1
    <2>3. ~(e < m)
      <3>1. e < m => e \in i + 1 .. m - 1
        OBVIOUS
      <3> QED
        BY <1>1, <2>1, <3>1 DEF Clear, Parts
    <2> QED
      BY <2>1, <2>2, <2>3
  <1>4. i # 0 => e # i + 1
    <2> SUFFICES ASSUME i # 0, e = i + 1 PROVE FALSE
      OBVIOUS
    <2>1. there = {} /\ 1 \in 1 .. Chunks(j)
      BY JobType DEF OpenAt
    <2>2. PICK m \in i + 1 .. e - 1 : q[m].type = "chunk"
      BY <1>3, <2>1
    <2> QED
      BY <2>2
  <1> QED
    BY <1>1, <1>2, <1>3, <1>4 DEF RunsToEnd, EndsAt

\* r is q without its l-th datagram, with it twice, and with the next before it.
Lost(q, r, l) ==
    /\ l \in 1 .. Len(q) /\ Len(r) = Len(q) - 1
    /\ \A x \in 1 .. Len(q) - 1 : r[x] = IF x < l THEN q[x] ELSE q[x + 1]
Repeated(q, r, l) ==
    /\ l \in 1 .. Len(q) /\ Len(r) = Len(q) + 1
    /\ \A x \in 1 .. Len(q) + 1 : r[x] = IF x <= l THEN q[x] ELSE q[x - 1]
Swapped(q, r, l) ==
    /\ l \in 1 .. Len(q) - 1 /\ Len(r) = Len(q)
    /\ \A x \in 1 .. Len(q) : r[x] = IF x = l THEN q[l + 1] ELSE IF x = l + 1 THEN q[l] ELSE q[x]

LEMMA LostAssured ==
    ASSUME NEW q, NEW r, NEW L \in Nat, Len(q) = L, NEW l, Lost(q, r, l), Parted(q),
           NEW i \in 0 .. L - 1, NEW o \in 0 .. L, o = IF i < l THEN i ELSE i + 1,
           NEW j \in Jobs, NEW there, OpenAt(q, o, j, there), Assured(q, o, j, there, TRUE)
    PROVE  Assured(r, i, j, there, FALSE)
  <1>0. RunsToEnd(q, o, j, there)
    BY FlawlessTransfer
  <1>1. PICK e \in o + 1 .. L :
            /\ EndsAt(q, o, e)
            /\ \A m \in o + 1 .. L : q[m].type = "chunk" /\ m < e => q[m].program = j.program
            /\ \A at \in 1 .. Chunks(j) : at \notin there =>
                   \E m \in o + 1 .. e - 1 : q[m].type = "chunk" /\ q[m].at = at
    BY <1>0 DEF RunsToEnd
  <1>2. /\ l \in 1 .. L /\ Len(r) = L - 1
        /\ \A x \in 1 .. L - 1 : r[x] = IF x < l THEN q[x] ELSE q[x + 1]
    BY DEF Lost
  <1>3. q[e].type = "end" /\ \A x \in o + 1 .. e - 1 : ~Parts(q[x])
    BY <1>1 DEF EndsAt, Clear
  <1>4. Owns(r, i, j.program)
    <2> SUFFICES ASSUME NEW k \in i + 1 .. L - 1, r[k].type = "chunk", Clear(r, i, k)
                 PROVE  r[k].program = j.program
      BY <1>2 DEF Owns
    <2>a. PICK m \in Nat : m = IF k < l THEN k ELSE k + 1
      OBVIOUS
    <2>b. m \in o + 1 .. L /\ k \in 1 .. L - 1
      BY <1>2, <2>a
    <2>1. r[k] = q[m]
      BY <1>2, <2>a, <2>b
    <2>2. CASE m < e
      BY <1>1, <2>1, <2>2, <2>b
    <2>3. m # e
      BY <1>3, <2>1
    <2>4. CASE e < m /\ e # l
      <3>1. PICK d \in Int : d = IF e < l THEN e ELSE e - 1
        OBVIOUS
      <3>2. d \in i + 1 .. k - 1 /\ d \in 1 .. L - 1
        BY <1>2, <2>a, <2>b, <2>4, <3>1
      <3>3. r[d] = q[e]
        BY <1>2, <2>4, <3>1, <3>2
      <3> QED
        BY <1>3, <3>2, <3>3 DEF Clear, Parts
    <2>5. CASE e < m /\ e = l
      <3>1. PICK b \in e + 1 .. m - 1 : q[b].type = "begin"
        <4>1. e \in 1 .. L /\ m \in e + 1 .. L /\ q[m].type = "chunk"
          BY <2>1, <2>5, <2>b
        <4> QED
          BY <1>3, <4>1 DEF Parted
      <3>2. b - 1 \in i + 1 .. k - 1 /\ b - 1 \in 1 .. L - 1 /\ ~(b - 1 < l) /\ (b - 1) + 1 = b
        BY <1>2, <2>a, <2>b, <2>5
      <3>3. r[b - 1] = q[b]
        BY <1>2, <3>2
      <3> QED
        BY <3>1, <3>2, <3>3 DEF Clear, Parts
    <2> QED
      BY <2>2, <2>3, <2>4, <2>5, <2>b
  <1>5. CASE e # l
    <2>1. PICK d \in i + 1 .. L - 1 : d = IF e < l THEN e ELSE e - 1
      BY <1>2, <1>5
    <2>2. r[d].type = "end"
      BY <1>2, <1>3, <1>5, <2>1
    <2>3. ASSUME NEW x \in i + 1 .. d - 1
          PROVE  ~Parts(r[x])
      <3>1. PICK y \in o + 1 .. e - 1 : y = (IF x < l THEN x ELSE x + 1) /\ r[x] = q[y]
        BY <1>2, <1>5, <2>1
      <3> QED
        BY <1>3, <3>1
    <2>4. Closed(r, i)
      BY <1>2, <2>2, <2>3 DEF Closed, Clear
    <2> QED
      BY <1>4, <2>4 DEF Assured
  <1>6. CASE e = l
    <2>1. o = i /\ i < l
      BY <1>2, <1>6
    <2>2. ASSUME NEW at \in 1 .. Chunks(j), at \notin there
          PROVE  Coming(r, i, at)
      <3>1. PICK m \in o + 1 .. e - 1 : q[m].type = "chunk" /\ q[m].at = at
        BY <1>1, <2>2
      <3>2. \A x \in i + 1 .. l - 1 : r[x] = q[x]
        BY <1>2
      <3>3. m \in i + 1 .. L - 1 /\ r[m] = q[m]
        BY <1>2, <1>6, <2>1, <3>1, <3>2
      <3>4. Clear(r, i, m)
        BY <1>3, <1>6, <2>1, <3>2 DEF Clear
      <3> QED
        BY <1>2, <3>1, <3>3, <3>4 DEF Coming
    <2>3. Whole(r, i, Chunks(j), there)
      BY <2>2 DEF Whole
    <2> QED
      BY <1>4, <2>3 DEF Assured
  <1> QED
    BY <1>5, <1>6

LEMMA RepeatedAssured ==
    ASSUME NEW q, NEW r, NEW L \in Nat, Len(q) = L, NEW l, Repeated(q, r, l),
           NEW i \in 0 .. L + 1, NEW o \in 0 .. L, o = IF i <= l THEN i ELSE i - 1,
           NEW j \in Jobs, NEW there, OpenAt(q, o, j, there), Assured(q, o, j, there, TRUE)
    PROVE  Assured(r, i, j, there, FALSE)
  <1>0. RunsToEnd(q, o, j, there)
    BY FlawlessTransfer
  <1>1. PICK e \in o + 1 .. L :
            /\ EndsAt(q, o, e)
            /\ \A m \in o + 1 .. L : q[m].type = "chunk" /\ m < e => q[m].program = j.program
    BY <1>0 DEF RunsToEnd
  <1>2. /\ l \in 1 .. L /\ Len(r) = L + 1
        /\ \A x \in 1 .. L + 1 : r[x] = IF x <= l THEN q[x] ELSE q[x - 1]
    BY DEF Repeated
  <1>3. q[e].type = "end" /\ \A x \in o + 1 .. e - 1 : ~Parts(q[x])
    BY <1>1 DEF EndsAt, Clear
  <1>a. PICK d \in Nat : d = IF e <= l THEN e ELSE e + 1
    OBVIOUS
  <1>b. d \in i + 1 .. L + 1 /\ d \in 1 .. L + 1
    BY <1>2, <1>a
  <1>4. r[d] = q[e]
    <2>1. r[d] = IF d <= l THEN q[d] ELSE q[d - 1]
      BY <1>2, <1>b
    <2>2. CASE e <= l
      <3>1. d = e /\ d <= l
        BY <1>a, <2>2
      <3> QED
        BY <2>1, <3>1
    <2>3. CASE ~(e <= l)
      <3>1. ~(d <= l) /\ d - 1 = e
        BY <1>2, <1>a, <2>3
      <3> QED
        BY <2>1, <3>1
    <2> QED
      BY <2>2, <2>3
  <1>5. Owns(r, i, j.program)
    <2> SUFFICES ASSUME NEW k \in i + 1 .. L + 1, r[k].type = "chunk", Clear(r, i, k)
                 PROVE  r[k].program = j.program
      BY <1>2 DEF Owns
    <2>a. PICK m \in Nat : m = IF k <= l THEN k ELSE k - 1
      OBVIOUS
    <2>b. m \in o .. L /\ k \in 1 .. L + 1
      BY <1>2, <2>a
    <2>1. r[k] = q[m]
      BY <1>2, <2>a, <2>b
    <2>2. m # o
      <3>1. m = o => o # 0
        BY <1>2, <2>a
      <3> QED
        BY <2>1, <3>1 DEF OpenAt
    <2>3. CASE m < e
      BY <1>1, <2>1, <2>2, <2>3, <2>b
    <2>4. m # e
      BY <1>3, <2>1
    <2>5. CASE e < m
      <3>1. d \in i + 1 .. k - 1
        BY <1>2, <1>a, <1>b, <2>a, <2>b, <2>5
      <3> QED
        BY <1>3, <1>4, <3>1 DEF Clear, Parts
    <2> QED
      BY <2>3, <2>4, <2>5, <2>b
  <1>6. CASE i = l
    <2>1. o = l /\ o # 0
      BY <1>2, <1>6
    <2>2. q[l].type = "begin" /\ q[l].slot = j.slot
      BY <2>1 DEF OpenAt
    <2>3. l + 1 \in i + 1 .. L + 1 /\ r[l + 1] = q[l]
      <3>1. l + 1 \in 1 .. L + 1 /\ ~(l + 1 <= l) /\ (l + 1) - 1 = l
        BY <1>2
      <3> QED
        BY <1>2, <1>6, <3>1
    <2>4. Clear(r, i, l + 1)
      BY <1>2, <1>6 DEF Clear
    <2>5. Again(r, i, j.slot)
      BY <1>2, <2>2, <2>3, <2>4 DEF Again
    <2> QED
      BY <1>5, <2>5 DEF Assured
  <1>7. CASE i # l
    <2>1. ASSUME NEW x \in i + 1 .. d - 1
          PROVE  ~Parts(r[x])
      <3>1. PICK y \in o + 1 .. e - 1 : y = (IF x <= l THEN x ELSE x - 1) /\ r[x] = q[y]
        BY <1>2, <1>a, <1>b, <1>7
      <3> QED
        BY <1>3, <3>1
    <2>2. Closed(r, i)
      BY <1>2, <1>3, <1>4, <1>b, <2>1 DEF Closed, Clear
    <2> QED
      BY <1>5, <2>2 DEF Assured
  <1> QED
    BY <1>6, <1>7

\* Where the datagram at place x was before places l and l + 1 were swapped.
SwapPlace(x, l) == IF x = l THEN l + 1 ELSE IF x = l + 1 THEN l ELSE x

LEMMA SwapPlaces ==
    ASSUME NEW l \in Nat, NEW x \in Nat, NEW y \in Nat
    PROVE  /\ SwapPlace(x, l) \in Nat /\ SwapPlace(SwapPlace(x, l), l) = x
           /\ x < y => SwapPlace(x, l) < SwapPlace(y, l) \/ (x = l /\ y = l + 1)
           /\ x \notin {l, l + 1} => SwapPlace(x, l) = x
  BY DEF SwapPlace

LEMMA SwappedAssured ==
    ASSUME NEW q, NEW r, NEW L \in Nat, Len(q) = L, NEW l \in Nat, Swapped(q, r, l),
           Apart(q), Parted(q), NEW i \in 0 .. L, NEW o \in 0 .. L, o = SwapPlace(i, l),
           NEW j \in Jobs, NEW there, OpenAt(q, o, j, there), Assured(q, o, j, there, TRUE)
    PROVE  Assured(r, i, j, there, FALSE)
  <1>0. RunsToEnd(q, o, j, there)
    BY FlawlessTransfer
  <1>1. PICK e \in o + 1 .. L :
            /\ EndsAt(q, o, e)
            /\ o # 0 => e # o + 1
            /\ \A m \in o + 1 .. L : q[m].type = "chunk" /\ m < e => q[m].program = j.program
    BY <1>0 DEF RunsToEnd
  <1>2. l \in 1 .. L - 1 /\ Len(r) = L /\ \A x \in 1 .. L : r[x] = q[SwapPlace(x, l)]
    BY DEF Swapped, SwapPlace
  <1>3. q[e].type = "end" /\ \A x \in o + 1 .. e - 1 : ~Parts(q[x])
    BY <1>1 DEF EndsAt, Clear
  <1>4. SwapPlace(o, l) = i
    BY SwapPlaces
  <1>5. \A x \in 1 .. L : SwapPlace(x, l) \in 1 .. L
    BY <1>2 DEF SwapPlace
  \* The datagram that was before a beginning is none of a transfer.
  <1>6. ASSUME o = l + 1
        PROVE  q[l].type \notin {"begin", "chunk", "end"}
    <2>1. q[l + 1].type = "begin"
      BY <1>2, <1>6 DEF OpenAt
    <2> QED
      BY <1>2, <2>1 DEF Apart
  \* Only that one can have come behind the place from before it.
  <1>7. ASSUME NEW x \in i + 1 .. L
        PROVE  SwapPlace(x, l) \in o + 1 .. L \/ (SwapPlace(x, l) = l /\ o = l + 1)
    <2>1. x \in Nat /\ i \in Nat /\ i < x /\ x \in 1 .. L
      OBVIOUS
    <2>2. o < SwapPlace(x, l) \/ (i = l /\ x = l + 1)
      BY <2>1, SwapPlaces
    <2>3. i = l /\ x = l + 1 => o = l + 1 /\ SwapPlace(x, l) = l
      BY DEF SwapPlace
    <2> QED
      BY <1>5, <2>1, <2>2, <2>3
  <1>8. PICK d \in Nat : d = SwapPlace(e, l)
    <2>1. e \in Nat
      OBVIOUS
    <2> QED
      BY <2>1, SwapPlaces
  <1>9. d \in i + 1 .. L /\ d \in 1 .. L
    <2>1. o \in Nat /\ e \in Nat /\ o < e /\ e \in 1 .. L
      OBVIOUS
    <2>2. i < d \/ (o = l /\ e = l + 1)
      BY <1>4, <1>8, <2>1, SwapPlaces
    <2>3. ~(o = l /\ e = l + 1)
      BY <1>1, <1>2
    <2> QED
      BY <1>5, <1>8, <2>1, <2>2, <2>3
  <1>10. r[d] = q[e]
    <2>1. e \in Nat
      OBVIOUS
    <2>2. SwapPlace(d, l) = e
      BY <1>8, <2>1, SwapPlaces
    <2> QED
      BY <1>2, <1>9, <2>2
  <1>11. Owns(r, i, j.program)
    <2> SUFFICES ASSUME NEW k \in i + 1 .. L, r[k].type = "chunk", Clear(r, i, k)
                 PROVE  r[k].program = j.program
      BY <1>2 DEF Owns
    <2>0. k \in Nat
      OBVIOUS
    <2>1. PICK m \in Nat : m = SwapPlace(k, l)
      BY <2>0, SwapPlaces
    <2>2. r[k] = q[m] /\ k \in 1 .. L
      BY <1>2, <2>1
    <2>3. m \in o + 1 .. L
      BY <1>6, <1>7, <2>1, <2>2
    <2>4. m # e
      BY <1>3, <2>2
    <2>5. ~(e < m)
      <3> SUFFICES ASSUME e < m PROVE FALSE
        OBVIOUS
      <3>1. d < k \/ (e = l /\ m = l + 1)
        <4>1. SwapPlace(m, l) = k /\ e \in Nat
          BY <2>1, SwapPlaces
        <4> QED
          BY <1>8, <4>1, SwapPlaces
      <3>2. ~(e = l /\ m = l + 1)
        <4> SUFFICES ASSUME e = l, m = l + 1 PROVE FALSE
          OBVIOUS
        <4>1. l \in 1 .. Len(q) /\ m \in l + 1 .. Len(q) /\ l + 1 .. m - 1 = {}
          BY <1>2
        <4> QED
          BY <1>3, <2>2, <4>1 DEF Parted
      <3>3. d \in i + 1 .. k - 1
        BY <1>9, <3>1, <3>2
      <3> QED
        BY <1>3, <1>10, <3>3 DEF Clear, Parts
    <2> QED
      BY <1>1, <2>2, <2>3, <2>4, <2>5
  <1>12. CASE e = l
    <2>1. q[l + 1].type # "begin"
      BY <1>2, <1>3, <1>12 DEF Apart
    <2>2. o = i /\ i < l
      BY <1>2, <1>12 DEF SwapPlace
    <2>3. r[l] = q[l + 1] /\ r[l + 1] = q[l]
      BY <1>2 DEF SwapPlace
    <2>4. \A x \in i + 1 .. l - 1 : ~Parts(r[x])
      <3> SUFFICES ASSUME NEW x \in i + 1 .. l - 1 PROVE ~Parts(r[x])
        OBVIOUS
      <3>1. r[x] = q[x] /\ x \in o + 1 .. e - 1
        BY <1>2, <1>12, <2>2 DEF SwapPlace
      <3> QED
        BY <1>3, <3>1
    <2>5. CASE q[l + 1].type = "end"
      <3>1. l \in i + 1 .. L /\ r[l].type = "end" /\ Clear(r, i, l)
        BY <1>2, <2>2, <2>3, <2>4, <2>5 DEF Clear
      <3> QED
        BY <1>2, <1>11, <3>1 DEF Closed, Assured
    <2>6. CASE q[l + 1].type # "end"
      <3>1. \A x \in i + 1 .. (l + 1) - 1 : ~Parts(r[x])
        BY <2>1, <2>3, <2>4, <2>6 DEF Parts
      <3>2. l + 1 \in i + 1 .. L
        BY <1>2, <2>2
      <3> QED
        <4>1. r[l + 1].type = "end" /\ Clear(r, i, l + 1)
          BY <1>3, <1>12, <2>3, <3>1 DEF Clear
        <4> QED
          BY <1>2, <1>11, <3>2, <4>1 DEF Closed, Assured
    <2> QED
      BY <2>5, <2>6
  <1>13. CASE e # l
    <2> SUFFICES ASSUME NEW x \in i + 1 .. d - 1 PROVE ~Parts(r[x])
      <3>1. r[d].type = "end" /\ ((\A x \in i + 1 .. d - 1 : ~Parts(r[x])) => Clear(r, i, d))
        BY <1>3, <1>10 DEF Clear
      <3>2. (\A x \in i + 1 .. d - 1 : ~Parts(r[x])) => Closed(r, i)
        BY <1>2, <1>9, <3>1 DEF Closed
      <3> QED
        BY <1>11, <3>2 DEF Assured
    <2>0. x \in Nat
      BY <1>9
    <2>1. PICK y \in Nat : y = SwapPlace(x, l)
      BY <2>0, SwapPlaces
    <2>2. r[x] = q[y] /\ x \in 1 .. L /\ x \in i + 1 .. L
      BY <1>2, <1>9, <2>1
    <2>3. CASE y = l /\ o = l + 1
      BY <1>6, <2>2, <2>3 DEF Parts
    <2>4. CASE y \in o + 1 .. L
      <3>0. e \in Nat /\ x < d
        BY <1>9
      <3>1. SwapPlace(d, l) = e
        BY <1>8, <3>0, SwapPlaces
      <3>2. y < e \/ (x = l /\ d = l + 1)
        <4>1. d \in Nat /\ SwapPlace(d, l) = e
          BY <3>1
        <4>2. SwapPlace(x, l) < SwapPlace(d, l) \/ (x = l /\ d = l + 1)
          BY <2>0, <3>0, <4>1, SwapPlaces
        <4> QED
          BY <2>1, <4>1, <4>2
      <3>3. d = l + 1 => e = l
        BY <3>1 DEF SwapPlace
      <3>4. y \in o + 1 .. e - 1
        BY <1>13, <2>4, <3>2, <3>3
      <3> QED
        BY <1>3, <2>2, <3>4
    <2> QED
      BY <1>7, <2>1, <2>2, <2>3, <2>4
  <1> QED
    BY <1>12, <1>13

------------------------------------------------------------------------------
\* r is what a fault makes of q.
Failed(q, r) == \E l \in 1 .. Len(q) : Lost(q, r, l) \/ Repeated(q, r, l) \/ Swapped(q, r, l)

LEMMA FaultIsOne ==
    ASSUME PathTyped, Fault
    PROVE  Failed(toDevice, toDevice')
  <1>1. PICK q \in Seq(Sent), L \in Nat : q = toDevice /\ L = Len(q)
    BY LenProperties DEF PathTyped
  <1>a. Len(q) = L /\ DOMAIN q = 1 .. L /\ L <= L
    BY <1>1, LenProperties
  <1>2. PICK r : r = toDevice'
    OBVIOUS
  <1>3. CASE Lose
    <2>1. PICK l \in 1 .. L : r = SubSeq(q, 1, l - 1) \o SubSeq(q, l + 1, L)
      BY <1>1, <1>2, <1>3, <1>a DEF Lose, Without
    <2>2. PICK a \in Seq(Sent), b \in Seq(Sent) :
              a = SubSeq(q, 1, l - 1) /\ b = SubSeq(q, l + 1, L)
      <3>1. l - 1 \in Nat /\ l + 1 \in Nat /\ l - 1 <= L /\ 1 <= l + 1
        OBVIOUS
      <3>2. SubSeq(q, 1, l - 1) \in Seq(Sent)
        BY <1>a, <3>1, PartOfPath
      <3>3. SubSeq(q, l + 1, L) \in Seq(Sent)
        BY <1>a, <3>1, PartOfPath
      <3> QED
        BY <3>2, <3>3
    <2>3. Len(a) = l - 1 /\ \A x \in 1 .. l - 1 : a[x] = q[x]
      BY <1>1, <2>2
    <2>4. Len(b) = L - l /\ \A x \in 1 .. L - l : b[x] = q[l + x]
      BY <1>1, <2>2
    <2>5. Joins(Sent, r, a, b)
      BY <2>1, <2>2, Joined
    <2>6. /\ Len(r) = L - 1
          /\ \A x \in 1 .. l - 1 : r[x] = a[x]
          /\ \A x \in 1 .. L - l : r[(l - 1) + x] = b[x]
      BY <2>3, <2>4, <2>5 DEF Joins
    <2>7. ASSUME NEW x \in 1 .. L - 1
          PROVE  r[x] = IF x < l THEN q[x] ELSE q[x + 1]
      <3>1. CASE x < l
        <4>1. x \in 1 .. l - 1
          BY <3>1
        <4> QED
          BY <2>3, <2>6, <3>1, <4>1
      <3>2. CASE ~(x < l)
        <4>1. PICK y \in 1 .. L - l : y = x - (l - 1)
          BY <3>2
        <4>2. (l - 1) + y = x /\ l + y = x + 1
          BY <4>1
        <4> QED
          BY <2>4, <2>6, <3>2, <4>2
      <3> QED
        BY <3>1, <3>2
    <2> QED
      BY <1>1, <1>2, <2>6, <2>7 DEF Failed, Lost
  <1>4. CASE Repeat
    <2>1. PICK l \in 1 .. L : r = SubSeq(q, 1, l) \o SubSeq(q, l, L)
      BY <1>1, <1>2, <1>4, <1>a DEF Repeat
    <2>2. PICK a \in Seq(Sent), b \in Seq(Sent) :
              a = SubSeq(q, 1, l) /\ b = SubSeq(q, l, L)
      <3>1. SubSeq(q, 1, l) \in Seq(Sent)
        BY <1>a, PartOfPath
      <3>2. SubSeq(q, l, L) \in Seq(Sent)
        BY <1>a, PartOfPath
      <3> QED
        BY <3>1, <3>2
    <2>3. Len(a) = l /\ \A x \in 1 .. l : a[x] = q[x]
      BY <1>1, <2>2
    <2>4. Len(b) = L - l + 1 /\ \A x \in 1 .. L - l + 1 : b[x] = q[(l - 1) + x]
      BY <1>1, <2>2
    <2>5. Joins(Sent, r, a, b)
      BY <2>1, <2>2, Joined
    <2>6. /\ Len(r) = L + 1
          /\ \A x \in 1 .. l : r[x] = a[x]
          /\ \A x \in 1 .. L - l + 1 : r[l + x] = b[x]
      BY <2>3, <2>4, <2>5 DEF Joins
    <2>7. ASSUME NEW x \in 1 .. L + 1
          PROVE  r[x] = IF x <= l THEN q[x] ELSE q[x - 1]
      <3>1. CASE x <= l
        <4>1. x \in 1 .. l
          BY <3>1
        <4> QED
          BY <2>3, <2>6, <3>1, <4>1
      <3>2. CASE ~(x <= l)
        <4>1. PICK y \in 1 .. L - l + 1 : y = x - l
          BY <3>2
        <4>2. l + y = x /\ (l - 1) + y = x - 1
          BY <4>1
        <4> QED
          BY <2>4, <2>6, <3>2, <4>2
      <3> QED
        BY <3>1, <3>2
    <2> QED
      BY <1>1, <1>2, <2>6, <2>7 DEF Failed, Repeated
  <1>5. CASE Swap
    <2>1. PICK l \in 1 .. L - 1 : r = [q EXCEPT ![l] = q[l + 1], ![l + 1] = q[l]]
      BY <1>1, <1>2, <1>5 DEF Swap
    <2>2. Len(r) = L /\ DOMAIN q = 1 .. L
      BY <1>1, <2>1
    <2>3. \A x \in 1 .. L : r[x] = IF x = l THEN q[l + 1] ELSE IF x = l + 1 THEN q[l] ELSE q[x]
      BY <2>1, <2>2
    <2>4. l \in 1 .. L
      OBVIOUS
    <2> QED
      BY <1>1, <1>2, <2>2, <2>3, <2>4 DEF Failed, Swapped
  <1> QED
    BY <1>3, <1>4, <1>5 DEF Fault

------------------------------------------------------------------------------
\* A path whose transfers are all assured of what they need; while it has failed
\* nobody they are apart.
PathAssured(q, tight) == BeginsAssured(q, tight) /\ (tight => Apart(q) /\ Parted(q))

\* What the transfer that the device has open was assured of it is assured of.
StaysOpen(q, r, tight, after) ==
    \A j \in Jobs : \A there \in SUBSET Nat :
        Assured(q, 0, j, there, tight) => Assured(r, 0, j, there, after)

LEMMA FailedAssured ==
    ASSUME NEW q, NEW r, NEW L \in Nat, Len(q) = L, Failed(q, r), PathAssured(q, TRUE)
    PROVE  PathAssured(r, FALSE) /\ StaysOpen(q, r, TRUE, FALSE)
  <1>1. PICK l \in 1 .. L : Lost(q, r, l) \/ Repeated(q, r, l) \/ Swapped(q, r, l)
    BY DEF Failed
  <1>2. l \in Nat /\ Apart(q) /\ Parted(q)
    BY DEF PathAssured
  \* It is enough to look at a transfer by itself, at its place in either path.
  <1>3. ASSUME NEW K \in Nat, Len(r) = K, NEW place \in [0 .. K -> 0 .. L], place[0] = 0,
               \A i \in 1 .. K : place[i] # 0 /\ r[i] = q[place[i]],
               \A i \in 0 .. K : \A j \in Jobs : \A there :
                   OpenAt(q, place[i], j, there) /\ Assured(q, place[i], j, there, TRUE)
                       => Assured(r, i, j, there, FALSE)
        PROVE  PathAssured(r, FALSE) /\ StaysOpen(q, r, TRUE, FALSE)
    <2>1. ASSUME NEW i \in 1 .. K, r[i].type = "begin"
          PROVE  \E j \in Jobs : r[i] = Begin(j.slot, Chunks(j)) /\ Assured(r, i, j, {}, FALSE)
      <3>1. PICK o \in 1 .. L : o = place[i] /\ o # 0 /\ r[i] = q[o]
        BY <1>3
      <3>2. PICK j \in Jobs : q[o] = Begin(j.slot, Chunks(j)) /\ Assured(q, o, j, {}, TRUE)
        BY <2>1, <3>1 DEF PathAssured, BeginsAssured
      <3>3. OpenAt(q, o, j, {})
        BY <3>1, <3>2 DEF OpenAt, Begin
      <3>4. i \in 0 .. K
        OBVIOUS
      <3>5. Assured(r, i, j, {}, FALSE)
        BY <1>3, <3>1, <3>2, <3>3, <3>4
      <3> QED
        BY <3>1, <3>2, <3>5
    <2>2. ASSUME NEW j \in Jobs, NEW there \in SUBSET Nat, Assured(q, 0, j, there, TRUE)
          PROVE  Assured(r, 0, j, there, FALSE)
      <3>1. 0 \in 0 .. K /\ OpenAt(q, 0, j, there)
        BY DEF OpenAt
      <3> QED
        BY <1>3, <2>2, <3>1
    <2> QED
      BY <1>3, <2>1, <2>2 DEF PathAssured, BeginsAssured, StaysOpen
  <1>4. CASE Lost(q, r, l)
    <2>1. L - 1 \in Nat /\ Len(r) = L - 1
          /\ \A x \in 1 .. L - 1 : r[x] = IF x < l THEN q[x] ELSE q[x + 1]
      BY <1>4 DEF Lost
    <2>2. PICK place : place = [i \in 0 .. L - 1 |-> IF i < l THEN i ELSE i + 1]
      OBVIOUS
    <2>3. place \in [0 .. L - 1 -> 0 .. L] /\ place[0] = 0
      BY <2>2
    <2>4. \A i \in 1 .. L - 1 : place[i] # 0 /\ r[i] = q[place[i]]
      BY <2>1, <2>2
    <2>5. ASSUME NEW i \in 0 .. L - 1, NEW j \in Jobs, NEW there,
                 OpenAt(q, place[i], j, there), Assured(q, place[i], j, there, TRUE)
          PROVE  Assured(r, i, j, there, FALSE)
      <3>1. PICK o \in 0 .. L : o = place[i] /\ o = IF i < l THEN i ELSE i + 1
        BY <2>2
      <3> QED
        BY <1>2, <1>4, <2>5, <3>1, LostAssured
    <2> QED
      BY <1>3, <2>1, <2>3, <2>4, <2>5
  <1>5. CASE Repeated(q, r, l)
    <2>1. L + 1 \in Nat /\ Len(r) = L + 1
          /\ \A x \in 1 .. L + 1 : r[x] = IF x <= l THEN q[x] ELSE q[x - 1]
      BY <1>5 DEF Repeated
    <2>2. PICK place : place = [i \in 0 .. L + 1 |-> IF i <= l THEN i ELSE i - 1]
      OBVIOUS
    <2>3. place \in [0 .. L + 1 -> 0 .. L] /\ place[0] = 0
      BY <2>2
    <2>4. \A i \in 1 .. L + 1 : place[i] # 0 /\ r[i] = q[place[i]]
      BY <2>1, <2>2
    <2>5. ASSUME NEW i \in 0 .. L + 1, NEW j \in Jobs, NEW there,
                 OpenAt(q, place[i], j, there), Assured(q, place[i], j, there, TRUE)
          PROVE  Assured(r, i, j, there, FALSE)
      <3>1. PICK o \in 0 .. L : o = place[i] /\ o = IF i <= l THEN i ELSE i - 1
        BY <2>2
      <3> QED
        BY <1>2, <1>5, <2>5, <3>1, RepeatedAssured
    <2> QED
      BY <1>3, <2>1, <2>3, <2>4, <2>5
  <1>6. CASE Swapped(q, r, l)
    <2>1. /\ l \in 1 .. L - 1 /\ Len(r) = L
          /\ \A x \in 1 .. L : r[x] = q[SwapPlace(x, l)]
      BY <1>6 DEF Swapped, SwapPlace
    <2>2. PICK place : place = [i \in 0 .. L |-> SwapPlace(i, l)]
      OBVIOUS
    <2>3. place \in [0 .. L -> 0 .. L] /\ place[0] = 0
      BY <2>1, <2>2 DEF SwapPlace
    <2>4. \A i \in 1 .. L : place[i] # 0 /\ r[i] = q[place[i]]
      BY <2>1, <2>2 DEF SwapPlace
    <2>5. ASSUME NEW i \in 0 .. L, NEW j \in Jobs, NEW there,
                 OpenAt(q, place[i], j, there), Assured(q, place[i], j, there, TRUE)
          PROVE  Assured(r, i, j, there, FALSE)
      <3>1. PICK o \in 0 .. L : o = place[i] /\ o = SwapPlace(i, l)
        BY <2>2, <2>3
      <3> QED
        BY <1>2, <1>6, <2>5, <3>1, SwappedAssured
    <2> QED
      BY <1>3, <2>1, <2>3, <2>4, <2>5
  <1> QED
    BY <1>1, <1>4, <1>5, <1>6

\* The device takes the first datagram, and what is left is as it was.
LEMMA TakenPath ==
    ASSUME NEW q, NEW r, NEW L \in Nat \ {0}, Len(q) = L, Taken(q, r),
           NEW tight \in BOOLEAN, PathAssured(q, tight)
    PROVE  PathAssured(r, tight)
  <1>1. Len(r) = L - 1 /\ \A x \in 1 .. L - 1 : r[x] = q[x + 1] /\ x + 1 \in 1 .. L
    BY DEF Taken
  <1>2. ASSUME NEW i \in 1 .. L - 1, r[i].type = "begin"
        PROVE  \E j \in Jobs : r[i] = Begin(j.slot, Chunks(j)) /\ Assured(r, i, j, {}, tight)
    <2>1. PICK o \in 1 .. L : o = i + 1 /\ r[i] = q[o]
      BY <1>1
    <2>2. PICK j \in Jobs : q[o] = Begin(j.slot, Chunks(j)) /\ Assured(q, o, j, {}, tight)
      BY <1>2, <2>1 DEF PathAssured, BeginsAssured
    <2>3. i \in 0 .. L - 1 /\ o \in 0 .. L /\ Moved(q, o, i) /\ o # 0
      BY <2>1 DEF Moved
    <2>4. Assured(r, i, j, {}, tight)
      BY <2>2, <2>3, TakenAssured
    <2> QED
      BY <2>1, <2>2, <2>4
  <1>3. ASSUME tight, NEW i \in 1 .. L - 1, r[i].type \in {"begin", "chunk", "end"}
        PROVE  i # L - 1 /\ r[i + 1].type # "begin"
    <2>1. i + 1 # L /\ q[(i + 1) + 1].type # "begin"
      BY <1>1, <1>3 DEF PathAssured, Apart
    <2>2. i + 1 \in 1 .. L - 1 /\ i # L - 1
      BY <2>1
    <2> QED
      BY <1>1, <2>1, <2>2
  <1>4. ASSUME tight, NEW l \in 1 .. L - 1, NEW m \in l + 1 .. L - 1,
               r[l].type = "end", r[m].type = "chunk"
        PROVE  \E b \in l + 1 .. m - 1 : r[b].type = "begin"
    <2>1. /\ l + 1 \in 1 .. L /\ m \in 1 .. L - 1 /\ m + 1 \in (l + 1) + 1 .. L
          /\ r[l] = q[l + 1] /\ r[m] = q[m + 1]
      BY <1>1
    <2>2. PICK b \in (l + 1) + 1 .. (m + 1) - 1 : q[b].type = "begin"
      <3>1. Parted(q) /\ q[l + 1].type = "end" /\ q[m + 1].type = "chunk"
        BY <1>4, <2>1 DEF PathAssured
      <3> QED
        BY <2>1, <3>1 DEF Parted
    <2>3. b - 1 \in l + 1 .. m - 1 /\ b - 1 \in 1 .. L - 1 /\ (b - 1) + 1 = b
      OBVIOUS
    <2>4. r[b - 1] = q[b]
      BY <1>1, <2>3
    <2> QED
      BY <2>2, <2>3, <2>4
  <1>5. BeginsAssured(r, tight)
    BY <1>1, <1>2 DEF BeginsAssured
  <1>6. tight => Apart(r)
    BY <1>1, <1>3 DEF Apart
  <1>7. tight => Parted(r)
    BY <1>1, <1>4 DEF Parted
  <1> QED
    BY <1>5, <1>6, <1>7 DEF PathAssured

------------------------------------------------------------------------------
\* What is sent after a path: a removal, or the script of a job.
More(q, r, tight) ==
    r \in Seq(Sent) /\ PathAssured(r, tight) /\ StaysOpen(q, r, tight, tight)

LEMMA OffSent ==
    ASSUME NEW q \in Seq(Sent), NEW tight \in BOOLEAN, PathAssured(q, tight),
           NEW r, r = Append(q, Off)
    PROVE  More(q, r, tight)
  <1>1. PICK L \in Nat : L = Len(q)
    BY LenProperties
  <1>2. /\ r \in Seq(Sent) /\ Len(r) = L + 1 /\ r[L + 1] = Off
        /\ \A i \in 1 .. L : r[i] = q[i]
    BY <1>1, ScriptsTyped, AppendProperties
  <1>3. Off.type = "pop"
    BY DEF Off, Pop
  <1>4. Sends(q, r)
    <2>1. \A m \in L + 1 .. L + 1 : r[m].type # "chunk"
      BY <1>2, <1>3
    <2> QED
      BY <1>1, <1>2, <2>1 DEF Sends
  <1>5. ASSUME NEW i \in 1 .. L + 1, r[i].type = "begin"
        PROVE  \E j \in Jobs : r[i] = Begin(j.slot, Chunks(j)) /\ Assured(r, i, j, {}, tight)
    <2>1. i \in 1 .. L /\ i \in 0 .. L /\ r[i] = q[i]
      BY <1>2, <1>3, <1>5
    <2>2. PICK j \in Jobs : q[i] = Begin(j.slot, Chunks(j)) /\ Assured(q, i, j, {}, tight)
      BY <1>1, <1>5, <2>1 DEF PathAssured, BeginsAssured
    <2> QED
      BY <1>1, <1>4, <2>1, <2>2, SentAssured
  <1>6. ASSUME tight, NEW i \in 1 .. L + 1, r[i].type \in {"begin", "chunk", "end"}
        PROVE  i # L + 1 /\ r[i + 1].type # "begin"
    <2>1. i \in 1 .. L /\ r[i] = q[i]
      BY <1>2, <1>3, <1>6
    <2>2. i # L /\ q[i + 1].type # "begin"
      BY <1>1, <1>6, <2>1 DEF PathAssured, Apart
    <2>3. i + 1 \in 1 .. L
      BY <2>1, <2>2
    <2> QED
      BY <1>2, <2>1, <2>2, <2>3
  <1>7. ASSUME tight, NEW l \in 1 .. L + 1, NEW m \in l + 1 .. L + 1,
               r[l].type = "end", r[m].type = "chunk"
        PROVE  \E b \in l + 1 .. m - 1 : r[b].type = "begin"
    <2>1. m # L + 1
      BY <1>2, <1>3, <1>7
    <2>2. l \in 1 .. L /\ m \in l + 1 .. L /\ m \in 1 .. L
      BY <2>1
    <2>3. PICK b \in l + 1 .. m - 1 : q[b].type = "begin"
      BY <1>1, <1>2, <1>7, <2>2 DEF PathAssured, Parted
    <2>4. b \in 1 .. L
      BY <2>2
    <2> QED
      BY <1>2, <2>3, <2>4
  <1>8. StaysOpen(q, r, tight, tight)
    <2>1. 0 \in 0 .. L
      OBVIOUS
    <2> QED
      BY <1>1, <1>4, <2>1, SentAssured DEF StaysOpen
  <1>9. BeginsAssured(r, tight)
    BY <1>2, <1>5 DEF BeginsAssured
  <1>10. tight => Apart(r)
    BY <1>2, <1>6 DEF Apart
  <1>11. tight => Parted(r)
    BY <1>2, <1>7 DEF Parted
  <1> QED
    BY <1>2, <1>8, <1>9, <1>10, <1>11 DEF More, PathAssured

LEMMA ScriptSent ==
    ASSUME NEW q \in Seq(Sent), NEW tight \in BOOLEAN, PathAssured(q, tight),
           NEW j \in Jobs, NEW r, r = q \o Script(j)
    PROVE  More(q, r, tight)
  <1> DEFINE s == Script(j)
  <1>1. PICK n \in Nat \ {0} : n = Chunks(j)
    BY JobType
  <1>2. /\ s \in Seq(Sent) /\ Len(s) = n + 3 /\ s[1] = Begin(j.slot, n)
        /\ \A i \in 1 .. n : s[i + 1] = Chunk(j.program, i)
        /\ s[n + 2] = End /\ s[n + 3] = Push(j.source)
    BY <1>1, ScriptShape
  <1>3. Joins(Sent, r, q, s)
    BY <1>2, Joined
  <1> HIDE DEF s
  <1>4. PICK L \in Nat : L = Len(q)
    BY <1>3 DEF Joins
  <1>5. /\ r \in Seq(Sent) /\ Len(r) = L + (n + 3)
        /\ \A i \in 1 .. L : r[i] = q[i]
        /\ \A k \in 1 .. n + 3 : r[L + k] = s[k]
    BY <1>2, <1>3, <1>4 DEF Joins
  <1>6. /\ r[L + 1] = Begin(j.slot, n) /\ r[L + 1].type = "begin"
        /\ r[L + (n + 2)] = End /\ r[L + (n + 2)].type = "end"
        /\ r[L + (n + 3)].type = "push"
    <2>1. 1 \in 1 .. n + 3 /\ n + 2 \in 1 .. n + 3 /\ n + 3 \in 1 .. n + 3
      OBVIOUS
    <2>2. r[L + 1] = s[1] /\ r[L + (n + 2)] = s[n + 2] /\ r[L + (n + 3)] = s[n + 3]
      BY <1>5, <2>1
    <2>3. r[L + 1] = Begin(j.slot, n) /\ r[L + (n + 2)] = End /\ r[L + (n + 3)] = Push(j.source)
      BY <1>2, <2>2
    <2> QED
      BY <2>3 DEF Begin, End, Push
  <1>7. ASSUME NEW i \in 1 .. n
        PROVE  /\ r[L + (i + 1)].type = "chunk" /\ r[L + (i + 1)].program = j.program
               /\ r[L + (i + 1)].at = i
    <2>1. i + 1 \in 1 .. n + 3
      OBVIOUS
    <2>2. r[L + (i + 1)] = Chunk(j.program, i)
      BY <1>2, <1>5, <2>1
    <2> QED
      BY <2>2 DEF Chunk
  \* The places of the path: the old ones and those of the script.
  <1>8. ASSUME NEW x \in 1 .. L + (n + 3)
        PROVE  \/ x \in 1 .. L
               \/ x = L + 1 \/ x = L + (n + 2) \/ x = L + (n + 3)
               \/ \E i \in 1 .. n : x = L + (i + 1)
    <2>1. CASE x - L \in 2 .. n + 1
      <3>1. (x - L) - 1 \in 1 .. n /\ x = L + (((x - L) - 1) + 1)
        BY <2>1
      <3> QED
        BY <3>1
    <2> QED
      BY <2>1
  <1>9. Sends(q, r)
    <2>1. ASSUME NEW m \in L + 1 .. L + (n + 3), r[m].type = "chunk"
          PROVE  L + 1 < m
      <3>1. m # L + 1
        BY <1>6, <2>1
      <3> QED
        BY <3>1
    <2>2. L <= L + (n + 3) /\ L + (n + 3) \in Nat
      OBVIOUS
    <2> QED
      BY <1>4, <1>5, <1>6, <2>1, <2>2 DEF Sends
  <1>10. Assured(r, L + 1, j, {}, tight)
    <2>1. ASSUME NEW m \in (L + 1) + 1 .. L + (n + 3)
          PROVE  /\ r[m].type # "begin"
                 /\ r[m].type = "end" => m = L + (n + 2)
                 /\ r[m].type = "chunk" => r[m].program = j.program
      <3>1. m \in 1 .. L + (n + 3) /\ m \notin 1 .. L /\ m # L + 1
        OBVIOUS
      <3>2. m = L + (n + 2) \/ m = L + (n + 3) \/ \E i \in 1 .. n : m = L + (i + 1)
        BY <1>8, <3>1
      <3>3. CASE m = L + (n + 2) \/ m = L + (n + 3)
        BY <1>6, <3>3
      <3>4. CASE \E i \in 1 .. n : m = L + (i + 1)
        BY <1>7, <3>4
      <3> QED
        BY <3>2, <3>3, <3>4
    <2>2. \A m \in (L + 1) + 1 .. L + (n + 2) : Clear(r, L + 1, m)
      <3> SUFFICES ASSUME NEW m \in (L + 1) + 1 .. L + (n + 2), NEW l \in (L + 1) + 1 .. m - 1
                   PROVE  ~Parts(r[l])
        BY DEF Clear
      <3>1. l \in (L + 1) + 1 .. L + (n + 3) /\ l # L + (n + 2)
        OBVIOUS
      <3> QED
        BY <2>1, <3>1 DEF Parts
    <2>3. Owns(r, L + 1, j.program)
      BY <1>5, <2>1 DEF Owns
    <2>4. Closed(r, L + 1)
      <3>1. L + (n + 2) \in (L + 1) + 1 .. L + (n + 3) /\ L + (n + 2) \in (L + 1) + 1 .. L + (n + 2)
        OBVIOUS
      <3> QED
        BY <1>5, <1>6, <2>2, <3>1 DEF Closed
    <2>5. Whole(r, L + 1, n, {})
      <3> SUFFICES ASSUME NEW at \in 1 .. n PROVE Coming(r, L + 1, at)
        BY DEF Whole
      <3>1. /\ L + (at + 1) \in (L + 1) + 1 .. L + (n + 3)
            /\ L + (at + 1) \in (L + 1) + 1 .. L + (n + 2)
        OBVIOUS
      <3> QED
        BY <1>5, <1>7, <2>2, <3>1 DEF Coming
    <2> QED
      BY <1>1, <2>3, <2>4, <2>5 DEF Assured
  <1>11. ASSUME NEW i \in 1 .. L + (n + 3), r[i].type = "begin"
         PROVE  \E k \in Jobs : r[i] = Begin(k.slot, Chunks(k)) /\ Assured(r, i, k, {}, tight)
    <2>1. CASE i \in 1 .. L
      <3>1. i \in 0 .. L /\ r[i] = q[i]
        BY <1>5, <2>1
      <3>2. PICK k \in Jobs : q[i] = Begin(k.slot, Chunks(k)) /\ Assured(q, i, k, {}, tight)
        BY <1>4, <1>11, <2>1, <3>1 DEF PathAssured, BeginsAssured
      <3> QED
        BY <1>4, <1>9, <3>1, <3>2, SentAssured
    <2>2. CASE i = L + 1
      BY <1>1, <1>6, <1>10, <2>2
    <2> QED
      BY <1>6, <1>7, <1>8, <1>11, <2>1, <2>2
  <1>12. ASSUME tight, NEW i \in 1 .. L + (n + 3), r[i].type \in {"begin", "chunk", "end"}
         PROVE  i # L + (n + 3) /\ r[i + 1].type # "begin"
    <2>1. i # L + (n + 3)
      BY <1>6, <1>12
    <2>2. CASE i \in 1 .. L
      <3>1. r[i] = q[i]
        BY <1>5, <2>2
      <3>2. i # L /\ q[i + 1].type # "begin"
        BY <1>4, <1>12, <2>2, <3>1 DEF PathAssured, Apart
      <3>3. i + 1 \in 1 .. L
        BY <2>2, <3>2
      <3> QED
        BY <1>5, <2>1, <3>2, <3>3
    <2>3. CASE i \notin 1 .. L
      <3>1. i + 1 \in 1 .. L + (n + 3) /\ i + 1 \notin 1 .. L /\ i + 1 # L + 1
        BY <2>1, <2>3
      <3>2. \/ i + 1 = L + (n + 2) \/ i + 1 = L + (n + 3)
            \/ \E k \in 1 .. n : i + 1 = L + (k + 1)
        BY <1>8, <3>1
      <3> QED
        BY <1>6, <1>7, <2>1, <3>2
    <2> QED
      BY <2>2, <2>3
  <1>13. ASSUME tight, NEW l \in 1 .. L + (n + 3), NEW m \in l + 1 .. L + (n + 3),
                r[l].type = "end", r[m].type = "chunk"
         PROVE  \E b \in l + 1 .. m - 1 : r[b].type = "begin"
    <2>1. CASE m \in 1 .. L
      <3>1. l \in 1 .. L /\ m \in l + 1 .. L
        BY <2>1
      <3>2. PICK b \in l + 1 .. m - 1 : q[b].type = "begin"
        BY <1>4, <1>5, <1>13, <2>1, <3>1 DEF PathAssured, Parted
      <3>3. b \in 1 .. L
        BY <2>1
      <3> QED
        BY <1>5, <3>2, <3>3
    <2>2. CASE m \notin 1 .. L
      <3>0. m \in 1 .. L + (n + 3)
        OBVIOUS
      <3>1. PICK i \in 1 .. n : m = L + (i + 1)
        BY <1>6, <1>8, <1>13, <2>2, <3>0
      <3>2. l \in 1 .. L
        <4>1. l # L + 1 /\ l # L + (n + 3)
          BY <1>6, <1>13
        <4>2. l # L + (n + 2)
          BY <3>1
        <4>3. \A k \in 1 .. n : l # L + (k + 1)
          BY <1>7, <1>13
        <4> QED
          BY <1>8, <4>1, <4>2, <4>3
      <3>3. L + 1 \in l + 1 .. m - 1
        BY <3>1, <3>2
      <3> QED
        BY <1>6, <3>3
    <2> QED
      BY <2>1, <2>2
  <1>14. StaysOpen(q, r, tight, tight)
    <2>1. 0 \in 0 .. L
      OBVIOUS
    <2> QED
      BY <1>4, <1>9, <2>1, SentAssured DEF StaysOpen
  <1>15. BeginsAssured(r, tight)
    BY <1>5, <1>11 DEF BeginsAssured
  <1>16. tight => Apart(r)
    BY <1>5, <1>12 DEF Apart
  <1>17. tight => Parted(r)
    <2>1. Len(r) = L + (n + 3)
      BY <1>5
    <2>2. ASSUME tight, NEW l \in 1 .. Len(r), NEW m \in l + 1 .. Len(r),
                 r[l].type = "end", r[m].type = "chunk"
          PROVE  \E b \in l + 1 .. m - 1 : r[b].type = "begin"
      <3>1. l \in 1 .. L + (n + 3) /\ m \in l + 1 .. L + (n + 3)
        BY <2>1
      <3> QED
        BY <1>13, <2>2, <3>1
    <2> QED
      BY <2>2 DEF Parted
  <1> QED
    BY <1>5, <1>14, <1>15, <1>16, <1>17 DEF More, PathAssured

LEMMA MoreTwice ==
    ASSUME NEW q, NEW r, NEW t, NEW tight \in BOOLEAN, More(q, r, tight), More(r, t, tight)
    PROVE  More(q, t, tight)
  BY DEF More, StaysOpen

\* Whatever the peer sends.
LEMMA PeerSends ==
    ASSUME PathTyped, NEW tight \in BOOLEAN, PathAssured(toDevice, tight),
           \/ toDevice' = toDevice \o ShowScript
           \/ toDevice' = toDevice \o AlertScript
           \/ toDevice' = Append(toDevice, Off)
    PROVE  More(toDevice, toDevice', tight)
  <1>1. PICK q \in Seq(Sent) : q = toDevice /\ PathAssured(q, tight)
    BY DEF PathTyped
  <1>2. PICK r : r = toDevice'
    OBVIOUS
  <1>3. ASSUME NEW j \in Jobs, r = q \o Script(j)
        PROVE  More(q, r, tight)
    BY <1>1, <1>3, ScriptSent
  <1>4. ASSUME r = q \o ShowScript PROVE More(q, r, tight)
    <2>1. CASE ~split
      <3>1. PICK j \in Jobs : ShowScript = Script(j)
        BY <2>1, Scripts
      <3> QED
        BY <1>3, <1>4, <3>1
    <2>2. CASE split
      <3>1. PICK j \in Jobs, k \in Jobs : ShowScript = Script(j) \o Script(k)
        BY <2>2, Scripts
      <3>2. PICK s \in Seq(Sent), t \in Seq(Sent) : s = Script(j) /\ t = Script(k)
        BY ScriptShape
      <3>3. r = (q \o s) \o t
        <4>1. r = q \o (s \o t)
          BY <1>4, <3>1, <3>2
        <4>2. q \o (s \o t) = (q \o s) \o t
          BY ConcatAssociative
        <4> QED
          BY <4>1, <4>2
      <3>4. PICK p : p = q \o Script(j)
        OBVIOUS
      <3>5. More(q, p, tight)
        BY <1>1, <3>4, ScriptSent
      <3>6. p \in Seq(Sent) /\ PathAssured(p, tight)
        BY <3>5 DEF More
      <3>7. More(p, r, tight)
        BY <3>2, <3>3, <3>4, <3>6, ScriptSent
      <3> QED
        BY <3>5, <3>7, MoreTwice
    <2> QED
      BY <2>1, <2>2
  <1>5. ASSUME r = q \o AlertScript PROVE More(q, r, tight)
    <2>1. PICK j \in Jobs : AlertScript = Script(j)
      BY Scripts
    <2> QED
      BY <1>3, <1>5, <2>1
  <1>6. ASSUME r = Append(q, Off) PROVE More(q, r, tight)
    BY <1>1, <1>6, OffSent
  <1> QED
    BY <1>1, <1>2, <1>4, <1>5, <1>6

------------------------------------------------------------------------------
\* Every program that the peer sends fits a slot, and the parser takes nothing with a
\* hole in it for a program.
AllFit == \A p \in {Play, Other, Alert} : Size[p] <= MAX_PROGRAM
Gapless == \A image \in Torn : \A i \in DOMAIN image : image[i] # Zero

\* The chunks of job j that its slot has.
There(j) == {at \in 1 .. Chunks(j) : slots[j.slot][at] = j.program}

\* The device is filling the slot of job j, with chunks of its program and no others,
\* and the path has what the transfer needs.
FillingFor(j) ==
    /\ filling = j.slot /\ expected_len = Chunks(j)
    /\ \A at \in 1 .. MAX_PROGRAM : slots[j.slot][at] \in {Zero, j.program}
    /\ Assured(toDevice, 0, j, There(j), faults = 0)
FillingOK == filling # None => \E j \in Jobs : FillingFor(j)

LEMMA JobFits ==
    ASSUME AllFit, NEW j \in Jobs
    PROVE  Chunks(j) <= MAX_PROGRAM /\ Chunks(j) \in 1 .. MAX_PROGRAM
  <1>1. j.program \in {Play, Other, Alert}
    BY DEF Jobs, Job
  <1> QED
    BY <1>1, JobType, NodeAssumption DEF AllFit, Chunks

\* Where no datagram is taken and the transfer is not touched.
LEMMA FillingKept ==
    ASSUME FillingOK, UNCHANGED <<transfer, split>>, faults \in Nat, faults' \in Nat,
           StaysOpen(toDevice, toDevice', faults = 0, faults' = 0)
    PROVE  FillingOK'
  <1>1. Jobs' = Jobs
    BY JobsStay
  <1>2. ASSUME NEW j \in Jobs, FillingFor(j)
        PROVE  FillingFor(j)'
    <2>1. There(j) \in SUBSET Nat /\ There(j)' = There(j)
      <3>1. \A at \in 1 .. Chunks(j) : at \in Nat
        BY JobType
      <3> QED
        BY <3>1 DEF There, transfer, Chunks
    <2>2. PICK there : there = There(j)
      OBVIOUS
    <2>3. Assured(toDevice', 0, j, there, faults' = 0)
      BY <1>2, <2>1, <2>2 DEF FillingFor, StaysOpen
    <2>4. Assured(toDevice, 0, j, There(j), faults = 0)'
      BY <2>1, <2>2, <2>3
    <2> QED
      BY <1>2, <2>4 DEF FillingFor, transfer, Chunks
  <1> QED
    BY <1>1, <1>2 DEF FillingOK, transfer

\* All the chunks are there: as many have arrived as were declared.
LEMMA AllThere ==
    ASSUME SlotInv, AllFit, NEW j \in Jobs, filling = j.slot, expected_len = Chunks(j),
           \A at \in 1 .. Chunks(j) : slots[j.slot][at] = j.program
    PROVE  /\ slot_len[j.slot] = Chunks(j)
           /\ Image(j.slot) = WholeImage(j.program) /\ IsWhole(Image(j.slot))
  <1>1. j.slot \in Slot /\ j.slot # None /\ j.program \in Programs /\ j.program # Zero
    BY JobType, NodeAssumption DEF Slot
  <1>2. PICK n \in 1 .. MAX_PROGRAM : n = Chunks(j)
    BY JobFits
  <1>3. PICK k \in Nat : k = slot_len[j.slot] /\ k <= n
    BY <1>1, <1>2 DEF SlotInv, TypeOK, NoStaleBytes
  <1>4. ~(k < n)
    <2> SUFFICES ASSUME k < n PROVE FALSE
      OBVIOUS
    <2>1. n \in k + 1 .. MAX_PROGRAM /\ n \in 1 .. n
      BY NodeAssumption
    <2>2. slots[j.slot][n] = Zero
      BY <1>1, <1>3, <2>1 DEF SlotInv, NoStaleBytes
    <2> QED
      BY <1>1, <1>2, <2>1, <2>2
  <1>5. slot_len[j.slot] = Chunks(j)
    BY <1>2, <1>3, <1>4
  <1> QED
    BY <1>5, WholeArrived

------------------------------------------------------------------------------
\* What has been taken, and what is left of what the path assured.
LEMMA TakesTaken ==
    ASSUME PathTyped, Takes
    PROVE  /\ Taken(toDevice, toDevice') /\ Len(toDevice) \in Nat \ {0}
           /\ toDevice[1] \in Sent /\ 1 \in 1 .. Len(toDevice)
  BY WhatIsLeft DEF Taken

\* A datagram that parts nothing goes by, if a transfer is open.
LEMMA PassedBy ==
    ASSUME PathTyped, Takes, NEW j \in Jobs, NEW there, NEW more, there \subseteq more,
           NEW tight \in BOOLEAN, ~Parts(toDevice[1]),
           toDevice[1].type = "chunk" => toDevice[1].at \in more,
           Assured(toDevice, 0, j, there, tight)
    PROVE  Assured(toDevice', 0, j, more, tight)
  <1>1. PICK L \in Nat \ {0} : L = Len(toDevice)
    BY TakesTaken
  <1>2. 0 \in 0 .. L - 1 /\ 0 \in 0 .. L /\ Moved(toDevice, 0, 0)
    BY DEF Moved
  <1> QED
    BY <1>1, <1>2, TakesTaken, TakenAssured

LEMMA LoosePasses ==
    ASSUME PathTyped, Takes, FillingOK, faults \in Nat, UNCHANGED faults,
           toDevice[1].type \in {"push", "pop"}
    PROVE  FillingOK' /\ StoreStep
  <1>1. UNCHANGED transfer /\ UNCHANGED split
    BY DEF Takes, Receive, SrcPush, SrcPop
  <1>2. ASSUME NEW j \in Jobs, NEW there \in SUBSET Nat, Assured(toDevice, 0, j, there, faults = 0)
        PROVE  Assured(toDevice', 0, j, there, faults = 0)
    <2>1. ~Parts(toDevice[1]) /\ toDevice[1].type # "chunk"
      BY DEF Parts
    <2>2. PICK tight \in BOOLEAN : tight = (faults = 0)
      OBVIOUS
    <2>3. Assured(toDevice', 0, j, there, tight)
      BY <1>2, <2>1, <2>2, PassedBy
    <2> QED
      BY <2>2, <2>3
  <1>3. StaysOpen(toDevice, toDevice', faults = 0, faults' = 0)
    BY <1>2 DEF StaysOpen
  <1> QED
    BY <1>1, <1>3, FillingKept, SlotsKept

LEMMA LooseChunk ==
    ASSUME SlotInv, AllFit, PathTyped, Takes, FillingOK, UNCHANGED faults, faults \in Nat,
           toDevice[1].type = "chunk"
    PROVE  FillingOK' /\ StoreStep
  <1>1. PICK p \in Programs, at \in Nat :
            /\ p = toDevice[1].program /\ at = toDevice[1].at /\ at \in 1 .. Size[p]
    <2>1. toDevice[1].program \in Programs /\ toDevice[1].at \in 1 .. Size[toDevice[1].program]
      BY TakesTaken, Kinds
    <2>2. Size[toDevice[1].program] \in Nat
      BY <2>1, NodeAssumption
    <2> QED
      BY <2>1, <2>2
  <1>2. ProgChunk(p, at) /\ UNCHANGED split
    BY <1>1 DEF Takes, Receive
  <1>3. CASE filling = None
    <2>1. UNCHANGED transfer
      BY <1>2, <1>3 DEF ProgChunk
    <2> QED
      BY <1>3, <2>1, SlotsKept DEF FillingOK, transfer
  <1>4. CASE filling # None
    <2>1. PICK j \in Jobs : FillingFor(j)
      BY <1>4 DEF FillingOK
    <2>2. PICK n \in 1 .. MAX_PROGRAM : n = Chunks(j)
      BY JobFits
    <2>3. j.slot \in Slot /\ j.slot # None /\ j.program \in Programs
      BY JobType, NodeAssumption DEF Slot
    <2>4. p = j.program /\ at \in 1 .. n
      <3>1. Clear(toDevice, 0, 1)
        BY DEF Clear
      <3>2. 1 \in 0 + 1 .. Len(toDevice)
        BY TakesTaken
      <3>3. p = j.program
        BY <1>1, <2>1, <3>1, <3>2 DEF FillingFor, Assured, Owns
      <3> QED
        BY <1>1, <2>2, <3>3 DEF Chunks
    <2>5. ~(at > expected_len \/ at > MAX_PROGRAM) /\ at \in 1 .. MAX_PROGRAM
      BY <2>1, <2>2, <2>4, NodeAssumption DEF FillingFor
    <2>6. /\ slots' = [slots EXCEPT ![filling][at] = p]
          /\ slot_len' = [slot_len EXCEPT ![filling] = IF at > @ THEN at ELSE @]
          /\ UNCHANGED <<filling, expected_len, last_filled>>
      BY <1>2, <1>4, <2>5 DEF ProgChunk
    <2>7. PICK b \in Buffer : b = slots[j.slot]
      <3>1. Len(slots[j.slot]) = MAX_PROGRAM
        BY <1>4, <2>1 DEF SlotInv, SlicesInBounds, FillingFor
      <3> QED
        BY <2>3, <3>1, SlotIsSequence DEF SlotInv
    <2>8. slots'[j.slot] = [b EXCEPT ![at] = j.program]
      BY <2>1, <2>3, <2>4, <2>6, <2>7 DEF SlotInv, TypeOK, FillingFor
    <2>9. \A x \in 1 .. MAX_PROGRAM : slots'[j.slot][x] = IF x = at THEN j.program ELSE slots[j.slot][x]
      BY <2>5, <2>7, <2>8 DEF Buffer
    <2>10. \A x \in 1 .. MAX_PROGRAM : slots'[j.slot][x] \in {Zero, j.program}
      BY <2>1, <2>9 DEF FillingFor
    <2>11. There(j) \subseteq There(j)' /\ at \in There(j)'
      <3>1. \A x \in 1 .. n : x \in 1 .. MAX_PROGRAM
        BY NodeAssumption
      <3> QED
        BY <2>2, <2>4, <2>9, <3>1 DEF There, Chunks
    <2>12. Assured(toDevice', 0, j, There(j)', faults = 0)
      <3>1. ~Parts(toDevice[1])
        BY DEF Parts
      <3>2. PICK tight \in BOOLEAN : tight = (faults = 0)
        OBVIOUS
      <3>3. Assured(toDevice', 0, j, There(j)', tight)
        BY <1>1, <2>1, <2>11, <3>1, <3>2, PassedBy DEF FillingFor
      <3> QED
        BY <3>2, <3>3
    <2>13. FillingFor(j)'
      BY <2>1, <2>6, <2>10, <2>12 DEF FillingFor, Chunks
    <2>14. ASSUME NEW s \in Slot
           PROVE  Holds(s)' = Holds(s)
      <3>1. CASE s = j.slot
        BY <2>1, <2>6, <3>1 DEF Holds, FillingFor
      <3>2. CASE s # j.slot
        <4>1. slots'[s] = slots[s] /\ slot_len'[s] = slot_len[s] /\ s # None
          BY <2>1, <2>6, <3>2, NodeAssumption DEF SlotInv, TypeOK, Slot, FillingFor
        <4> QED
          BY <2>1, <2>6, <3>2, <4>1, OthersKept DEF FillingFor
      <3> QED
        BY <3>1, <3>2
    <2> QED
      BY <1>2, <2>13, <2>14, JobsStay DEF FillingOK, StoreStep
  <1> QED
    BY <1>3, <1>4

\* Up to a datagram that parts it from the next a transfer has had all it needs, if it
\* is not its end or its slot's beginning.
LEMMA HadItAll ==
    ASSUME NEW q, NEW L \in Nat \ {0}, Len(q) = L, q[1].type = "begin",
           NEW j \in Jobs, q[1].slot # j.slot, NEW there, NEW tight \in BOOLEAN,
           Assured(q, 0, j, there, tight)
    PROVE  \A at \in 1 .. Chunks(j) : at \in there
  <1>1. ASSUME NEW m \in 0 + 1 .. L, Clear(q, 0, m)
        PROVE  m = 1
    <2> SUFFICES ASSUME m # 1 PROVE FALSE
      OBVIOUS
    <2>1. 1 \in 0 + 1 .. m - 1
      OBVIOUS
    <2> QED
      BY <1>1, <2>1 DEF Clear, Parts
  <1>2. ~Closed(q, 0) /\ ~Again(q, 0, j.slot)
    BY <1>1 DEF Closed, Again
  <1>3. \A at \in 1 .. Chunks(j) : ~Coming(q, 0, at)
    BY <1>1 DEF Coming
  <1> QED
    BY <1>2, <1>3 DEF Assured, Whole

LEMMA LooseBegin ==
    ASSUME SlotInv, AllFit, PathTyped, Takes, FillingOK, UNCHANGED faults, faults \in Nat,
           PathAssured(toDevice, faults = 0), toDevice[1].type = "begin"
    PROVE  FillingOK' /\ StoreStep
  <1>1. PICK j \in Jobs : /\ toDevice[1] = Begin(j.slot, Chunks(j))
                          /\ Assured(toDevice, 1, j, {}, faults = 0)
    BY TakesTaken DEF PathAssured, BeginsAssured
  <1>2. PICK n \in 1 .. MAX_PROGRAM : n = Chunks(j)
    BY JobFits
  <1>3. j.slot \in Slot /\ j.slot < SLOTS /\ j.slot # None /\ ~(n > MAX_PROGRAM)
    BY JobType, NodeAssumption DEF Slot
  <1>4. ProgBegin(j.slot, n) /\ UNCHANGED split
    BY <1>1, <1>2 DEF Takes, Receive, Begin
  <1>5. /\ slots' = [slots EXCEPT ![j.slot] = [i \in 1 .. MAX_PROGRAM |-> Zero]]
        /\ slot_len' = [slot_len EXCEPT ![j.slot] = 0]
        /\ filling' = j.slot /\ expected_len' = n
    BY <1>3, <1>4 DEF ProgBegin
  <1>6. slots'[j.slot] = [i \in 1 .. MAX_PROGRAM |-> Zero]
    BY <1>3, <1>5 DEF SlotInv, TypeOK
  <1>7. Assured(toDevice', 0, j, There(j)', faults = 0)
    <2>1. PICK L \in Nat \ {0} : L = Len(toDevice)
      BY TakesTaken
    <2>2. PICK tight \in BOOLEAN : tight = (faults = 0)
      OBVIOUS
    <2>3. 0 \in 0 .. L - 1 /\ 1 \in 0 .. L /\ Moved(toDevice, 1, 0) /\ 1 # 0
      BY DEF Moved
    <2>4. Assured(toDevice', 0, j, There(j)', tight)
      BY <1>1, <2>1, <2>2, <2>3, TakesTaken, TakenAssured
    <2> QED
      BY <2>2, <2>4
  <1>8. FillingFor(j)'
    BY <1>2, <1>5, <1>6, <1>7 DEF FillingFor, Chunks
  <1>9. ASSUME NEW s \in Slot
        PROVE  \/ Holds(s)' = Holds(s)
               \/ Holds(s)' = Empty
               \/ Holds(s) = Empty /\ \E k \in Jobs : k.slot = s /\ Holds(s)' = WholeImage(k.program)
    <2>1. CASE s = j.slot
      BY <1>5, <2>1 DEF Holds
    <2>2. CASE s # j.slot
      <3>1. slots'[s] = slots[s] /\ slot_len'[s] = slot_len[s] /\ s # None
        BY <1>5, <2>2, NodeAssumption DEF SlotInv, TypeOK, Slot
      <3>2. Holds(s)' = Image(s)
        BY <1>5, <2>2, <3>1 DEF Holds, Image
      <3>3. CASE s # filling
        BY <3>2, <3>3 DEF Holds
      <3>4. CASE s = filling
        <4>1. PICK k \in Jobs : FillingFor(k)
          BY <3>1, <3>4 DEF FillingOK
        <4>2. k.slot = s /\ toDevice[1].slot # k.slot
          BY <1>1, <2>2, <3>4, <4>1 DEF FillingFor, Begin
        <4>3. \A at \in 1 .. Chunks(k) : at \in There(k)
          <5>1. PICK L \in Nat \ {0} : L = Len(toDevice)
            BY TakesTaken
          <5>2. PICK tight \in BOOLEAN : tight = (faults = 0)
            OBVIOUS
          <5>3. Assured(toDevice, 0, k, There(k), tight)
            BY <4>1, <5>2 DEF FillingFor
          <5> QED
            BY <4>2, <5>1, <5>3, HadItAll
        <4>4. Image(s) = WholeImage(k.program)
          <5>1. \A at \in 1 .. Chunks(k) : slots[k.slot][at] = k.program
            BY <4>3 DEF There
          <5> QED
            BY <4>1, <4>2, <5>1, AllThere DEF FillingFor
        <4> QED
          BY <3>2, <3>4, <4>2, <4>4 DEF Holds
      <3> QED
        BY <3>3, <3>4
    <2> QED
      BY <2>1, <2>2
  <1> QED
    BY <1>4, <1>8, <1>9, JobsStay DEF FillingOK, StoreStep

\* An image of one program's chunks that is accepted is the whole of it.
LEMMA AcceptedIsWhole ==
    ASSUME SlotInv, AllFit, Gapless, NEW j \in Jobs, filling = j.slot, filling # None,
           \A at \in 1 .. MAX_PROGRAM : slots[j.slot][at] \in {Zero, j.program},
           slot_len[j.slot] = Chunks(j), Parses(Image(j.slot))
    PROVE  \A at \in 1 .. Chunks(j) : slots[j.slot][at] = j.program
  <1>1. PICK n \in 1 .. MAX_PROGRAM : n = Chunks(j)
    BY JobFits
  <1>2. j.slot \in Slot /\ n \in Nat
    BY JobType, NodeAssumption
  <1>3. PICK b : b = slots[j.slot] /\ b \in Seq(Cell) /\ n <= Len(b)
    BY <1>1, <1>2, SlotIsSequence DEF SlotInv, SlicesInBounds
  <1>4. PICK m : m = SubSeq(b, 1, n) /\ Image(j.slot) = m
    BY <1>1, <1>3 DEF Image
  <1>5. m \in Seq(Cell) /\ Len(m) = n /\ \A i \in 1 .. n : m[i] = b[i]
    BY <1>2, <1>3, <1>4
  <1>6. DOMAIN m = 1 .. n
    BY <1>5, LenProperties
  <1>7. ASSUME NEW i \in 1 .. n
        PROVE  m[i] # Zero
    <2>1. CASE IsWhole(m)
      <3>1. PICK p \in Programs : \A k \in 1 .. Len(m) : m[k] = p
        BY <2>1 DEF IsWhole
      <3> QED
        BY <1>5, <3>1, NodeAssumption
    <2>2. CASE m \in Torn
      BY <1>6, <2>2 DEF Gapless
    <2> QED
      BY <1>4, <2>1, <2>2 DEF Parses
  <1>8. \A i \in 1 .. n : i \in 1 .. MAX_PROGRAM
    BY NodeAssumption
  <1> QED
    BY <1>1, <1>3, <1>5, <1>7, <1>8

LEMMA LooseEnd ==
    ASSUME SlotInv, AllFit, Gapless, PathTyped, Takes, FillingOK, toDevice[1].type = "end"
    PROVE  FillingOK' /\ StoreStep
  <1>1. ProgEnd
    BY DEF Takes, Receive
  <1>2. CASE filling = None
    <2>1. UNCHANGED transfer
      BY <1>1, <1>2 DEF ProgEnd
    <2> QED
      BY <1>2, <2>1, SlotsKept DEF FillingOK, transfer
  <1>3. CASE filling # None
    <2>1. PICK j \in Jobs : FillingFor(j)
      BY <1>3 DEF FillingOK
    <2>2. j.slot \in Slot /\ filling = j.slot /\ Holds(j.slot) = Empty
      BY <2>1, JobType DEF FillingFor, Holds
    <2>3. filling' = None /\ UNCHANGED slots
      BY <1>1, <1>3 DEF ProgEnd
    <2>4. FillingOK'
      BY <2>3 DEF FillingOK
    <2>5. ASSUME NEW s \in Slot, s # j.slot
          PROVE  Holds(s)' = Holds(s)
      <3>1. s # None
        BY NodeAssumption DEF Slot
      <3>2. slot_len'[s] = slot_len[s]
        BY <1>1, <1>3, <2>2, <2>5 DEF ProgEnd, SlotInv, TypeOK
      <3> QED
        BY <2>2, <2>3, <2>5, <3>1, <3>2, OthersKept
    <2>6. CASE slot_len[filling] = expected_len /\ Parses(Image(filling))
      <3>1. UNCHANGED slot_len
        BY <1>1, <1>3, <2>6 DEF ProgEnd
      <3>2. \A at \in 1 .. Chunks(j) : slots[j.slot][at] = j.program
        BY <1>3, <2>1, <2>2, <2>6, AcceptedIsWhole DEF FillingFor
      <3>3. Image(j.slot) = WholeImage(j.program)
        BY <2>1, <2>2, <3>2, AllThere DEF FillingFor
      <3>4. j.slot # None
        BY <1>3, <2>2
      <3>5. Holds(j.slot)' = WholeImage(j.program)
        BY <2>3, <3>1, <3>3, <3>4 DEF Holds, Image
      <3> QED
        BY <2>2, <2>4, <2>5, <3>5 DEF StoreStep
    <2>7. CASE ~(slot_len[filling] = expected_len /\ Parses(Image(filling)))
      <3>1. slot_len' = [slot_len EXCEPT ![filling] = 0]
        BY <1>1, <1>3, <2>7 DEF ProgEnd
      <3>2. slot_len'[j.slot] = 0
        BY <2>2, <3>1 DEF SlotInv, TypeOK
      <3>3. SubSeq(slots[j.slot], 1, 0) = Empty
        <4>1. slots[j.slot] \in Seq(Cell)
          BY <2>2, SlotIsSequence DEF SlotInv
        <4> QED
          BY <4>1, SubSeqEmpty DEF Empty
      <3>4. Holds(j.slot)' = Empty
        BY <2>3, <3>2, <3>3 DEF Holds, Image
      <3> QED
        BY <2>2, <2>4, <2>5, <3>4 DEF StoreStep
    <2> QED
      BY <2>6, <2>7
  <1> QED
    BY <1>2, <1>3

\* Whatever the next datagram is.
LEMMA LooseTakes ==
    ASSUME SlotInv, AllFit, Gapless, PathTyped, Takes, FillingOK,
           UNCHANGED faults, faults \in Nat, PathAssured(toDevice, faults = 0)
    PROVE  FillingOK' /\ StoreStep /\ PathAssured(toDevice, faults = 0)'
  <1>1. toDevice[1].type \in {"begin", "chunk", "end", "push", "pop"}
    BY DEF Takes, Receive
  <1>2. FillingOK' /\ StoreStep
    BY <1>1, LooseBegin, LooseChunk, LooseEnd, LoosePasses
  <1>3. PathAssured(toDevice', faults = 0)
    <2>1. PICK L \in Nat \ {0} : L = Len(toDevice)
      BY TakesTaken
    <2>2. PICK tight \in BOOLEAN : tight = (faults = 0)
      OBVIOUS
    <2>3. PathAssured(toDevice', tight)
      BY <2>1, <2>2, TakesTaken, TakenPath
    <2> QED
      BY <2>2, <2>3
  <1>4. Jobs' = Jobs
    BY JobsStay DEF Takes
  <1> QED
    BY <1>2, <1>3, <1>4 DEF PathAssured, BeginsAssured

------------------------------------------------------------------------------
\* Each step, for as long as the path has failed once at most.  Nothing of the path or
\* of the transfer changes.
LEMMA LooseStays ==
    ASSUME FillingOK, faults \in Nat, PathAssured(toDevice, faults = 0),
           UNCHANGED <<transfer, split, toDevice, faults>>
    PROVE  FillingOK' /\ StoreStep /\ PathAssured(toDevice, faults = 0)'
  <1>1. Jobs' = Jobs
    BY JobsStay
  <1>2. StaysOpen(toDevice, toDevice', faults = 0, faults' = 0)
    BY DEF StaysOpen
  <1>3. FillingOK' /\ StoreStep
    BY <1>2, FillingKept, SlotsKept
  <1> QED
    BY <1>1, <1>3 DEF PathAssured, BeginsAssured

\* The peer sends something.
LEMMA LooseSends ==
    ASSUME PathTyped, FillingOK, faults \in Nat, PathAssured(toDevice, faults = 0),
           UNCHANGED <<transfer, split, faults>>,
           \/ toDevice' = toDevice \o ShowScript
           \/ toDevice' = toDevice \o AlertScript
           \/ toDevice' = Append(toDevice, Off)
    PROVE  FillingOK' /\ StoreStep /\ PathAssured(toDevice, faults = 0)'
  <1>1. PICK tight \in BOOLEAN : tight = (faults = 0) /\ tight = (faults' = 0)
    OBVIOUS
  <1>2. More(toDevice, toDevice', tight)
    BY <1>1, PeerSends
  <1>3. StaysOpen(toDevice, toDevice', faults = 0, faults' = 0) /\ PathAssured(toDevice', faults' = 0)
    BY <1>1, <1>2 DEF More
  <1>4. FillingOK' /\ StoreStep
    BY <1>3, FillingKept, SlotsKept
  <1>5. Jobs' = Jobs
    BY JobsStay
  <1> QED
    BY <1>3, <1>4, <1>5 DEF PathAssured, BeginsAssured

\* The path fails for the first time.
LEMMA LooseFails ==
    ASSUME PathTyped, FillingOK, faults = 0, PathAssured(toDevice, faults = 0),
           Fault, UNCHANGED split
    PROVE  FillingOK' /\ StoreStep /\ PathAssured(toDevice, faults = 0)'
  <1>1. UNCHANGED transfer /\ (faults = 0) = TRUE /\ (faults' = 0) = FALSE /\ faults' \in Nat
    BY DEF Fault, nodeVars
  <1>2. PICK L \in Nat : L = Len(toDevice)
    BY LenProperties DEF PathTyped
  <1>3. PathAssured(toDevice, TRUE)
    BY <1>1
  <1>4. PathAssured(toDevice', FALSE) /\ StaysOpen(toDevice, toDevice', TRUE, FALSE)
    BY <1>2, <1>3, FaultIsOne, FailedAssured
  <1>5. StaysOpen(toDevice, toDevice', faults = 0, faults' = 0) /\ PathAssured(toDevice', faults' = 0)
    BY <1>1, <1>4
  <1>6. FillingOK' /\ StoreStep
    BY <1>1, <1>5, FillingKept, SlotsKept
  <1>7. Jobs' = Jobs
    BY JobsStay
  <1> QED
    BY <1>5, <1>6, <1>7 DEF PathAssured, BeginsAssured

\* A device that restarts has nothing.
LEMMA LooseReboot ==
    ASSUME PathAssured(toDevice, faults = 0), Reboot, UNCHANGED <<toDevice, split, faults>>
    PROVE  FillingOK' /\ StoreStep /\ PathAssured(toDevice, faults = 0)'
  <1>1. Jobs' = Jobs /\ filling' = None
    BY JobsStay DEF Reboot
  <1>2. ASSUME NEW s \in Slot PROVE Holds(s)' = Empty
    <2>1. slots'[s] = Empty /\ slot_len'[s] = 0
      BY <1>2 DEF Reboot
    <2>2. SubSeq(Empty, 1, 0) = Empty
      BY SubSeqEmpty DEF Empty
    <2> QED
      BY <2>1, <2>2 DEF Holds, Image
  <1> QED
    BY <1>1, <1>2 DEF FillingOK, StoreStep, PathAssured, BeginsAssured

\* The inductive invariant: until the path fails for the second time, every transfer on
\* it and the one that the device has open are assured of what they need.
LooseInv ==
    /\ SlotInv /\ PathTyped /\ Counted
    /\ faults <= 1 => PathAssured(toDevice, faults = 0) /\ FillingOK

LEMMA LooseInvInit == PeerInit => LooseInv
  <1> SUFFICES ASSUME PeerInit PROVE LooseInv
    OBVIOUS
  <1>1. SlotInv
    BY SlotInit DEF PeerInit
  <1>2. toDevice = << >> /\ Len(toDevice) = 0 /\ faults = 0 /\ reboots = 0
    BY DEF PeerInit, WireInit
  <1>3. PathTyped /\ PathAssured(toDevice, faults = 0)
    BY <1>2 DEF PathTyped, PathAssured, BeginsAssured, Apart, Parted
  <1>4. FillingOK
    BY DEF PeerInit, Init, FillingOK
  <1> QED
    BY <1>1, <1>2, <1>3, <1>4 DEF LooseInv, Counted

LEMMA LooseStep ==
    ASSUME AllFit, Gapless, LooseInv, [PeerNext]_peerVars, faults' <= 1
    PROVE  FillingOK' /\ StoreStep /\ PathAssured(toDevice, faults = 0)'
  <1>1. UNCHANGED split
    BY DEF PeerNext, HearHello, HttpAsks, TakeRequest, TimedAlert, DeviceReceives,
           Hello, DeviceDraws, AlertExpires,
           ShowExpires, histories, DeviceRestarts, PathFails, peerVars
  <1>2. CASE PathFails
    <2>1. faults = 0 /\ faults <= 1
      BY <1>2 DEF PathFails, Fault, LooseInv, Counted
    <2> QED
      BY <1>1, <1>2, <2>1, LooseFails DEF PathFails, LooseInv
  <1>3. CASE ~PathFails
    <2>1. UNCHANGED faults
      BY <1>3 DEF PeerNext, HearHello, HttpAsks, TakeRequest, TimedAlert, DeviceReceives,
                  Deliver, Hello, DeviceDraws, AlertExpires,
                  ShowExpires, histories, DeviceRestarts, peerVars, wireVars
    <2>2. /\ SlotInv /\ PathTyped /\ faults \in Nat
          /\ PathAssured(toDevice, faults = 0) /\ FillingOK
      BY <2>1 DEF LooseInv, Counted
    <2>3. ASSUME UNCHANGED <<transfer, toDevice>>
          PROVE  FillingOK' /\ StoreStep /\ PathAssured(toDevice, faults = 0)'
      BY <1>1, <2>1, <2>2, <2>3, LooseStays
    <2>4. ASSUME UNCHANGED transfer,
                 \/ toDevice' = toDevice \o ShowScript
                 \/ toDevice' = toDevice \o AlertScript
                 \/ toDevice' = Append(toDevice, Off)
          PROVE  FillingOK' /\ StoreStep /\ PathAssured(toDevice, faults = 0)'
      BY <1>1, <2>1, <2>2, <2>4, LooseSends
    <2>5. CASE HearHello
      BY <2>3, <2>4, <2>5 DEF HearHello, nodeVars
    <2>6. CASE TakeRequest
      BY <2>3, <2>4, <2>6 DEF TakeRequest, SendAlert, nodeVars
    <2>7. CASE TimedAlert
      BY <2>4, <2>7 DEF TimedAlert, SendAlert, nodeVars
    <2>8. CASE DeviceReceives
      BY <2>1, <2>2, <2>8, DeliveryTakes, LooseTakes
    <2>9. CASE DeviceRestarts
      BY <1>1, <2>1, <2>2, <2>9, LooseReboot DEF DeviceRestarts, wireVars
    <2>10. CASE HttpAsks \/ Hello \/ DeviceDraws \/ AlertExpires
                \/ ShowExpires \/ UNCHANGED peerVars
      BY <2>3, <2>10
         DEF HttpAsks, Hello, DeviceDraws, AlertExpires,
             ShowExpires, histories, Frame, peerVars, wireVars, nodeVars
    <2> QED
      BY <1>3, <2>5, <2>6, <2>7, <2>8, <2>9, <2>10 DEF PeerNext
  <1> QED
    BY <1>2, <1>3

LEMMA LooseInvNext ==
    ASSUME AllFit, Gapless, LooseInv, [PeerNext]_peerVars
    PROVE  LooseInv'
  <1>1. SlotInv'
    BY PeerStepIsNode, SlotNext DEF LooseInv
  <1>2. PathTyped'
    BY PathTypedNext DEF LooseInv
  <1>3. Counted'
    BY CountedNext DEF LooseInv
  <1>4. faults' <= 1 => PathAssured(toDevice, faults = 0)' /\ FillingOK'
    BY LooseStep
  <1> QED
    BY <1>1, <1>2, <1>3, <1>4 DEF LooseInv

\* Up to the second fault, whatever the first was: as long as the path has lost,
\* repeated or swapped one datagram at most, at any place and in any transfer, what the
\* device does with what arrives is what a Store allows, if every program fits a slot and
\* no image with a hole in it is accepted (the hash of a program is not checked).
THEOREM StoreUntilTwoFaults ==
    ASSUME AllFit, Gapless
    PROVE  PeerSpec => [][faults' <= 1 => Slots!Next]_peerVars
  <1>1. LooseInv /\ [PeerNext]_peerVars => LooseInv'
    BY LooseInvNext
  <1>2. LooseInv /\ [PeerNext]_peerVars => (faults' <= 1 => Slots!Next)
    BY LooseStep, StoreSteps
  <1> QED
    BY <1>1, <1>2, LooseInvInit, PTL DEF PeerSpec

\* No more faults than the bound.
FewFaults == faults \in Nat /\ faults <= MaxFaults

\* So with a path that fails once at most, the peer, the path and the device are a Store.
THEOREM IsStoreWithAFault ==
    ASSUME AllFit, Gapless, MaxFaults <= 1
    PROVE  PeerSpec => IsStore
  <1>1. PeerInit => FewFaults
    BY WireAssumption DEF PeerInit, WireInit, FewFaults
  <1>2. FewFaults /\ [PeerNext]_peerVars => FewFaults'
    <2> SUFFICES ASSUME FewFaults, [PeerNext]_peerVars PROVE FewFaults'
      OBVIOUS
    <2>1. CASE PathFails
      BY <2>1, WireAssumption DEF PathFails, Fault, FewFaults
    <2>2. CASE UNCHANGED faults
      BY <2>2 DEF FewFaults
    <2> QED
      BY <2>1, <2>2 DEF PeerNext, HearHello, HttpAsks, TakeRequest, TimedAlert,
          DeviceReceives, Deliver, Hello, DeviceDraws, AlertExpires,
          ShowExpires, histories, DeviceRestarts,
          peerVars, wireVars
  <1>3. LooseInv /\ [PeerNext]_peerVars => LooseInv'
    BY LooseInvNext
  <1>4. LooseInv /\ [PeerNext]_peerVars /\ FewFaults' => Slots!Next
    <2> SUFFICES ASSUME LooseInv, [PeerNext]_peerVars, FewFaults' PROVE Slots!Next
      OBVIOUS
    <2>1. faults' <= 1
      BY WireAssumption DEF FewFaults
    <2> QED
      BY <2>1, LooseStep, StoreSteps
  <1> QED
    BY <1>1, <1>2, <1>3, <1>4, LooseInvInit, StoreInitially, PTL DEF PeerSpec, IsStore, Slots!Spec

------------------------------------------------------------------------------
(***************************************************************************)
(* An undivided show over a path that has failed nobody: who is admitted   *)
(* to the device, and what each of them renders.                           *)
(***************************************************************************)

\* The peer has sent datagram m, which is still on its way.
OnPath(m) == \E i \in 1 .. Len(toDevice) : toDevice[i] = m

\* Only sources of jobs are admitted, and each is bound to the slot its program is sent
\* to and was pushed with it.
Bindings ==
    /\ \A s \in active : \E j \in Jobs : s = j.source
    /\ \A x \in DOMAIN source_slot : \E j \in Jobs : source_slot[x] = <<j.source.id, j.slot>>
Pushed ==
    /\ pushedWith \in [Sources -> Programs \cup {None}]
    /\ \A j \in Jobs :
           j.source \in active \/ OnPath(Push(j.source)) => pushedWith[j.source.id] = j.program

LEMMA UndividedJobs ==
    ASSUME ~split
    PROVE  Jobs = {Job(Play, 0, ShowSource(ShowId, "all")), Job(Alert, 1, AlertSource)}
  BY DEF Jobs

LEMMA JobsApart ==
    ASSUME ~split, NEW j \in Jobs, NEW k \in Jobs
    PROVE  /\ j.source.id = k.source.id => j = k
           /\ j.slot = k.slot => j = k
           /\ j.source.id \in {ShowId, AlertId}
  BY UndividedJobs, PeerAssumption DEF Job, ShowSource, AlertSource

\* What the device takes from the path when it takes a push.
LEMMA TakesAPush ==
    ASSUME PathTyped, PathOK(toDevice), HeadOK, Takes, toDevice[1].type = "push"
    PROVE  \E j \in Jobs :
               /\ toDevice[1] = Push(j.source)
               /\ reboots = 0 /\ Chunks(j) <= MAX_PROGRAM => last_filled = j.slot
  <1>1. Len(toDevice) \in Nat \ {0}
    BY WhatIsLeft
  <1>2. ~Idle
    BY <1>1 DEF Idle, Opens
  <1>3. PICK j \in Jobs : \E k \in 1 .. Chunks(j) + 2 : Busy(j, k)
    BY <1>2 DEF HeadOK
  <1>4. PICK n \in Nat \ {0} : n = Chunks(j)
    BY JobType
  <1>5. PICK k \in 1 .. n + 2 : Busy(j, k)
    BY <1>3, <1>4
  <1>6. k + 1 \in 1 .. n + 3 /\ k + 1 \in k + 1 .. n + 3 /\ (k + 1) - k = 1
    OBVIOUS
  <1>7. toDevice[1] = Script(j)[k + 1]
    <2>1. toDevice[(k + 1) - k] = Script(j)[k + 1]
      BY <1>4, <1>5, <1>6 DEF Busy
    <2> QED
      BY <1>6, <2>1
  <1>8. k = n + 2
    <2>1. k + 1 = n + 3
      BY <1>4, <1>6, <1>7, ScriptKinds
    <2> QED
      BY <2>1
  <1>9. toDevice[1] = Push(j.source)
    BY <1>4, <1>5, <1>8, TakesPush
  <1>10. reboots = 0 /\ Chunks(j) <= MAX_PROGRAM => last_filled = j.slot
    BY <1>4, <1>5, <1>8 DEF Busy, OnTime
  <1> QED
    BY <1>9, <1>10

\* What is on the path when a datagram has been taken was there before.
LEMMA OnPathTaken ==
    ASSUME PathTyped, Takes, NEW m, \E i \in 1 .. Len(toDevice') : toDevice'[i] = m
    PROVE  OnPath(m)
  <1>1. PICK l \in Nat : Len(toDevice) = l + 1
    <2>1. Len(toDevice) - 1 \in Nat /\ Len(toDevice) = (Len(toDevice) - 1) + 1
      BY WhatIsLeft
    <2> QED
      BY <2>1
  <1>2. Len(toDevice') = l /\ \A i \in 1 .. l : toDevice'[i] = toDevice[i + 1]
    <2>1. Len(toDevice) - 1 = l
      BY <1>1
    <2> QED
      BY <2>1, WhatIsLeft
  <1>3. PICK i \in 1 .. l : toDevice'[i] = m
    BY <1>2
  <1>4. i + 1 \in 1 .. l + 1 /\ toDevice[i + 1] = m
    BY <1>2, <1>3
  <1> QED
    BY <1>1, <1>4 DEF OnPath

\* What a script puts on the path that pushes a source pushes the job's.
LEMMA ScriptPushes ==
    ASSUME NEW q \in Seq(Sent), NEW j \in Jobs, NEW r, r = q \o Script(j),
           NEW i \in 1 .. Len(r), r[i].type \in {"push", "pop"}
    PROVE  (i \in 1 .. Len(q) /\ r[i] = q[i]) \/ r[i] = Push(j.source)
  <1>1. PICK n \in Nat \ {0} : n = Chunks(j)
    BY JobType
  <1>2. PICK s \in Seq(Sent) : s = Script(j) /\ Len(s) = n + 3 /\ s[n + 3] = Push(j.source)
    BY <1>1, ScriptShape
  <1>3. Joins(Sent, r, q, s)
    BY <1>2, Joined
  <1>4. PICK l \in Nat : l = Len(q)
    BY <1>3 DEF Joins
  <1>5. /\ Len(r) = l + (n + 3)
        /\ \A x \in 1 .. l : r[x] = q[x]
        /\ \A k \in 1 .. n + 3 : r[l + k] = s[k]
    BY <1>2, <1>3, <1>4 DEF Joins
  <1>6. i \in 1 .. l \/ (i - l \in 1 .. n + 3 /\ i = l + (i - l))
    BY <1>5
  <1>7. ASSUME NEW k \in 1 .. n + 3, i = l + k
        PROVE  r[i] = Push(j.source)
    <2>1. r[i] = s[k]
      BY <1>5, <1>7
    <2>2. k = n + 3
      BY <1>1, <1>2, <2>1, ScriptKinds
    <2> QED
      BY <1>2, <2>1, <2>2
  <1> QED
    BY <1>4, <1>5, <1>6, <1>7

\* A table that holds only sources of jobs has an entry for every one admitted: there
\* are no more than it has room for.
LEMMA AllBound ==
    ASSUME TypeOK, BindingsSound, Bindings, ~split
    PROVE  Admitted \subseteq Bound
  <1>1. Admitted \subseteq {ShowId, AlertId}
    BY JobsApart DEF Bindings, Admitted
  <1>2. ASSUME Len(source_slot) = MAX_SOURCES
        PROVE  {ShowId, AlertId} \subseteq Bound
    <2>1. PICK m \in Nat : m = MAX_SOURCES /\ m >= 2
      BY NodeAssumption, PeerAssumption
    <2>2. DOMAIN source_slot = 1 .. m
      BY <1>2, <2>1 DEF TypeOK
    <2>3. 1 \in 1 .. m /\ 2 \in 1 .. m
      BY <2>1
    <2>4. source_slot[1][1] # source_slot[2][1]
      BY <2>2, <2>3 DEF BindingsSound
    <2>5. \A x \in 1 .. m : source_slot[x][1] \in {ShowId, AlertId}
      <3>1. ASSUME NEW x \in 1 .. m PROVE source_slot[x][1] \in {ShowId, AlertId}
        <4>1. PICK j \in Jobs : source_slot[x] = <<j.source.id, j.slot>>
          BY <2>2 DEF Bindings
        <4> QED
          BY <4>1, JobsApart
      <3> QED
        BY <3>1
    <2>6. source_slot[1][1] \in Bound /\ source_slot[2][1] \in Bound
      BY <2>2, <2>3 DEF Bound
    <2> QED
      BY <2>3, <2>4, <2>5, <2>6
  <1> QED
    BY <1>1, <1>2 DEF BindingsSound

\* What Bind changes is the entry of the source bound.
LEMMA BindEntries ==
    ASSUME TypeOK, NEW id \in Sources, NEW slot \in Slot, NEW t, t = Bind(id, slot),
           NEW x \in DOMAIN t
    PROVE  t[x] = <<id, slot>> \/ (x \in DOMAIN source_slot /\ t[x] = source_slot[x])
  <1>1. PICK n \in Nat : n = Len(source_slot) /\ DOMAIN source_slot = 1 .. n
    BY DEF TypeOK
  <1>2. CASE id \in Bound
    BY <1>2 DEF Bind
  <1>3. CASE id \notin Bound /\ n < MAX_SOURCES
    <2>1. t = Append(source_slot, <<id, slot>>)
      BY <1>1, <1>3 DEF Bind
    <2>2. DOMAIN t = 1 .. n + 1 /\ (\A k \in 1 .. n : t[k] = source_slot[k])
          /\ t[n + 1] = <<id, slot>>
      BY <1>1, <2>1 DEF TypeOK
    <2> QED
      BY <1>1, <2>2
  <1>4. CASE id \notin Bound /\ ~(n < MAX_SOURCES)
    BY <1>1, <1>4 DEF Bind
  <1> QED
    BY <1>2, <1>3, <1>4

LEMMA BindingsPush ==
    ASSUME TypeOK, Bindings, NEW j \in Jobs, SrcPush(j.source), last_filled = j.slot,
           UNCHANGED split
    PROVE  Bindings'
  <1>1. Jobs' = Jobs /\ j.slot \in Slot /\ j.source.id \in Sources
    BY JobsStay, JobType DEF Source
  <1>2. CASE ~CanAdmit(j.source)
    BY <1>1, <1>2 DEF SrcPush, stack, Bindings
  <1>3. CASE CanAdmit(j.source)
    <2>1. active' = Admit(j.source) /\ source_slot' = Bind(j.source.id, j.slot)
      BY <1>3 DEF SrcPush
    <2>2. \A s \in active' : s \in active \/ s = j.source
      BY <2>1 DEF Admit
    <2>3. \A x \in DOMAIN source_slot' :
              \/ source_slot'[x] = <<j.source.id, j.slot>>
              \/ x \in DOMAIN source_slot /\ source_slot'[x] = source_slot[x]
      BY <1>1, <2>1, BindEntries
    <2> QED
      BY <1>1, <2>2, <2>3 DEF Bindings
  <1> QED
    BY <1>2, <1>3

\* No datagram makes a source admitted that was not, except its push.
LEMMA ReceiveAdmits ==
    ASSUME NEW m, Receive(m)
    PROVE  /\ \A s \in active' : s \in active \/ (m.type = "push" /\ s = m.source)
           /\ m.type # "push" => source_slot' = source_slot
  BY DEF Receive, ProgBegin, ProgChunk, ProgEnd, SrcPush, SrcPop, Admit, stack

\* Apart from the device's taking a push and its restarting, nothing is admitted or
\* bound.
LEMMA OthersAdmitNone ==
    ASSUME [PeerNext]_peerVars, ~DeviceReceives
    PROVE  active' \subseteq active /\ (~DeviceRestarts => source_slot' = source_slot)
  BY DEF PeerNext, HearHello, HttpAsks, TakeRequest, TimedAlert, Hello, DeviceDraws,
         AlertExpires, ShowExpires, histories, DeviceRestarts, PathFails, Fault, Frame, Reboot,
         peerVars, nodeVars, stack

\* The programs of an undivided show and its alert fit their slots: the peer sends
\* them, and a device refuses one that does not.
Fits == Size[Play] <= MAX_PROGRAM /\ Size[Alert] <= MAX_PROGRAM

Undivided == Undisturbed /\ ~split

LEMMA UndividedBefore ==
    ASSUME Counted, [PeerNext]_peerVars, Undivided'
    PROVE  /\ Undivided /\ ~DeviceRestarts /\ ~PathFails /\ UNCHANGED split
           /\ faults' = 0 /\ faults = 0 /\ reboots = 0
  <1>1. faults' = 0 /\ reboots' = 0 /\ ~split'
    BY DEF Undivided, Undisturbed
  <1>2. faults = 0 /\ ~PathFails
    BY <1>1, CountedNext
  <1>3. ~DeviceRestarts
    BY <1>1 DEF DeviceRestarts, Counted
  <1>4. UNCHANGED <<split, reboots>>
    BY <1>2, <1>3 DEF PeerNext, HearHello, HttpAsks, TakeRequest, TimedAlert,
                      DeviceReceives, Hello, DeviceDraws, AlertExpires,
                      ShowExpires, histories, peerVars, counts
  <1> QED
    BY <1>1, <1>2, <1>3, <1>4 DEF Undivided, Undisturbed

LEMMA BindingsNext ==
    ASSUME Fits, PeerInv, [PeerNext]_peerVars, Undivided', Bindings
    PROVE  Bindings'
  <1>1. /\ Undivided /\ ~DeviceRestarts /\ ~PathFails /\ UNCHANGED split
        /\ reboots = 0 /\ ~split /\ PathSound /\ PathTyped /\ TypeOK
    BY UndividedBefore DEF PeerInv, SlotInv, Undivided
  <1>2. Jobs' = Jobs
    BY <1>1, JobsStay
  <1>3. ASSUME \A s \in active' : s \in active, source_slot' = source_slot
        PROVE  Bindings'
    BY <1>2, <1>3 DEF Bindings
  <1>4. CASE DeviceReceives
    <2>1. Takes /\ Receive(toDevice[1])
      BY <1>1, <1>4, DeliveryTakes DEF Takes
    <2>2. CASE toDevice[1].type = "push"
      <3>1. PICK j \in Jobs :
              /\ toDevice[1] = Push(j.source)
              /\ reboots = 0 /\ Chunks(j) <= MAX_PROGRAM => last_filled = j.slot
        BY <1>1, <2>1, <2>2, TakesAPush DEF PathSound, PathWhole
      <3>2. Chunks(j) <= MAX_PROGRAM
        BY <1>1, UndividedJobs DEF Fits, Chunks, Job
      <3>3. SrcPush(j.source)
        BY <2>1, <3>1 DEF Receive, Push
      <3> QED
        BY <1>1, <3>1, <3>2, <3>3, BindingsPush
    <2>3. CASE toDevice[1].type # "push"
      BY <1>3, <2>1, <2>3, ReceiveAdmits
    <2> QED
      BY <2>2, <2>3
  <1>5. CASE ~DeviceReceives
    <2>1. active' \subseteq active /\ source_slot' = source_slot
      BY <1>1, <1>5, OthersAdmitNone
    <2> QED
      BY <1>3, <2>1
  <1> QED
    BY <1>4, <1>5

LEMMA PushedSends ==
    ASSUME PathTyped, ~split, UNCHANGED <<split, active>>, NEW j \in Jobs,
           toDevice' = toDevice \o Script(j), pushedWith'[j.source.id] = j.program,
           \A k \in Jobs : k # j => pushedWith'[k.source.id] = pushedWith[k.source.id],
           Pushed, pushedWith' \in [Sources -> Programs \cup {None}]
    PROVE  Pushed'
  <1>1. Jobs' = Jobs
    BY JobsStay
  <1>2. PICK q, r : q \in Seq(Sent) /\ q = toDevice /\ r = toDevice' /\ r = q \o Script(j)
    BY DEF PathTyped
  <1>3. ASSUME NEW k \in Jobs, OnPath(Push(k.source))', k # j
        PROVE  OnPath(Push(k.source))
    <2>1. PICK i \in 1 .. Len(r) : r[i] = Push(k.source)
      BY <1>2, <1>3 DEF OnPath
    <2>2. r[i].type \in {"push", "pop"}
      BY <2>1 DEF Push
    <2>3. CASE i \in 1 .. Len(q) /\ r[i] = q[i]
      <3>1. q[i] = Push(k.source)
        BY <2>1, <2>3
      <3> QED
        BY <1>2, <2>3, <3>1 DEF OnPath
    <2>4. CASE r[i] = Push(j.source)
      <3>1. k.source = j.source
        BY <2>1, <2>4 DEF Push
      <3> QED
        BY <1>3, <3>1, JobsApart
    <2>5. (i \in 1 .. Len(q) /\ r[i] = q[i]) \/ r[i] = Push(j.source)
      BY <1>2, <2>2, ScriptPushes
    <2> QED
      BY <2>3, <2>4, <2>5
  <1>4. ASSUME NEW k \in Jobs, k.source \in active' \/ OnPath(Push(k.source))'
        PROVE  pushedWith'[k.source.id] = k.program
    <2>1. CASE k = j
      BY <2>1
    <2>2. CASE k # j
      BY <1>3, <1>4, <2>2 DEF Pushed
    <2> QED
      BY <2>1, <2>2
  <1> QED
    BY <1>1, <1>4 DEF Pushed

LEMMA PushedNext ==
    ASSUME PeerInv, [PeerNext]_peerVars, Undivided', Pushed
    PROVE  Pushed'
  <1>1. /\ Undivided /\ ~DeviceRestarts /\ ~PathFails /\ UNCHANGED split
        /\ ~split /\ PathSound /\ PathTyped
    BY UndividedBefore DEF PeerInv, Undivided
  <1>2. Jobs' = Jobs
    BY <1>1, JobsStay
  <1>3. /\ pushedWith \in [Sources -> Programs \cup {None}]
        /\ ShowId \in Sources /\ SecondId \in Sources /\ AlertId \in Sources
        /\ Play \in Programs /\ Alert \in Programs
        /\ ShowId # SecondId /\ ShowId # AlertId /\ SecondId # AlertId
    BY PeerAssumption DEF Pushed
  <1>4. ASSUME active' \subseteq active, UNCHANGED pushedWith,
               \A k \in Jobs : OnPath(Push(k.source))' => OnPath(Push(k.source))
        PROVE  Pushed'
    BY <1>2, <1>4 DEF Pushed
  <1>5. ASSUME UNCHANGED toDevice
        PROVE  \A k \in Jobs : OnPath(Push(k.source))' => OnPath(Push(k.source))
    BY <1>5 DEF OnPath
  <1>6. ASSUME SendAlert, UNCHANGED active
        PROVE  Pushed'
    <2> DEFINE j == Job(Alert, 1, AlertSource)
    <2>1. j \in Jobs /\ toDevice' = toDevice \o Script(j) /\ j.source.id = AlertId /\ j.program = Alert
      BY <1>6, Scripts DEF SendAlert, Job, AlertSource
    <2>2. pushedWith' = [pushedWith EXCEPT ![AlertId] = Alert]
      BY <1>6 DEF SendAlert
    <2>3. /\ pushedWith' \in [Sources -> Programs \cup {None}]
          /\ pushedWith'[AlertId] = Alert /\ pushedWith'[ShowId] = pushedWith[ShowId]
      BY <1>3, <2>2
    <2> HIDE DEF j
    <2>4. \A k \in Jobs : k # j => pushedWith'[k.source.id] = pushedWith[k.source.id]
      BY <1>1, <2>1, <2>3, JobsApart
    <2> QED
      BY <1>1, <1>6, <2>1, <2>3, <2>4, PushedSends
  <1>7. CASE HearHello
    <2>1. CASE Head(hellos)
      BY <1>4, <1>5, <1>7, <2>1 DEF HearHello, nodeVars, stack
    <2>2. CASE ~Head(hellos)
      <3> DEFINE j == Job(Play, 0, ShowSource(ShowId, "all"))
      <3>1. j \in Jobs /\ j.source.id = ShowId /\ j.program = Play
        BY <1>1, UndividedJobs DEF Job, ShowSource
      <3>2. toDevice' = toDevice \o Script(j)
        BY <1>1, <1>7, <2>2 DEF HearHello, ShowScript, Script, Job
      <3>3. pushedWith' = [pushedWith EXCEPT ![ShowId] = Play, ![SecondId] = @]
        BY <1>1, <1>7, <2>2 DEF HearHello
      <3>4. /\ pushedWith' \in [Sources -> Programs \cup {None}]
            /\ pushedWith'[ShowId] = Play /\ pushedWith'[AlertId] = pushedWith[AlertId]
        BY <1>3, <3>3
      <3> HIDE DEF j
      <3>5. \A k \in Jobs : k # j => pushedWith'[k.source.id] = pushedWith[k.source.id]
        BY <1>1, <3>1, <3>4, JobsApart
      <3>6. UNCHANGED active
        BY <1>7 DEF HearHello, nodeVars, stack
      <3> QED
        BY <1>1, <3>1, <3>2, <3>4, <3>5, <3>6, PushedSends
    <2> QED
      BY <2>1, <2>2
  <1>8. CASE TakeRequest
    <2>1. UNCHANGED active
      BY <1>8 DEF TakeRequest, nodeVars, stack
    <2>2. CASE SendAlert
      BY <1>6, <2>1, <2>2
    <2>3. CASE toDevice' = Append(toDevice, Off) /\ UNCHANGED pushedWith
      <3>1. PICK q, r : q \in Seq(Sent) /\ q = toDevice /\ r = toDevice' /\ r = Append(q, Off)
        BY <1>1, <2>3 DEF PathTyped
      <3>2. \A i \in 1 .. Len(r) : i \in 1 .. Len(q) \/ i = Len(q) + 1
        BY <3>1, AppendProperties, ScriptsTyped
      <3>3. r[Len(q) + 1] = Off /\ \A i \in 1 .. Len(q) : r[i] = q[i]
        BY <3>1, AppendProperties, ScriptsTyped
      <3>4. \A k \in Jobs : Push(k.source) # Off
        BY DEF Push, Off, Pop
      <3>5. \A k \in Jobs : OnPath(Push(k.source))' => OnPath(Push(k.source))
        BY <3>1, <3>2, <3>3, <3>4 DEF OnPath
      <3> QED
        BY <1>4, <2>1, <2>3, <3>5
    <2>4. CASE UNCHANGED <<toDevice, pushedWith>>
      BY <1>4, <1>5, <2>1, <2>4
    <2> QED
      BY <1>8, <2>2, <2>3, <2>4 DEF TakeRequest
  <1>9. CASE TimedAlert
    BY <1>6, <1>9 DEF TimedAlert, nodeVars, stack
  <1>10. CASE DeviceReceives
    <2>1. Takes /\ Receive(toDevice[1]) /\ UNCHANGED pushedWith
      BY <1>1, <1>10, DeliveryTakes DEF Takes, DeviceReceives, histories
    <2>2. ASSUME NEW k \in Jobs, OnPath(Push(k.source))'
          PROVE  OnPath(Push(k.source))
      <3>1. \E i \in 1 .. Len(toDevice') : toDevice'[i] = Push(k.source)
        BY <2>2 DEF OnPath
      <3> QED
        BY <1>1, <2>1, <3>1, OnPathTaken
    <2>3. ASSUME NEW k \in Jobs, k.source \in active'
          PROVE  k.source \in active \/ OnPath(Push(k.source))
      <3>1. k.source \in active \/ (toDevice[1].type = "push" /\ k.source = toDevice[1].source)
        BY <2>1, <2>3, ReceiveAdmits
      <3>2. toDevice[1] \in Sent /\ 1 \in 1 .. Len(toDevice)
        BY <1>1, <2>1, WhatIsLeft
      <3> QED
        BY <3>1, <3>2, Kinds DEF OnPath
    <2> QED
      BY <1>2, <2>1, <2>2, <2>3 DEF Pushed
  <1>11. CASE HttpAsks \/ Hello \/ DeviceDraws \/ AlertExpires
              \/ ShowExpires \/ UNCHANGED peerVars
    <2>1. active' \subseteq active /\ UNCHANGED <<pushedWith, toDevice>>
      BY <1>11 DEF HttpAsks, Hello, DeviceDraws, AlertExpires,
                   ShowExpires, histories, Frame, peerVars, wireVars,
                   nodeVars, stack
    <2> QED
      BY <1>4, <1>5, <2>1
  <1> QED
    BY <1>1, <1>7, <1>8, <1>9, <1>10, <1>11 DEF PeerNext

\* With a program for each slot, what a source is bound to is its own.
LEMMA BoundToItsOwn ==
    ASSUME TypeOK, BindingsSound, Bindings, ~split, NEW j \in Jobs, j.source \in active
    PROVE  SlotOf(j.source.id) = j.slot
  <1>1. j.source.id \in Bound
    BY AllBound DEF Admitted
  <1>2. PICK x \in DOMAIN source_slot : source_slot[x][1] = j.source.id
    BY <1>1 DEF Bound
  <1>3. PICK k \in Jobs : source_slot[x] = <<k.source.id, k.slot>>
    BY DEF Bindings
  <1>4. k = j
    BY <1>2, <1>3, JobsApart
  <1>5. SlotOf(j.source.id) = source_slot[x][2]
    BY <1>1, <1>2, OneEntryIsChosen DEF SlotOf, BindingsSound
  <1> QED
    BY <1>3, <1>4, <1>5

LEMMA ItsOwnIsRendered ==
    ASSUME SlotInv, BindingsSound, Bindings, Pushed, HeldOK, ~split, filling = None,
           NEW s \in active, slot_len[SlotOf(s.id)] > 0
    PROVE  IsWhole(Image(SlotOf(s.id))) /\ Image(SlotOf(s.id))[1] = pushedWith[s.id]
  <1>1. PICK j \in Jobs : s = j.source
    BY DEF Bindings
  <1>2. SlotOf(s.id) = j.slot /\ pushedWith[s.id] = j.program
    BY <1>1, BoundToItsOwn DEF SlotInv, Pushed
  <1>3. PICK n \in Nat \ {0} : n = Chunks(j)
    BY JobType
  <1>4. j.slot \in Slot /\ j.slot # None /\ j.program \in Programs /\ Size[j.program] = n
    BY <1>3, JobType, NodeAssumption DEF Slot, Chunks
  <1>5. Image(j.slot) # Empty
    <2>1. slot_len[j.slot] \in Nat \ {0} /\ slot_len[j.slot] > 0
      BY <1>2, <1>4 DEF SlotInv, TypeOK
    <2>2. PICK b \in Seq(Cell), m \in Nat \ {0} :
             b = slots[j.slot] /\ m = slot_len[j.slot] /\ m <= Len(b)
      BY <1>4, <2>1, SlotIsSequence DEF SlotInv, SlicesInBounds
    <2>3. \A i \in 1 .. m : b[i] \in Cell
      BY <2>2
    <2>4. Len(SubSeq(b, 1, m)) = m
      BY <2>2
    <2>5. Len(Empty) = 0
      BY DEF Empty
    <2> QED
      BY <2>2, <2>4, <2>5 DEF Image
  <1>6. Image(j.slot) = WholeImage(j.program)
    <2>1. Holds(j.slot) = Image(j.slot)
      BY <1>4 DEF Holds
    <2>2. PICK k \in Jobs : k.slot = j.slot /\ Holds(j.slot) = WholeImage(k.program)
      BY <1>4, <1>5, <2>1 DEF HeldOK
    <2> QED
      BY <2>1, <2>2, JobsApart
  <1>7. PICK w \in Seq(Programs) : w = WholeImage(j.program) /\ Len(w) = n /\ \A i \in 1 .. n : w[i] = j.program
    <2>1. WholeImage(j.program) \in [1 .. n -> Programs]
      BY <1>4 DEF WholeImage
    <2>2. \A i \in 1 .. n : WholeImage(j.program)[i] = j.program
      BY <1>4 DEF WholeImage
    <2> QED
      BY <1>3, <2>1, <2>2, Listed
  <1>8. IsWhole(w) /\ w[1] = j.program
    <2>1. 1 \in 1 .. n
      OBVIOUS
    <2> QED
      BY <1>4, <1>7, <2>1 DEF IsWhole
  <1> QED
    BY <1>2, <1>6, <1>7, <1>8

\* The inductive invariant of an undivided show.
RendersInv == PeerInv /\ BindingsSound /\ (Undivided => Bindings /\ Pushed)

\* With an undivided show, over a path that works, once nothing is on its way what an
\* admitted source renders is the program the peer pushed it with, or nothing: for all
\* programs that fit a slot, in whatever order requests, announcements and the timer
\* have programs sent.
THEOREM UndividedRendersItsOwnHolds ==
    ASSUME Fits
    PROVE  PeerSpec => []UndividedRendersItsOwn
  <1>1. PeerInit => RendersInv
    <2> SUFFICES ASSUME PeerInit PROVE RendersInv
      OBVIOUS
    <2>1. /\ source_slot = << >> /\ active = {} /\ toDevice = << >>
          /\ pushedWith = [id \in Sources |-> None]
      BY DEF PeerInit, Init, WireInit, Empty
    <2>2. BindingsSound
      BY <2>1, NodeAssumption DEF BindingsSound, Admitted, Bound
    <2>3. Bindings /\ Pushed
      BY <2>1 DEF Bindings, Pushed, OnPath
    <2> QED
      BY <2>2, <2>3, PeerInvInit DEF RendersInv
  <1>2. RendersInv /\ [PeerNext]_peerVars => RendersInv'
    <2> SUFFICES ASSUME RendersInv, [PeerNext]_peerVars PROVE RendersInv'
      OBVIOUS
    <2>1. PeerInv'
      BY PeerInvNext DEF RendersInv
    <2>2. BindingsSound'
      BY PeerStepIsNode, BindNext DEF RendersInv, PeerInv, SlotInv
    <2>3. ASSUME Undivided' PROVE Bindings' /\ Pushed'
      <3>1. Undivided /\ PeerInv
        BY <2>3, UndividedBefore DEF RendersInv, PeerInv
      <3> QED
        BY <2>3, <3>1, BindingsNext, PushedNext DEF RendersInv
    <2> QED
      BY <2>1, <2>2, <2>3 DEF RendersInv
  <1>3. RendersInv => UndividedRendersItsOwn
    <2> SUFFICES ASSUME RendersInv, Undivided, Settled, NEW s \in active, slot_len[SlotOf(s.id)] > 0
                 PROVE  IsWhole(Image(SlotOf(s.id))) /\ Image(SlotOf(s.id))[1] = pushedWith[s.id]
      BY DEF UndividedRendersItsOwn, Undivided, RendersItsOwn
    <2> QED
      BY ItsOwnIsRendered
         DEF RendersInv, PeerInv, PathSound, Undivided, Undisturbed, Settled
  <1> QED
    BY <1>1, <1>2, <1>3, PTL DEF PeerSpec

------------------------------------------------------------------------------
(***************************************************************************)
(* Taking the show off.                                                    *)
(***************************************************************************)
PutsOn(m) == m.type = "push" /\ m.source.id = ShowId
NoneAfter(i) == \A k \in i + 1 .. Len(toDevice) : ~PutsOn(toDevice[k])

\* The show's removal is on its way and nothing after it puts the show on again, or it
\* has been carried out and nothing on its way undoes it.
OffOK ==
    off =>
        \/ \E i \in 1 .. Len(toDevice) : toDevice[i] = Off /\ NoneAfter(i)
        \/ ShowId \notin Admitted /\ NoneAfter(0)

\* None but the sources of jobs are admitted.
OnlyJobs == \A s \in active : \E j \in Jobs : s = j.source

LEMMA OffStays ==
    ASSUME OffOK, UNCHANGED <<toDevice, off>>, active' \subseteq active
    PROVE  OffOK'
  BY DEF OffOK, NoneAfter, Admitted

LEMMA OffBehindAlert ==
    ASSUME PathTyped, OffOK, SendAlert, UNCHANGED <<active, off>>
    PROVE  OffOK'
  <1>1. PICK j \in Jobs : j.source.id = AlertId /\ toDevice' = toDevice \o Script(j)
    BY Scripts DEF SendAlert, Job, AlertSource
  <1>2. PICK q, r : q \in Seq(Sent) /\ q = toDevice /\ r = toDevice' /\ r = q \o Script(j)
    BY <1>1 DEF PathTyped
  <1>3. \A k \in 1 .. Len(r) : PutsOn(r[k]) => k \in 1 .. Len(q) /\ r[k] = q[k]
    <2>1. ~PutsOn(Push(j.source))
      BY <1>1, PeerAssumption DEF PutsOn, Push
    <2> QED
      BY <1>2, <2>1, ScriptPushes DEF PutsOn
  <1>4. PICK s \in Seq(Sent) : s = Script(j)
    BY ScriptShape
  <1>5. /\ Len(q) \in Nat /\ Len(r) \in Nat /\ Len(q) <= Len(r)
        /\ \A i \in 1 .. Len(q) : i \in 1 .. Len(r) /\ r[i] = q[i]
    <2>1. Joins(Sent, r, q, s)
      BY <1>2, <1>4, Joined
    <2> QED
      BY <2>1 DEF Joins
  <1>6. ASSUME NEW i \in Nat, NoneAfter(i)
        PROVE  \A k \in i + 1 .. Len(toDevice') : ~PutsOn(toDevice'[k])
    <2>1. ASSUME NEW k \in i + 1 .. Len(r), PutsOn(r[k])
          PROVE  FALSE
      <3>1. k \in 1 .. Len(r)
        BY <1>5
      <3>2. k \in 1 .. Len(q) /\ r[k] = q[k]
        BY <1>3, <2>1, <3>1
      <3>3. k \in i + 1 .. Len(q)
        BY <1>5, <3>2
      <3> QED
        BY <1>2, <1>6, <2>1, <3>2, <3>3 DEF NoneAfter
    <2> QED
      BY <1>2, <2>1
  <1>7. ASSUME NEW i \in 1 .. Len(toDevice), toDevice[i] = Off, NoneAfter(i)
        PROVE  OffOK'
    <2>1. i \in Nat /\ i \in 1 .. Len(toDevice') /\ toDevice'[i] = Off
      BY <1>2, <1>5, <1>7
    <2> QED
      BY <1>6, <1>7, <2>1 DEF OffOK, NoneAfter, Off, Pop
  <1>8. ASSUME ShowId \notin Admitted, NoneAfter(0)
        PROVE  OffOK'
    <2>1. \A k \in 0 + 1 .. Len(toDevice') : ~PutsOn(toDevice'[k])
      BY <1>6, <1>8
    <2> QED
      BY <1>8, <2>1 DEF OffOK, NoneAfter, Admitted
  <1> QED
    BY <1>7, <1>8 DEF OffOK

LEMMA OffIsSent ==
    ASSUME PathTyped, toDevice' = Append(toDevice, Off)
    PROVE  OffOK'
  <1>1. PICK l \in Nat : l = Len(toDevice)
    BY LenProperties DEF PathTyped
  <1>2. Len(toDevice') = l + 1 /\ toDevice'[l + 1] = Off
    BY <1>1, ScriptsTyped, AppendProperties DEF PathTyped
  <1>3. l + 1 \in 1 .. Len(toDevice') /\ \A k \in (l + 1) + 1 .. Len(toDevice') : FALSE
    BY <1>2
  <1>4. PICK i : i = l + 1
    OBVIOUS
  <1>5. i \in 1 .. Len(toDevice') /\ toDevice'[i] = Off
        /\ \A k \in i + 1 .. Len(toDevice') : ~PutsOn(toDevice'[k])
    BY <1>2, <1>3, <1>4
  <1> QED
    BY <1>5 DEF OffOK, NoneAfter, Off, Pop

\* The device takes the next datagram: the removal, or one before or after it.
LEMMA OffTaken ==
    ASSUME PathTyped, OffOK, Takes, UNCHANGED off
    PROVE  OffOK'
  <1>1. PICK l \in Nat : Len(toDevice) = l + 1
    <2>1. Len(toDevice) - 1 \in Nat /\ Len(toDevice) = (Len(toDevice) - 1) + 1
      BY WhatIsLeft
    <2> QED
      BY <2>1
  <1>2. Len(toDevice') = l /\ \A i \in 1 .. l : toDevice'[i] = toDevice[i + 1]
    <2>1. Len(toDevice) - 1 = l
      BY <1>1
    <2> QED
      BY <2>1, WhatIsLeft
  <1>3. Receive(toDevice[1])
    BY DEF Takes
  <1>4. ASSUME NEW i \in Nat, NoneAfter(i + 1)
        PROVE  \A k \in i + 1 .. Len(toDevice') : ~PutsOn(toDevice'[k])
    <2>1. \A k \in i + 1 .. l : k \in 1 .. l /\ k + 1 \in (i + 1) + 1 .. l + 1
      OBVIOUS
    <2> QED
      BY <1>1, <1>2, <1>4, <2>1 DEF NoneAfter
  <1>5. ASSUME NEW i \in 1 .. l + 1, toDevice[i] = Off, NoneAfter(i)
        PROVE  OffOK'
    <2>1. CASE i = 1
      <3>1. SrcPop(ShowId)
        BY <1>3, <1>5, <2>1 DEF Receive, Off, Pop
      <3>2. \A s \in active' : s.id # ShowId
        BY <3>1 DEF SrcPop
      <3>3. \A k \in 0 + 1 .. Len(toDevice') : ~PutsOn(toDevice'[k])
        <4>1. NoneAfter(0 + 1) /\ 0 \in Nat
          BY <1>5, <2>1
        <4> QED
          BY <1>4, <4>1
      <3> QED
        BY <3>2, <3>3 DEF OffOK, NoneAfter, Admitted
    <2>2. CASE i # 1
      <3>1. PICK h \in 1 .. l : i = h + 1
        <4>1. i - 1 \in 1 .. l /\ i = (i - 1) + 1
          BY <2>2
        <4> QED
          BY <4>1
      <3>2. h \in 1 .. Len(toDevice') /\ toDevice'[h] = Off
        BY <1>2, <1>5, <3>1
      <3>3. \A k \in h + 1 .. Len(toDevice') : ~PutsOn(toDevice'[k])
        BY <1>4, <1>5, <3>1
      <3> QED
        BY <3>2, <3>3 DEF OffOK, NoneAfter, Off, Pop
    <2> QED
      BY <2>1, <2>2
  <1>6. ASSUME ShowId \notin Admitted, NoneAfter(0)
        PROVE  OffOK'
    <2>1. NoneAfter(0 + 1) /\ ~PutsOn(toDevice[1])
      <3>1. \A k \in 2 .. l + 1 : k \in 1 .. l + 1
        OBVIOUS
      <3>2. 0 + 1 = 1 /\ 1 + 1 = 2 /\ 1 \in 1 .. l + 1
        OBVIOUS
      <3> QED
        BY <1>1, <1>6, <3>1, <3>2 DEF NoneAfter
    <2>2. \A s \in active' : s.id # ShowId
      BY <1>3, <1>6, <2>1, ReceiveAdmits DEF PutsOn, Admitted
    <2>3. \A k \in 0 + 1 .. Len(toDevice') : ~PutsOn(toDevice'[k])
      BY <1>4, <2>1
    <2> QED
      BY <2>2, <2>3 DEF OffOK, NoneAfter, Admitted
  <1> QED
    BY <1>1, <1>5, <1>6 DEF OffOK

\* It is what an undivided show needs, with announcements, alerts and requests in
\* whatever order.
LEMMA OffNext ==
    ASSUME PeerInv, [PeerNext]_peerVars, Undivided', OnlyJobs, OffOK
    PROVE  OnlyJobs' /\ OffOK'
  <1>1. /\ Undivided /\ ~DeviceRestarts /\ ~PathFails /\ UNCHANGED split
        /\ PathSound /\ PathTyped
    BY UndividedBefore DEF PeerInv
  <1>2. Jobs' = Jobs
    BY <1>1, JobsStay
  <1>3. OnlyJobs'
    <2>1. CASE DeviceReceives
      <3>1. Takes /\ Receive(toDevice[1])
        BY <1>1, <2>1, DeliveryTakes DEF Takes
      <3>2. \A s \in active' : s \in active \/ (toDevice[1].type = "push" /\ s = toDevice[1].source)
        BY <3>1, ReceiveAdmits
      <3>3. toDevice[1].type = "push" => \E j \in Jobs : toDevice[1].source = j.source
        <4>1. ASSUME toDevice[1].type = "push"
              PROVE  \E j \in Jobs : toDevice[1] = Push(j.source)
          BY <1>1, <3>1, <4>1, TakesAPush DEF PathSound, PathWhole
        <4>2. \A j \in Jobs : Push(j.source).source = j.source
          BY DEF Push
        <4> QED
          BY <4>1, <4>2
      <3> QED
        BY <1>2, <3>2, <3>3 DEF OnlyJobs
    <2>2. CASE ~DeviceReceives
      BY <1>2, <2>2, OthersAdmitNone DEF OnlyJobs
    <2> QED
      BY <2>1, <2>2
  <1>4. ASSUME HearHello PROVE OffOK'
    <2>1. CASE Head(hellos)
      BY <1>4, <2>1, OffStays DEF HearHello, nodeVars, stack
    <2>2. CASE ~Head(hellos)
      BY <1>4, <2>2 DEF HearHello, OffOK
    <2> QED
      BY <2>1, <2>2
  <1>5. ASSUME TakeRequest PROVE OffOK'
    <2>1. UNCHANGED active
      BY <1>5 DEF TakeRequest, nodeVars, stack
    <2>2. CASE SendAlert /\ UNCHANGED off
      BY <1>1, <2>1, <2>2, OffBehindAlert
    <2>3. CASE toDevice' = Append(toDevice, Off)
      BY <1>1, <2>3, OffIsSent
    <2>4. CASE UNCHANGED <<toDevice, off>>
      BY <2>1, <2>4, OffStays
    <2> QED
      BY <1>5, <2>2, <2>3, <2>4 DEF TakeRequest
  <1>6. ASSUME TimedAlert PROVE OffOK'
    BY <1>1, <1>6, OffBehindAlert DEF TimedAlert, nodeVars, stack
  <1>7. ASSUME DeviceReceives PROVE OffOK'
    BY <1>1, <1>7, DeliveryTakes, OffTaken DEF DeviceReceives, histories
  <1>8. ASSUME HttpAsks \/ Hello \/ DeviceDraws \/ AlertExpires
               \/ ShowExpires \/ UNCHANGED peerVars
        PROVE  OffOK'
    <2>1. active' \subseteq active /\ UNCHANGED <<off, toDevice>>
      BY <1>8 DEF HttpAsks, Hello, DeviceDraws, AlertExpires,
                  ShowExpires, histories, Frame, peerVars, wireVars,
                   nodeVars, stack
    <2> QED
      BY <2>1, OffStays
  <1> QED
    BY <1>1, <1>3, <1>4, <1>5, <1>6, <1>7, <1>8 DEF PeerNext

OffInv == PeerInv /\ (Undivided => OnlyJobs /\ OffOK)

\* Over a path that works, an undivided show that was taken off is off once nothing is on
\* its way, and stays off until a device is given it again.
THEOREM OffTakesTheShowOffHolds == PeerSpec => []OffTakesTheShowOff
  <1>1. PeerInit => OffInv
    BY PeerInvInit DEF OffInv, PeerInit, Init, OnlyJobs, OffOK
  <1>2. OffInv /\ [PeerNext]_peerVars => OffInv'
    <2> SUFFICES ASSUME OffInv, [PeerNext]_peerVars PROVE OffInv'
      OBVIOUS
    <2>1. PeerInv'
      BY PeerInvNext DEF OffInv
    <2>2. ASSUME Undivided' PROVE OnlyJobs' /\ OffOK'
      <3>1. Undivided /\ PeerInv
        BY <2>2, UndividedBefore DEF OffInv, PeerInv
      <3> QED
        BY <2>2, <3>1, OffNext DEF OffInv
    <2> QED
      BY <2>1, <2>2 DEF OffInv
  <1>3. OffInv => OffTakesTheShowOff
    <2> SUFFICES ASSUME OffInv, Undivided, Settled, off
                 PROVE  Admitted \cap {ShowId, SecondId} = {}
      BY DEF OffTakesTheShowOff, Undivided
    <2>1. toDevice = << >> /\ Len(toDevice) = 0
      BY DEF Settled
    <2>2. ShowId \notin Admitted
      BY <2>1 DEF OffInv, OffOK
    <2>3. Admitted \subseteq {ShowId, AlertId}
      BY JobsApart DEF OffInv, OnlyJobs, Admitted, Undivided
    <2> QED
      BY <2>2, <2>3, PeerAssumption
  <1> QED
    BY <1>1, <1>2, <1>3, PTL DEF PeerSpec
=============================================================================
