--------------------------------- MODULE Wire ---------------------------------
(***************************************************************************)
(* The path from a sender to one device: the datagrams that                *)
(* spikes/s5-device/sender/src/main.rs frames, a UDP path that may lose,   *)
(* repeat or reorder them, and the device's dispatch on what arrives       *)
(* (receive() in node.rs).                                                 *)
(***************************************************************************)
EXTENDS Node

CONSTANTS
    Faults,         \* what the path may do: a subset of FaultKinds
    MaxFaults,      \* bound: how many faults a behaviour has
    MaxInFlight     \* bound: datagrams on the path

FaultKinds == {"lose", "repeat", "swap"}

ASSUME WireAssumption ==
    /\ Faults \subseteq FaultKinds
    /\ MaxFaults \in Nat
    /\ MaxInFlight \in Nat

VARIABLES
    toDevice,       \* the datagrams on their way, oldest first
    faults,         \* how many faults there have been
    lost            \* history: whether one of them was a loss

wireVars == <<toDevice, faults, lost>>

------------------------------------------------------------------------------
\* The datagrams that change a device's slots and sources.
Begin(slot, total) == [type |-> "begin", slot |-> slot, total |-> total]
Chunk(p, at) == [type |-> "chunk", program |-> p, at |-> at]
End == [type |-> "end"]
Push(src) == [type |-> "push", source |-> src]
Pop(id) == [type |-> "pop", id |-> id]

Datagram ==
    {Begin(slot, total) : slot \in Slot, total \in Lengths}
        \cup {Chunk(p, at) : p \in Programs, at \in 1 .. MAX_PROGRAM}
        \cup {End}
        \cup {Push(src) : src \in Source}
        \cup {Pop(id) : id \in Sources}

\* Everything a sender says to have a program rendered: its beginning, its
\* chunks in order, its end, and the source that uses it.
PushProgram(p, slot, src) ==
    <<Begin(slot, Size[p])>> \o [at \in 1 .. Size[p] |-> Chunk(p, at)] \o <<End, Push(src)>>

------------------------------------------------------------------------------
WireInit ==
    /\ toDevice = << >>
    /\ faults = 0
    /\ lost = FALSE

\* receive(): what the device does with a datagram.
Receive(m) ==
    \/ m.type = "begin" /\ ProgBegin(m.slot, m.total)
    \/ m.type = "chunk" /\ ProgChunk(m.program, m.at)
    \/ m.type = "end" /\ ProgEnd
    \/ m.type = "push" /\ SrcPush(m.source)
    \/ m.type = "pop" /\ SrcPop(m.id)

Deliver ==
    /\ toDevice # << >>
    /\ Receive(Head(toDevice))
    /\ toDevice' = Tail(toDevice)
    /\ UNCHANGED <<faults, lost>>

Without(q, i) == SubSeq(q, 1, i - 1) \o SubSeq(q, i + 1, Len(q))

Lose ==
    /\ "lose" \in Faults
    /\ \E i \in DOMAIN toDevice : toDevice' = Without(toDevice, i)
    /\ lost' = TRUE

Repeat ==
    /\ "repeat" \in Faults
    /\ Len(toDevice) < MaxInFlight
    /\ \E i \in DOMAIN toDevice :
           toDevice' = SubSeq(toDevice, 1, i) \o SubSeq(toDevice, i, Len(toDevice))
    /\ UNCHANGED lost

Swap ==
    /\ "swap" \in Faults
    /\ \E i \in 1 .. Len(toDevice) - 1 :
           toDevice' = [toDevice EXCEPT ![i] = toDevice[i + 1], ![i + 1] = toDevice[i]]
    /\ UNCHANGED lost

Fault ==
    /\ faults < MaxFaults
    /\ Lose \/ Repeat \/ Swap
    /\ faults' = faults + 1
    /\ UNCHANGED nodeVars
==============================================================================
