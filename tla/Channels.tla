------------------------------- MODULE Channels -------------------------------
(***************************************************************************)
(* A channel of a device's program, from those who drive it to the frames  *)
(* that read it: the declaration in ProgEnd, ChanClaim and Chan of         *)
(* spikes/s5-device/src/node.rs, the loop that claims, renews and drives   *)
(* in sender/src/main.rs, and the two clocks that main.rs hands to the     *)
(* node: receive() gets the hardware counter and render() the show clock.  *)
(*                                                                         *)
(* Times are kept as durations: how long a lease still runs, how old a     *)
(* value is, how far the show clock is ahead of the hardware.  The channel *)
(* itself (lumen_device) is external: a claim takes a channel that is      *)
(* free, the claimant's own, or held at a lower priority; only the holder  *)
(* publishes; a value is read until it is older than the channel's hold    *)
(* and the default is read otherwise.                                      *)
(***************************************************************************)
EXTENDS Integers, FiniteSets, Sequences

CONSTANTS
    Producers,      \* who may drive the channel
    Prefix,         \* Prefix[s]: the prefix in the headers of producer s
    Priority,       \* Priority[s]: what it claims at
    DRIVE,          \* time between two values, RENEW between two claims,
    RENEW,
    LEASE,          \* how long a claim lasts, and a value is read
    HOLD,
    MaxAhead,       \* bound: show clock less hardware is -MaxAhead .. MaxAhead
    MaxInFlight,    \* bound: datagrams on the path
    MaxLost,        \* bound: datagrams lost
    MaxDepartures,  \* bound: producers that die, or leave for another device
    MaxReboots,     \* bound: restarts of the device
    None

ASSUME ChannelAssumption ==
    /\ {DRIVE, RENEW, LEASE, HOLD} \subseteq Nat \ {0}
    /\ {MaxAhead, MaxInFlight, MaxLost, MaxDepartures, MaxReboots} \subseteq Nat
    /\ None \notin Producers
    /\ \A s \in Producers : Prefix[s] # None /\ Priority[s] \in Nat

VARIABLES
    held,           \* whether the device says that it has a program
    declared,       \* whether it has the channel
    holder,         \* prefix and priority of the last claim; None if there was none
    left,           \* how long its lease still runs
    value,          \* whose value was published last; None for the default
    age,            \* how long ago
    ahead           \* the show clock less the hardware counter

VARIABLES
    driving,        \* which producers are in their driving loop
    drive_in,       \* when each is to send its next value
    renew_in,       \* when each is to send its next claim
    path            \* the datagrams on their way

(***************************************************************************)
(* Faults so far, and history: who has died, how long a producer has been  *)
(* gone, who had a claim granted since it came, and whose values were      *)
(* taken since then and since the channel was last taken.                  *)
(***************************************************************************)
VARIABLES lost, reboots, dead, departures, gone, claimed, tenure

channel == <<declared, holder, left, value, age>>
senders == <<driving, drive_in, renew_in>>
faultVars == <<lost, reboots, dead, departures>>
channelVars == <<held, channel, ahead, senders, path, faultVars, gone, claimed, tenure>>

Less(x, y) == IF x < y THEN x ELSE y
More(x, y) == IF x < y THEN y ELSE x
Down(x) == IF x > 0 THEN x - 1 ELSE 0

\* Nothing tells apart ages, or times since a departure, beyond these.
Oldest == HOLD + MaxAhead + 1
LongGone == More(LEASE + 1, Oldest)

Message(kind, s) == [kind |-> kind, from |-> s]
Room(n) == Len(path) + n <= MaxInFlight

------------------------------------------------------------------------------
\* ProgEnd declares the channels of the program, and a channel that is declared
\* again may be kept or start over.
Declare ==
    /\ held' = TRUE /\ declared' = TRUE
    /\ \/ /\ holder' = None /\ left' = 0 /\ value' = None /\ age' = 0
          /\ claimed' = {} /\ tenure' = {}
       \/ declared /\ UNCHANGED <<holder, left, value, age, claimed, tenure>>

\* A transfer of which something is missing: the device may have what came of it, or
\* what it had is gone; it ends in a program only if nothing shows what is missing.
Mangled ==
    \/ Declare
    \/ held' \in BOOLEAN /\ UNCHANGED <<channel, claimed, tenure>>

\* A mutant of the claim: the lease runs on the show clock.
ClaimInShowTime(s) ==
    LET mine == <<Prefix[s], Priority[s]>>
    IN  IF declared /\ (left = 0 \/ holder[1] = Prefix[s] \/ holder[2] < Priority[s])
        THEN /\ holder' = mine
             /\ left' = LEASE + (IF ahead > 0 THEN ahead ELSE 0)
             /\ claimed' = claimed \cup {s}
             /\ tenure' = IF left > 0 /\ holder = mine THEN tenure ELSE {}
             /\ UNCHANGED <<declared, value, age>>
        ELSE UNCHANGED <<channel, claimed, tenure>>

\* ChanClaim, at the hardware time at which it arrives; a device without the
\* channel has no use for it.
ChanClaim(s) ==
    LET mine == <<Prefix[s], Priority[s]>>
    IN  IF declared /\ (left = 0 \/ holder[1] = Prefix[s] \/ holder[2] < Priority[s])
        THEN /\ holder' = mine
             /\ left' = LEASE
             /\ claimed' = claimed \cup {s}
             /\ tenure' = IF left > 0 /\ holder = mine THEN tenure ELSE {}
             /\ UNCHANGED <<declared, value, age>>
        ELSE UNCHANGED <<channel, claimed, tenure>>

\* Chan: a value is taken from the holder, at the hardware time of its arrival.
Chan(s) ==
    IF declared /\ left > 0 /\ holder[1] = Prefix[s]
    THEN /\ value' = s /\ age' = 0
         /\ tenure' = tenure \cup {s}
         /\ UNCHANGED <<declared, holder, left, claimed>>
    ELSE UNCHANGED <<channel, claimed, tenure>>

\* What a frame reads: the value is as old as the show clock makes it, which is
\* no less than nothing.
Read == IF declared /\ value # None /\ age + ahead <= HOLD THEN value ELSE None

------------------------------------------------------------------------------
ChannelInit ==
    /\ held = FALSE
    /\ declared = FALSE
    /\ holder = None
    /\ left = 0
    /\ value = None
    /\ age = 0
    /\ ahead \in -MaxAhead .. 0
    /\ driving = [s \in Producers |-> FALSE]
    /\ drive_in = [s \in Producers |-> 0]
    /\ renew_in = [s \in Producers |-> 0]
    /\ path = << >>
    /\ lost = 0
    /\ reboots = 0
    /\ dead = {}
    /\ departures = 0
    /\ gone = [s \in Producers |-> LongGone]
    /\ claimed = {}
    /\ tenure = {}

\* A producer hears that the device has nothing, if only from long ago when it does
\* not drive it: it sends the program and a claim and begins to drive the channel.
Provide(s) ==
    /\ s \notin dead
    /\ ~driving[s] \/ ~held
    /\ Room(2) /\ path' = path \o <<Message("transfer", s), Message("claim", s)>>
    /\ driving' = [driving EXCEPT ![s] = TRUE]
    /\ drive_in' = [drive_in EXCEPT ![s] = 0]
    /\ renew_in' = [renew_in EXCEPT ![s] = 0]
    /\ gone' = [gone EXCEPT ![s] = 0]
    /\ claimed' = claimed \ {s} /\ tenure' = tenure \ {s}
    /\ UNCHANGED <<held, channel, ahead, faultVars>>

\* A mutant of driving: twice a second, whatever DRIVE says, which is what the
\* comment on the read timeout says happened.
DriveSlowly(s) ==
    /\ driving[s]
    /\ drive_in[s] = 0
    /\ drive_in' = [drive_in EXCEPT ![s] = HOLD + MaxAhead]
    /\ Room(1) /\ path' = Append(path, Message("value", s))
    /\ UNCHANGED <<held, channel, ahead, driving, renew_in, faultVars, gone, claimed, tenure>>

Drive(s) ==
    /\ driving[s]
    /\ drive_in[s] = 0
    /\ drive_in' = [drive_in EXCEPT ![s] = DRIVE]
    /\ Room(1) /\ path' = Append(path, Message("value", s))
    /\ UNCHANGED <<held, channel, ahead, driving, renew_in, faultVars, gone, claimed, tenure>>

\* A mutant of renewing: only the Tick is sent.
RenewNothing(s) ==
    /\ driving[s]
    /\ renew_in[s] = 0
    /\ renew_in' = [renew_in EXCEPT ![s] = RENEW]
    /\ UNCHANGED <<held, channel, ahead, driving, drive_in, path, faultVars, gone, claimed, tenure>>

\* With every Tick the claim is renewed.
Renew(s) ==
    /\ driving[s]
    /\ renew_in[s] = 0
    /\ renew_in' = [renew_in EXCEPT ![s] = RENEW]
    /\ Room(1) /\ path' = Append(path, Message("claim", s))
    /\ UNCHANGED <<held, channel, ahead, driving, drive_in, faultVars, gone, claimed, tenure>>

Without(i) == SubSeq(path, 1, i - 1) \o SubSeq(path, i + 1, Len(path))

Receive ==
    /\ path # << >>
    /\ LET m == Head(path)
       IN  \/ m.kind = "transfer" /\ Declare
           \/ m.kind = "part" /\ Mangled
           \/ m.kind = "claim" /\ ChanClaim(m.from) /\ UNCHANGED held
           \/ m.kind = "value" /\ Chan(m.from) /\ UNCHANGED held
    /\ path' = Tail(path)
    /\ UNCHANGED <<ahead, senders, faultVars, gone>>

\* A datagram is lost.  A transfer is several, and the rest of them goes on.
Lose ==
    /\ lost < MaxLost
    /\ lost' = lost + 1
    /\ \E i \in DOMAIN path :
           path' = IF path[i].kind = "transfer"
                   THEN [path EXCEPT ![i] = Message("part", path[i].from)] ELSE Without(i)
    /\ UNCHANGED <<held, channel, ahead, senders, reboots, dead, departures, gone,
                   claimed, tenure>>

\* A producer leaves its driving loop.
Departs(s) ==
    /\ driving[s]
    /\ departures < MaxDepartures /\ departures' = departures + 1
    /\ driving' = [driving EXCEPT ![s] = FALSE]
    /\ drive_in' = [drive_in EXCEPT ![s] = 0]
    /\ renew_in' = [renew_in EXCEPT ![s] = 0]
    /\ UNCHANGED <<held, channel, ahead, path, lost, reboots, gone, claimed, tenure>>

\* Whichever device says that it has nothing takes a producer out of its driving
\* loop; if it is another one, that is the one the producer goes on with.
Leaves(s) ==
    /\ Departs(s)
    /\ UNCHANGED dead

Dies(s) ==
    /\ Departs(s)
    /\ dead' = dead \cup {s}

\* The device loses what it had, and takes no rest of a transfer that has begun.
DeviceRestarts ==
    /\ reboots < MaxReboots
    /\ reboots' = reboots + 1
    /\ held' = FALSE /\ declared' = FALSE
    /\ holder' = None /\ left' = 0 /\ value' = None /\ age' = 0
    /\ claimed' = {} /\ tenure' = {}
    /\ \/ UNCHANGED path
       \/ path # << >> /\ Head(path).kind \in {"transfer", "part"} /\ path' = Tail(path)
    /\ UNCHANGED <<ahead, senders, lost, dead, departures, gone>>

\* A correction takes the show clock forward, which is the only way it is
\* stepped.
ShowSteps ==
    /\ \E further \in ahead + 1 .. MaxAhead : ahead' = further
    /\ UNCHANGED <<held, channel, senders, path, faultVars, gone, claimed, tenure>>

\* A unit of time passes, once whoever had something to do has done it.  A
\* datagram takes less than a unit.
Pass ==
    /\ \A s \in Producers : driving[s] => drive_in[s] > 0 /\ renew_in[s] > 0
    /\ path = << >>
    /\ left' = Down(left)
    /\ age' = Less(age + 1, Oldest)
    /\ drive_in' = [s \in Producers |-> Down(drive_in[s])]
    /\ renew_in' = [s \in Producers |-> Down(renew_in[s])]
    /\ gone' = [s \in Producers |-> IF driving[s] THEN 0 ELSE Less(gone[s] + 1, LongGone)]
    /\ UNCHANGED <<held, declared, holder, value, ahead, driving, path, faultVars, claimed, tenure>>

ChannelNext ==
    \/ \E s \in Producers : Provide(s) \/ Drive(s) \/ Renew(s) \/ Leaves(s) \/ Dies(s)
    \/ Receive \/ Lose \/ DeviceRestarts \/ ShowSteps \/ Pass

\* Time passes, datagrams arrive, and a producer that drives and lives comes
\* round to what is due.  A device that has nothing says so every second, and the
\* producer that was driving it hears it in the end; nobody need begin to drive.
ChannelFairness ==
    /\ WF_channelVars(Pass) /\ WF_channelVars(Receive)
    /\ \A s \in Producers :
           /\ WF_channelVars(Drive(s)) /\ WF_channelVars(Renew(s))
           /\ SF_channelVars(driving[s] /\ Provide(s))

ChannelSpec == ChannelInit /\ [][ChannelNext]_channelVars /\ ChannelFairness

------------------------------------------------------------------------------
ChannelTypeOK ==
    /\ held \in BOOLEAN /\ declared \in BOOLEAN
    /\ holder \in {None} \cup {<<Prefix[s], Priority[s]>> : s \in Producers}
    /\ left \in 0 .. LEASE
    /\ value \in Producers \cup {None}
    /\ age \in 0 .. Oldest
    /\ ahead \in -MaxAhead .. MaxAhead
    /\ driving \in [Producers -> BOOLEAN]
    /\ drive_in \in [Producers -> 0 .. DRIVE]
    /\ renew_in \in [Producers -> 0 .. RENEW]
    /\ path \in Seq([kind : {"transfer", "part", "claim", "value"}, from : Producers])
    /\ dead \subseteq Producers
    /\ {lost, reboots, departures} \subseteq Nat
    /\ gone \in [Producers -> 0 .. LongGone]
    /\ claimed \subseteq Producers
    /\ tenure \subseteq Producers

Holds(s) == left > 0 /\ holder[1] = Prefix[s]

\* "Renew, so the lease never runs out under a producer that is still here":
\* with as many claims lost as leave one in time, the lease of a holder that
\* has been granted it since it came, and goes on driving, is running.
LeaseIsKept ==
    \A s \in claimed :
        driving[s] /\ holder # None /\ holder[1] = Prefix[s] /\ (lost + 1) * RENEW < LEASE
            => left > 0

\* What a producer leaves behind when it dies or goes on with another device is
\* gone in time.  "A lease that outlives the producer would leave a channel
\* nobody can take over": whoever holds the channel, or another of that name, was
\* there within a lease's length.  "Stale
\* channels decay to a default": with everybody gone a frame reads the default as
\* soon as the hold, and what the show clock is behind, have passed.
GoneInTime ==
    /\ \A s \in Producers :
           Holds(s) => \E r \in Producers : Prefix[r] = Prefix[s] /\ gone[r] < LEASE
    /\ (\A s \in Producers : gone[s] > HOLD - ahead) => Read = None

Reads(s) == Read # None /\ Prefix[Read] = Prefix[s]

\* A slider that moves is seen to move: a frame reads a value of whoever holds the
\* channel and drives it, unless the datagrams lost and the lead of the show clock
\* over the hardware together use the hold up.
SliderIsRead ==
    \A s \in Producers :
        Holds(s) /\ driving[s] /\ s \in tenure /\ (lost + 1) * DRIVE + ahead <= HOLD => Reads(s)

\* The same of any show clock, which is what show_time() says the node is given
\* ("Show time, which the caller already holds").
FreshValueIsRead ==
    \A s \in Producers :
        Holds(s) /\ driving[s] /\ s \in tenure /\ (lost + 1) * DRIVE <= HOLD => Reads(s)

\* Of those that live and drive, the one with the highest priority is read in
\* the end and for good: through losses, restarts of the device, and the departure of
\* another who held the channel; unless the device is left with a part of a transfer
\* that looks like a program and has no channels, which it does not ask to be mended.
Foremost(s) ==
    /\ driving[s]
    /\ \A r \in Producers : driving[r] => Priority[r] <= Priority[s]
ForemostIsRead ==
    \A s \in Producers :
        <>[](Foremost(s) /\ ahead + DRIVE <= HOLD) => <>[](Read = s) \/ <>[](held /\ ~declared)
==============================================================================
