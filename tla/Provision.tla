------------------------------ MODULE Provision ------------------------------
(***************************************************************************)
(* A sender that finds a device and gives it a program: the controller     *)
(* loop of spikes/s5-device/sender/src/main.rs against the device's        *)
(* receive, hello and frame handling (spikes/s5-device/src/main.rs), over  *)
(* Wire.  The device announces whether it holds a program; the sender      *)
(* answers an announcement that says it does not with the whole transfer   *)
(* and then goes on listening.  The device may restart and so may the      *)
(* sender.  What is pushed lasts until a moment that the sender counts     *)
(* from its own start and the device compares with its show clock.         *)
(***************************************************************************)
EXTENDS Wire

CONSTANTS
    Effect,         \* the program the sender was started with
    Show,           \* the source it pushes to render it
    MayLead,        \* whether the device's show clock may be far ahead of the sender's
    MaxHellos,      \* bound: announcements waiting in the sender's socket
    MaxReboots,     \* bound: restarts of the device
    MaxRestarts     \* bound: restarts of the sender

ASSUME ProvisionAssumption ==
    /\ Effect \in Programs
    /\ Show \in Source
    /\ MayLead \in BOOLEAN
    /\ MaxHellos \in Nat \ {0}
    /\ MaxReboots \in Nat
    /\ MaxRestarts \in Nat

VARIABLES
    hellos,         \* announcements waiting: does the device hold a program?
    stage,          \* where the sender's loop is
    sent,           \* how much of the transfer it has sent
    ahead,          \* whether the device's show clock leads the sender's by all that
                    \* a show lasts, so that what it pushes is over when it arrives
    over,           \* whether the show's time has passed on the device's clock
    reboots,        \* how often the device has restarted
    restarts        \* how often the sender has restarted

senderVars == <<stage, sent>>
clockVars == <<ahead, over>>
systemVars == <<nodeVars, wireVars, hellos, senderVars, clockVars, reboots, restarts>>

Script == PushProgram(Effect, 0, Show)

SystemInit ==
    /\ Init
    /\ WireInit
    /\ hellos = << >>
    /\ stage = "wait"
    /\ sent = 0
    /\ ahead \in {FALSE, MayLead}
    /\ over = FALSE
    /\ reboots = 0
    /\ restarts = 0

------------------------------------------------------------------------------
\* wait_for_needy_device(): announcements of a device that holds a program are
\* passed over.
AwaitNeedy ==
    /\ stage = "wait"
    /\ hellos # << >>
    /\ hellos' = Tail(hellos)
    /\ IF Head(hellos)
       THEN UNCHANGED senderVars
       ELSE stage' = "send" /\ sent' = 0
    /\ UNCHANGED <<nodeVars, wireVars, clockVars, reboots, restarts>>

\* A mutant of the transfer: the push, its last datagram, is left out.
SendNextButThePush ==
    /\ stage = "send"
    /\ Len(toDevice) < MaxInFlight
    /\ toDevice' = Append(toDevice, Script[sent + 1])
    /\ sent' = sent + 1
    /\ stage' = IF sent' = Len(Script) - 1 THEN "drive" ELSE "send"
    /\ UNCHANGED <<nodeVars, faults, lost, hellos, clockVars, reboots, restarts>>

\* One datagram of the transfer, which is never acknowledged.
SendNext ==
    /\ stage = "send"
    /\ Len(toDevice) < MaxInFlight
    /\ toDevice' = Append(toDevice, Script[sent + 1])
    /\ sent' = sent + 1
    /\ stage' = IF sent' = Len(Script) THEN "drive" ELSE "send"
    /\ UNCHANGED <<nodeVars, faults, lost, hellos, clockVars, reboots, restarts>>

\* A mutant of driving: what the device announces is not looked at.
DriveDeaf ==
    /\ stage = "drive"
    /\ hellos # << >>
    /\ hellos' = Tail(hellos)
    /\ UNCHANGED <<nodeVars, wireVars, senderVars, clockVars, reboots, restarts>>

\* The loop that drives the device listens too, and an announcement that says
\* there is no program takes the sender back to waiting for another one.
Drive ==
    /\ stage = "drive"
    /\ hellos # << >>
    /\ hellos' = Tail(hellos)
    /\ stage' = IF Head(hellos) THEN "drive" ELSE "wait"
    /\ UNCHANGED <<nodeVars, wireVars, sent, clockVars, reboots, restarts>>

\* The sender dies at any point, and a new one knows nothing and has a new socket.
SenderRestarts ==
    /\ restarts < MaxRestarts
    /\ restarts' = restarts + 1
    /\ stage' = "wait"
    /\ sent' = 0
    /\ hellos' = << >>
    /\ UNCHANGED <<nodeVars, wireVars, clockVars, reboots>>

------------------------------------------------------------------------------
\* The device takes a datagram off its socket.  A push brings the moment the show is
\* over, which is past already if the device's clock is ahead.
DeviceReceives ==
    /\ Deliver
    /\ over' = IF Head(toDevice).type = "push" /\ CanAdmit(Head(toDevice).source)
               THEN ahead ELSE over
    /\ UNCHANGED <<hellos, senderVars, ahead, reboots, restarts>>

\* The device announces itself, and says whether it holds a program.
Hello ==
    /\ Len(hellos) < MaxHellos
    /\ hellos' = Append(hellos, HasProgram)
    /\ UNCHANGED <<nodeVars, wireVars, senderVars, clockVars, reboots, restarts>>

\* The device draws a frame, once advance() has dropped a show that is over.  A show
\* lasts minutes: it is over only after it has been drawn, if it can be, and not while
\* a datagram is on its way.
DeviceDraws ==
    /\ Frame(IF over THEN active ELSE {})
    /\ over' \in {FALSE, Drawable(active') # {} /\ toDevice = << >>}
    /\ UNCHANGED <<wireVars, hellos, senderVars, ahead, reboots, restarts>>

\* The device's clock is set by its mesh and the sender's counts from the sender's
\* start, so that the one may come to lead the other, or no longer to.
ClocksPart ==
    /\ MayLead
    /\ ahead' = ~ahead
    /\ over' \in {over, ahead' /\ active # {}}
    /\ UNCHANGED <<nodeVars, wireVars, hellos, senderVars, reboots, restarts>>

DeviceRestarts ==
    /\ reboots < MaxReboots
    /\ reboots' = reboots + 1
    /\ Reboot
    /\ ahead' = FALSE
    /\ over' = FALSE
    /\ UNCHANGED <<wireVars, hellos, senderVars, restarts>>

PathFails == Fault /\ UNCHANGED <<hellos, senderVars, clockVars, reboots, restarts>>

SystemNext ==
    \/ AwaitNeedy \/ SendNext \/ Drive \/ SenderRestarts
    \/ DeviceReceives \/ Hello \/ DeviceDraws \/ DeviceRestarts
    \/ ClocksPart \/ PathFails

\* Both programs are loops that come round to each of these; what is on the
\* path and is not lost arrives.  Drawing is strongly fair: the frame grid comes
\* round every 33 ms and announcements every second, so however often the device
\* is provisioned again, a frame falls where there is something to draw.
\* Nothing obliges anyone to fail.
Fairness ==
    /\ WF_systemVars(AwaitNeedy) /\ WF_systemVars(SendNext) /\ WF_systemVars(Drive)
    /\ WF_systemVars(DeviceReceives) /\ WF_systemVars(Hello) /\ SF_systemVars(DeviceDraws)

SystemSpec == SystemInit /\ [][SystemNext]_systemVars /\ Fairness

------------------------------------------------------------------------------
Lit == \E h \in Halves : frame[h] # Black

\* As long as nothing is lost, the sender lives and the device's clock does not lead
\* the sender's, the strip lights and stays lit, whatever the path repeats or reorders,
\* whenever the device restarts (in the middle of a transfer, between it and the push,
\* or with an announcement of its previous life still waiting) and also when the show
\* is over.
EventuallyLit == <>[]Lit \/ <>(lost \/ restarts > 0 \/ ahead)

\* Whatever the path does to a bounded number of datagrams and whoever restarts,
\* the device never stays without anything in its slots: an incomplete transfer
\* either leaves nothing, and is repeated, or leaves something behind.
NeverEmptyForGood == []<>HasProgram

\* The same of any loss, as "a device should never be dark because of software"
\* has it (docs/overview.md) and the announcement is there to bring about.
LitWhateverIsLost == <>[]Lit
==============================================================================
