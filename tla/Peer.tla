--------------------------------- MODULE Peer ---------------------------------
(***************************************************************************)
(* The desktop peer that lights a device, puts alerts over its show and    *)
(* takes requests over HTTP: spikes/s5-device/sender/src/peer.rs and       *)
(* http.rs, against the device over Wire.                                  *)
(*                                                                         *)
(* One thread runs the peer's loop, so a whole push_program goes out       *)
(* before the next thing is looked at: it is appended to the path in one   *)
(* step, and the device takes it a datagram at a time with frames and      *)
(* announcements in between.  The HTTP thread only queues requests.        *)
(***************************************************************************)
EXTENDS Wire

CONSTANTS
    Play,           \* the show
    Other,          \* the effect of the second half, when the show is split
    Alert,          \* the alert's effect
    Splits,         \* whether each half of the strip may get an effect of its own
    ShowId, SecondId, AlertId,      \* source ids 7, 8 and 9 in the code
    ShowPriority, AlertPriority,    \* 100 and 230 in the code
    MaxHellos,      \* bound: announcements waiting in the peer's socket
    MaxRequests,    \* bound: HTTP requests made
    MaxAlerts,      \* bound: alerts the timer raises
    MaxReboots      \* bound: restarts of the device

ASSUME PeerAssumption ==
    /\ {Play, Other, Alert} \subseteq Programs
    /\ Splits \subseteq BOOLEAN
    /\ {ShowId, SecondId, AlertId} \subseteq Sources
    /\ ShowId # SecondId /\ ShowId # AlertId /\ SecondId # AlertId
    /\ {ShowPriority, AlertPriority} \subseteq Priorities
    /\ ShowPriority < AlertPriority
    /\ {"all", "first", "second"} \subseteq Zones
    /\ SLOTS >= 2 /\ MAX_SOURCES >= 2      \* 2 and 4 in the code

VARIABLES
    split,          \* the peer was started with an effect for the second half
    hellos,         \* announcements waiting: does the device hold a program?
    provisioned,    \* whether a device's address has been learned
    requests,       \* what HTTP has asked for and the loop has not looked at
    made,           \* how many requests have been made
    alerts,         \* how many alerts the timer has raised
    reboots,        \* how often the device has restarted
    pushedWith,     \* history: the program each source was last pushed with
    off,            \* history: the show was taken off after it was last put on
    runOut          \* history: a show has reached the end of its hour

counts == <<made, alerts, reboots>>
histories == <<pushedWith, off, runOut>>
peerVars == <<nodeVars, wireVars, split, hellos, provisioned, requests, counts, histories>>

ShowSource(id, zone) == [id |-> id, zone |-> zone, priority |-> ShowPriority]
AlertSource == [id |-> AlertId, zone |-> "all", priority |-> AlertPriority]

\* What a device that holds nothing is given.
ShowScript ==
    IF split
    THEN PushProgram(Play, 0, ShowSource(ShowId, "first"))
            \o PushProgram(Other, 1, ShowSource(SecondId, "second"))
    ELSE PushProgram(Play, 0, ShowSource(ShowId, "all"))

\* A mutant of the alert: its program replaces the show's.
AlertScriptInSlot0 == PushProgram(Alert, 0, AlertSource)

AlertScript == PushProgram(Alert, 1, AlertSource)

\* Request::Off takes one source off; a mutant takes the alert off instead.
OffPopsAlert == Pop(AlertId)
Off == Pop(ShowId)

Room(script) == Len(toDevice) + Len(script) <= MaxInFlight

PeerInit ==
    /\ Init
    /\ WireInit
    /\ split \in Splits
    /\ hellos = << >>
    /\ provisioned = FALSE
    /\ requests = << >>
    /\ made = 0
    /\ alerts = 0
    /\ reboots = 0
    /\ pushedWith = [id \in Sources |-> None]
    /\ off = FALSE
    /\ runOut = FALSE

------------------------------------------------------------------------------
\* Any announcement says where the device is; one that says it holds nothing is
\* answered with the show.
HearHello ==
    /\ hellos # << >>
    /\ hellos' = Tail(hellos)
    /\ provisioned' = TRUE
    /\ IF Head(hellos)
       THEN UNCHANGED <<toDevice, pushedWith, off>>
       ELSE /\ Room(ShowScript)
            /\ toDevice' = toDevice \o ShowScript
            /\ pushedWith' = [pushedWith EXCEPT ![ShowId] = Play,
                                                ![SecondId] = IF split THEN Other ELSE @]
            /\ off' = FALSE
    /\ UNCHANGED <<split, nodeVars, faults, lost, requests, counts, runOut>>

SendAlert ==
    /\ Room(AlertScript)
    /\ toDevice' = toDevice \o AlertScript
    /\ pushedWith' = [pushedWith EXCEPT ![AlertId] = Alert]

\* route() and the HTTP thread: an understood request goes to the loop.
HttpAsks ==
    /\ made < MaxRequests
    /\ made' = made + 1
    /\ \E request \in {"alert", "off"} : requests' = Append(requests, request)
    /\ UNCHANGED <<split, nodeVars, wireVars, hellos, provisioned, alerts, reboots, histories>>

\* The loop carries a request out, or drops it if it knows no device.
TakeRequest ==
    /\ requests # << >>
    /\ requests' = Tail(requests)
    /\ \/ /\ Head(requests) = "alert" /\ provisioned
          /\ SendAlert
          /\ UNCHANGED off
       \/ /\ Head(requests) = "off" /\ provisioned
          /\ Room(<<Off>>)
          /\ toDevice' = Append(toDevice, Off)
          /\ off' = TRUE
          /\ UNCHANGED pushedWith
       \/ ~provisioned /\ UNCHANGED <<toDevice, pushedWith, off>>
    /\ UNCHANGED <<split, nodeVars, faults, lost, hellos, provisioned, counts, runOut>>

\* The timer raises an alert over the show.
TimedAlert ==
    /\ provisioned
    /\ alerts < MaxAlerts
    /\ alerts' = alerts + 1
    /\ SendAlert
    /\ UNCHANGED <<split, nodeVars, faults, lost, hellos, provisioned, requests, made, reboots,
                   off, runOut>>

------------------------------------------------------------------------------
DeviceReceives ==
    /\ Deliver
    /\ UNCHANGED <<split, hellos, provisioned, requests, counts, histories>>

Hello ==
    /\ Len(hellos) < MaxHellos
    /\ hellos' = Append(hellos, HasProgram)
    /\ UNCHANGED <<split, nodeVars, wireVars, provisioned, requests, counts, histories>>

\* A frame before which advance() finds nothing over.  An alert is over after some
\* seconds, and the show after an hour; when that is, is left open.
DeviceDraws ==
    /\ Frame({})
    /\ UNCHANGED <<split, wireVars, hellos, provisioned, requests, counts, histories>>

AlertExpires ==
    /\ AlertId \in Admitted
    /\ Frame({s \in active : s.id = AlertId})
    /\ UNCHANGED <<split, wireVars, hellos, provisioned, requests, counts, histories>>

ShowExpires ==
    /\ \E gone \in SUBSET {s \in active : s.id # AlertId} \ {{}} : Frame(gone)
    /\ runOut' = TRUE
    /\ UNCHANGED <<split, wireVars, hellos, provisioned, requests, counts, pushedWith, off>>

DeviceRestarts ==
    /\ reboots < MaxReboots
    /\ reboots' = reboots + 1
    /\ Reboot
    /\ UNCHANGED <<split, wireVars, hellos, provisioned, requests, made, alerts, histories>>

PathFails ==
    /\ Fault
    /\ UNCHANGED <<split, hellos, provisioned, requests, counts, histories>>

PeerNext ==
    \/ HearHello \/ HttpAsks \/ TakeRequest \/ TimedAlert
    \/ DeviceReceives \/ Hello \/ DeviceDraws \/ AlertExpires \/ ShowExpires \/ DeviceRestarts
    \/ PathFails

\* The peer's loop comes round to its socket and to the requests, the device's
\* to its socket, its announcement and its frame grid; every alert carries an
\* expiry.  Nobody need make a request, raise an alert, wait for an hour,
\* restart or lose anything.
PeerFairness ==
    /\ WF_peerVars(HearHello) /\ WF_peerVars(TakeRequest)
    /\ WF_peerVars(DeviceReceives) /\ WF_peerVars(Hello)
    /\ SF_peerVars(DeviceDraws) /\ SF_peerVars(AlertExpires)

PeerSpec == PeerInit /\ [][PeerNext]_peerVars /\ PeerFairness

------------------------------------------------------------------------------
\* Nothing is on its way to the device or half way into it.
Settled == toDevice = << >> /\ filling = None

\* "The device renders every admitted source against the one it was pushed
\* with" (RESULTS.md): once nothing is on its way, what an admitted source
\* renders is the program the peer pushed it with, or nothing.
RendersItsOwn ==
    Settled =>
        \A s \in active :
            LET slot == SlotOf(s.id)
            IN  slot_len[slot] > 0 =>
                    /\ IsWhole(Image(slot))
                    /\ Image(slot)[1] = pushedWith[s.id]

\* The path has failed nobody and the device has run through.
Undisturbed == faults = 0 /\ reboots = 0

\* What holds of it: with an undivided show, over a path that works.
UndividedRendersItsOwn == Undisturbed /\ ~split => RendersItsOwn

\* /off means "Take the show back off": once nothing is on its way, no part of
\* an undivided show is admitted until a device is given it again, in whatever
\* order requests, announcements and alerts have come.
OffTakesTheShowOff ==
    Undisturbed /\ ~split /\ Settled /\ off => Admitted \cap {ShowId, SecondId} = {}

\* What the strip shows when the show alone is drawn.
WholeImage(p) == [i \in 1 .. Size[p] |-> p]
ShowPicture ==
    [h \in Halves |-> WholeImage(IF split /\ h = "second" THEN Other ELSE Play)]

\* An alert clears itself: over a path that works the strip comes back to an
\* undivided show for good, unless the show was taken off or its hour is up.
ShowReturns ==
    <>(~Undisturbed \/ split) \/ <>[](frame = ShowPicture) \/ []<>off \/ <>runOut

\* The programs the peer sends to slot s; Other if the show is split.
SentTo(s) == IF s = 0 THEN {Play} ELSE {Other, Alert}

\* A slot that is being filled holds nothing yet.
Slots == INSTANCE Store WITH
    Slots <- Slot,
    Given <- [s \in Slot |-> {WholeImage(p) : p \in SentTo(s)}],
    Nothing <- Empty,
    held <- [s \in Slot |-> IF s = filling THEN Empty ELSE Image(s)]

\* The peer, the path and the device together are a Store: the transfers into
\* the two slots never run into each other, nothing half received is taken for
\* a program, and neither is what was sent to the other slot - with a datagram
\* lost, repeated or overtaken, and with the device restarting in the middle.
IsStore == Slots!Spec
==============================================================================
