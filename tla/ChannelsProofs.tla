---------------------------- MODULE ChannelsProofs ----------------------------
(***************************************************************************)
(* What a channel guarantees for every number of producers, whatever they  *)
(* call themselves, every lease, hold and rhythm, and every number of      *)
(* losses, departures and restarts.                                        *)
(***************************************************************************)
EXTENDS Channels, TLAPS

Kinds == {"transfer", "part", "claim", "value"}
Datagrams == [kind : Kinds, from : Producers]

\* What two stretches of a path are together.
LEMMA Joined ==
    ASSUME NEW a \in Seq(Datagrams), NEW b \in Seq(Datagrams)
    PROVE  /\ a \o b \in Seq(Datagrams)
           /\ Len(a \o b) = Len(a) + Len(b)
           /\ \A j \in 1 .. Len(a) + Len(b) :
                 (a \o b)[j] = IF j <= Len(a) THEN a[j] ELSE b[j - Len(a)]
  OBVIOUS

\* The path as it was without one of its datagrams has no others than it had.
LEMMA WithoutOne ==
    ASSUME NEW P \in Seq(Datagrams), path = P, NEW i \in DOMAIN path
    PROVE  /\ Without(i) \in Seq(Datagrams)
           /\ \A j \in DOMAIN Without(i) : \E k \in DOMAIN path : Without(i)[j] = path[k]
  <1> DEFINE before == SubSeq(P, 1, i - 1)
             after == SubSeq(P, i + 1, Len(P))
  <1>1. i \in 1 .. Len(P) /\ Len(P) \in Nat
    OBVIOUS
  <1>2. /\ before \in Seq(Datagrams) /\ Len(before) = i - 1
        /\ \A j \in 1 .. i - 1 : before[j] = P[j]
    BY <1>1
  <1>3. /\ after \in Seq(Datagrams) /\ Len(after) = Len(P) - i
        /\ \A j \in 1 .. Len(P) - i : after[j] = P[j + i]
    BY <1>1
  <1>4. Without(i) = before \o after
    BY DEF Without
  <1> HIDE DEF before, after
  <1>5. /\ before \o after \in Seq(Datagrams)
        /\ Len(before \o after) = Len(P) - 1
        /\ \A j \in 1 .. Len(P) - 1 :
              (before \o after)[j] = IF j <= i - 1 THEN before[j] ELSE after[j - (i - 1)]
    <2>1. /\ before \o after \in Seq(Datagrams)
          /\ Len(before \o after) = Len(before) + Len(after)
          /\ \A j \in 1 .. Len(before) + Len(after) :
                (before \o after)[j]
                    = IF j <= Len(before) THEN before[j] ELSE after[j - Len(before)]
      BY <1>2, <1>3, Joined
    <2>2. Len(before) + Len(after) = Len(P) - 1
      BY <1>1, <1>2, <1>3
    <2> QED
      BY <1>2, <2>1, <2>2
  <1>6. ASSUME NEW j \in DOMAIN Without(i)
        PROVE  \E k \in DOMAIN path : Without(i)[j] = path[k]
    <2>1. j \in 1 .. Len(P) - 1
      BY <1>4, <1>5
    <2>2. CASE j <= i - 1
      BY <1>1, <1>2, <1>4, <1>5, <2>1, <2>2
    <2>3. CASE j > i - 1
      <3> DEFINE k == j - (i - 1)
      <3>1. k \in 1 .. Len(P) - i /\ k + i \in 1 .. Len(P)
        BY <1>1, <2>1, <2>3
      <3>2. Without(i)[j] = after[k]
        <4>1. ~(j <= i - 1)
          BY <1>1, <2>1, <2>3
        <4>2. (before \o after)[j] = after[j - (i - 1)]
          BY <1>5, <2>1, <4>1
        <4> QED
          BY <1>4, <4>2
      <3>3. after[k] = P[k + i]
        BY <1>3, <3>1
      <3> QED
        BY <3>1, <3>2, <3>3
    <2> QED
      BY <1>1, <2>1, <2>2, <2>3
  <1> QED
    BY <1>4, <1>5, <1>6

------------------------------------------------------------------------------
(***************************************************************************)
(* The inductive invariant: whose values were taken is who holds the       *)
(* channel; whatever is on its way was sent by somebody who was there just *)
(* now; a lease that runs is no older than the absence of somebody with    *)
(* the holder's name, and a value no older than the absence of its         *)
(* producer.                                                               *)
(***************************************************************************)
ChannelTyped ==
    /\ declared \in BOOLEAN
    /\ holder \in {None} \cup {<<Prefix[s], Priority[s]>> : s \in Producers}
    /\ left \in 0 .. LEASE /\ age \in 0 .. Oldest
    /\ value \in Producers \cup {None}
    /\ claimed \subseteq Producers /\ tenure \subseteq Producers
SendersTyped ==
    /\ driving \in [Producers -> BOOLEAN]
    /\ drive_in \in [Producers -> 0 .. DRIVE]
    /\ renew_in \in [Producers -> 0 .. RENEW]
    /\ gone \in [Producers -> 0 .. LongGone]
PathTyped == path \in Seq(Datagrams)
FaultsTyped ==
    /\ ahead \in -MaxAhead .. MaxAhead
    /\ dead \subseteq Producers
    /\ lost \in Nat /\ reboots \in Nat /\ departures \in Nat
Typed == ChannelTyped /\ SendersTyped /\ PathTyped /\ FaultsTyped

TenureOfHolder == \A s \in tenure : Prefix[s] = holder[1]
PathIsRecent == \A i \in DOMAIN path : gone[path[i].from] = 0
LeaseIsRecent ==
    left > 0 => \E s \in Producers : Prefix[s] = holder[1] /\ gone[s] + left <= LEASE
DriverIsHere == \A s \in Producers : driving[s] => gone[s] = 0
ValueIsRecent == value # None /\ age < Oldest => gone[value] <= age

ChannelInv ==
    /\ Typed
    /\ TenureOfHolder /\ DriverIsHere /\ PathIsRecent /\ LeaseIsRecent /\ ValueIsRecent

\* The constants' types, and that of the caps.
LEMMA Bounds ==
    /\ DRIVE \in Nat \ {0} /\ RENEW \in Nat \ {0} /\ LEASE \in Nat \ {0} /\ HOLD \in Nat \ {0}
    /\ MaxAhead \in Nat
    /\ Oldest \in Nat /\ Oldest = HOLD + MaxAhead + 1
    /\ LongGone \in Nat /\ LongGone >= Oldest /\ LongGone >= LEASE + 1
  BY ChannelAssumption DEF Oldest, LongGone, More

\* A device that has just started is well typed.
LEMMA Undeclared ==
    ASSUME declared = FALSE, holder = None, left = 0, value = None, age = 0,
           claimed = {}, tenure = {}
    PROVE  ChannelTyped
  <1>1. left \in 0 .. LEASE /\ age \in 0 .. Oldest
    BY Bounds
  <1>2. /\ declared \in BOOLEAN
        /\ holder \in {None} \cup {<<Prefix[s], Priority[s]>> : s \in Producers}
        /\ value \in Producers \cup {None}
        /\ claimed \subseteq Producers /\ tenure \subseteq Producers
    OBVIOUS
  <1> QED
    BY <1>1, <1>2 DEF ChannelTyped

LEMMA InvImplies == ChannelInv /\ held \in BOOLEAN => ChannelTypeOK
  BY DEF ChannelInv, ChannelTypeOK, Typed, ChannelTyped, SendersTyped, PathTyped,
         FaultsTyped, Datagrams, Kinds

LEMMA InvInit == ChannelInit => ChannelInv
  <1> SUFFICES ASSUME ChannelInit PROVE ChannelInv
    OBVIOUS
  <1>1. ChannelTyped
    BY Bounds, Undeclared DEF ChannelInit
  <1>2. SendersTyped
    BY Bounds DEF ChannelInit, SendersTyped
  <1>3. PathTyped
    BY DEF ChannelInit, PathTyped
  <1>4. FaultsTyped
    BY Bounds DEF ChannelInit, FaultsTyped
  <1>5. TenureOfHolder /\ DriverIsHere /\ PathIsRecent /\ LeaseIsRecent /\ ValueIsRecent
    BY Bounds DEF ChannelInit, TenureOfHolder, DriverIsHere, PathIsRecent, LeaseIsRecent,
                  ValueIsRecent
  <1> QED
    BY <1>1, <1>2, <1>3, <1>4, <1>5 DEF ChannelInv, Typed

\* A datagram more on the path of those who were there just now.
LEMMA OneMore ==
    ASSUME ChannelInv, NEW s \in Producers, NEW more \in Seq(Datagrams), path' = path \o more,
           \A i \in DOMAIN more : more[i].from = s,
           gone' \in [Producers -> 0 .. LongGone],
           \A r \in Producers : gone'[r] = 0 \/ gone'[r] = gone[r], gone'[s] = 0
    PROVE  PathTyped' /\ PathIsRecent'
  <1>1. path \in Seq(Datagrams)
    BY DEF ChannelInv, Typed, PathTyped
  <1>2. /\ path' \in Seq(Datagrams)
        /\ \A i \in DOMAIN path' : path'[i].from = s \/ (i \in DOMAIN path /\ path'[i] = path[i])
    <2>1. /\ path' \in Seq(Datagrams) /\ Len(path') = Len(path) + Len(more)
          /\ \A j \in 1 .. Len(path) + Len(more) :
                path'[j] = IF j <= Len(path) THEN path[j] ELSE more[j - Len(path)]
      BY <1>1, Joined
    <2>2. ASSUME NEW j \in DOMAIN path'
          PROVE  path'[j].from = s \/ (j \in DOMAIN path /\ path'[j] = path[j])
      <3>1. j \in 1 .. Len(path) + Len(more) /\ Len(path) \in Nat /\ Len(more) \in Nat
        BY <1>1, <2>1
      <3>2. CASE j <= Len(path)
        BY <1>1, <2>1, <3>1, <3>2
      <3>3. CASE ~(j <= Len(path))
        <4>1. path'[j] = more[j - Len(path)] /\ j - Len(path) \in DOMAIN more
          BY <2>1, <3>1, <3>3
        <4> QED
          BY <4>1
      <3> QED
        BY <3>2, <3>3
    <2> QED
      BY <2>1, <2>2
  <1>3. ASSUME NEW i \in DOMAIN path
        PROVE  path[i].from \in Producers /\ gone[path[i].from] = 0
    <2>1. path[i] \in Datagrams
      BY <1>1
    <2> QED
      BY <2>1 DEF ChannelInv, PathIsRecent, Datagrams
  <1>4. ASSUME NEW i \in DOMAIN path'
        PROVE  gone'[path'[i].from] = 0
    <2>1. CASE path'[i].from = s
      BY <2>1
    <2>2. CASE i \in DOMAIN path /\ path'[i] = path[i]
      <3>1. path[i].from \in Producers /\ gone[path[i].from] = 0
        BY <1>3, <2>2
      <3> QED
        BY <2>2, <3>1
    <2> QED
      BY <1>2, <2>1, <2>2
  <1> QED
    BY <1>2, <1>4 DEF PathIsRecent, PathTyped

------------------------------------------------------------------------------
(***************************************************************************)
(* One lemma for each action.                                              *)
(***************************************************************************)

\* What a producer sends is its own.
LEMMA Sent ==
    ASSUME NEW s \in Producers, NEW kind \in Kinds
    PROVE  /\ Message(kind, s) \in Datagrams
           /\ <<Message(kind, s)>> \in Seq(Datagrams)
           /\ \A i \in DOMAIN <<Message(kind, s)>> : <<Message(kind, s)>>[i].from = s
  BY DEF Message, Datagrams

LEMMA SentBoth ==
    ASSUME NEW s \in Producers
    PROVE  LET both == <<Message("transfer", s), Message("claim", s)>>
           IN  both \in Seq(Datagrams) /\ \A i \in DOMAIN both : both[i].from = s
  BY DEF Message, Datagrams, Kinds

\* Somebody nearer than before makes neither a lease nor a value older.
LEMMA Nearer ==
    ASSUME ChannelInv, UNCHANGED <<holder, left, value, age>>,
           gone' \in [Producers -> 0 .. LongGone],
           \A r \in Producers : gone'[r] = 0 \/ gone'[r] = gone[r]
    PROVE  LeaseIsRecent' /\ ValueIsRecent'
  <1> USE DEF ChannelInv, Typed
  <1>1. \A r \in Producers : gone[r] \in Nat /\ gone'[r] \in Nat /\ gone'[r] <= gone[r]
    BY Bounds DEF SendersTyped
  <1>2. left \in Nat /\ age \in Nat
    BY Bounds DEF ChannelTyped
  <1>3. ASSUME left > 0
        PROVE  \E r \in Producers : Prefix[r] = holder[1] /\ gone'[r] + left <= LEASE
    <2>1. PICK r \in Producers : Prefix[r] = holder[1] /\ gone[r] + left <= LEASE
      BY <1>3 DEF LeaseIsRecent
    <2>2. gone'[r] + left <= LEASE
      BY <1>1, <1>2, <2>1, Bounds
    <2> QED
      BY <2>1, <2>2
  <1>4. ASSUME value # None, age < Oldest
        PROVE  gone'[value] <= age
    <2>1. gone[value] <= age /\ value \in Producers
      BY <1>4 DEF ValueIsRecent, ChannelTyped
    <2> QED
      BY <1>1, <1>2, <2>1
  <1> QED
    BY <1>3, <1>4 DEF LeaseIsRecent, ValueIsRecent

\* A transfer leaves what is held as it is until it arrives.
LEMMA ProvideKeeps ==
    ASSUME ChannelInv, NEW s \in Producers, Provide(s)
    PROVE  ChannelInv'
  <1> USE DEF ChannelInv, Typed
  <1>1. /\ gone' \in [Producers -> 0 .. LongGone] /\ gone'[s] = 0
        /\ \A r \in Producers : gone'[r] = 0 \/ gone'[r] = gone[r]
    BY Bounds DEF Provide, SendersTyped
  <1>2. PathTyped' /\ PathIsRecent'
    <2> DEFINE both == <<Message("transfer", s), Message("claim", s)>>
    <2>1. path' = path \o both
      BY DEF Provide
    <2>2. both \in Seq(Datagrams) /\ \A i \in DOMAIN both : both[i].from = s
      BY SentBoth
    <2> HIDE DEF both, ChannelInv, Typed
    <2> QED
      BY <1>1, <2>1, <2>2, OneMore
  <1>3. SendersTyped' /\ DriverIsHere'
    BY <1>1, Bounds DEF Provide, SendersTyped, DriverIsHere
  <1>4. /\ UNCHANGED <<channel, ahead, faultVars>>
        /\ claimed' = claimed \ {s} /\ tenure' = tenure \ {s}
    BY DEF Provide
  <1>5. FaultsTyped' /\ ChannelTyped' /\ TenureOfHolder'
    BY <1>4 DEF FaultsTyped, ChannelTyped, TenureOfHolder, faultVars, channel
  <1>6. LeaseIsRecent' /\ ValueIsRecent'
    BY <1>1, <1>4, Nearer DEF channel
  <1> QED
    BY <1>2, <1>3, <1>5, <1>6

\* What is sent is sent by somebody who drives.
LEMMA SendKeeps ==
    ASSUME ChannelInv, NEW s \in Producers, Drive(s) \/ Renew(s)
    PROVE  ChannelInv'
  <1> USE DEF ChannelInv, Typed
  <1>1. /\ UNCHANGED <<channel, ahead, driving, faultVars, gone, claimed, tenure>>
        /\ gone[s] = 0
    BY DEF Drive, Renew, DriverIsHere
  <1>2. PathTyped' /\ PathIsRecent'
    <2> /\ gone' \in [Producers -> 0 .. LongGone] /\ gone'[s] = 0
        /\ \A r \in Producers : gone'[r] = gone[r]
      BY <1>1 DEF SendersTyped
    <2> path \in Seq(Datagrams)
      BY DEF PathTyped
    <2>1. PICK kind \in Kinds : path' = Append(path, Message(kind, s))
      BY DEF Drive, Renew, Kinds
    <2> DEFINE one == <<Message(kind, s)>>
    <2>2. path' = path \o one
      <3>1. Message(kind, s) \in Datagrams
        BY Sent
      <3> QED
        BY <2>1, <3>1
    <2>3. one \in Seq(Datagrams) /\ \A i \in DOMAIN one : one[i].from = s
      BY Sent
    <2> HIDE DEF one, ChannelInv, Typed
    <2> QED
      BY <2>2, <2>3, OneMore
  <1>3. SendersTyped' /\ DriverIsHere'
    <2>1. drive_in' = [drive_in EXCEPT ![s] = DRIVE] \/ drive_in' = drive_in
      BY DEF Drive, Renew
    <2>2. renew_in' = [renew_in EXCEPT ![s] = RENEW] \/ renew_in' = renew_in
      BY DEF Drive, Renew
    <2> QED
      BY <1>1, <2>1, <2>2, Bounds DEF SendersTyped, DriverIsHere
  <1>4. ChannelTyped' /\ FaultsTyped'
    BY <1>1 DEF ChannelTyped, FaultsTyped, channel, faultVars
  <1>5. TenureOfHolder' /\ LeaseIsRecent' /\ ValueIsRecent'
    BY <1>1 DEF TenureOfHolder, LeaseIsRecent, ValueIsRecent, channel
  <1> QED
    BY <1>2, <1>3, <1>4, <1>5

\* What a transfer declares is the channel as it was or as it begins.
LEMMA Declared ==
    ASSUME ChannelTyped, Declare \/ Mangled
    PROVE  \/ UNCHANGED <<channel, claimed, tenure>>
           \/ /\ declared' = TRUE /\ holder' = None /\ left' = 0 /\ value' = None /\ age' = 0
              /\ claimed' = {} /\ tenure' = {}
  BY DEF Declare, Mangled, ChannelTyped, channel

\* What arrives finds its sender there just now; what is declared anew has nobody's
\* lease and nobody's value.
LEMMA ReceiveKeeps ==
    ASSUME ChannelInv, Receive
    PROVE  ChannelInv'
  <1> USE DEF ChannelInv, Typed
  <1>1. PICK m : /\ m = Head(path)
                 /\ Declare \/ Mangled \/ ChanClaim(m.from) \/ Chan(m.from)
    BY DEF Receive
  <1>2. path # << >> /\ path \in Seq(Datagrams) /\ path' = Tail(path)
    BY DEF Receive, PathTyped
  <1>3. 1 \in DOMAIN path /\ m = path[1] /\ m \in Datagrams
    BY <1>1, <1>2
  <1> DEFINE s == m.from
  <1>4. s \in Producers /\ gone[s] = 0
    BY <1>3 DEF Datagrams, PathIsRecent
  <1>5. UNCHANGED <<ahead, senders, faultVars, gone>>
    BY DEF Receive
  <1>6. PathTyped' /\ PathIsRecent'
    <2>1. /\ Tail(path) \in Seq(Datagrams)
          /\ \A i \in DOMAIN Tail(path) : i + 1 \in DOMAIN path /\ Tail(path)[i] = path[i + 1]
      BY <1>2
    <2> QED
      BY <1>2, <1>5, <2>1 DEF PathTyped, PathIsRecent
  <1>7. SendersTyped' /\ DriverIsHere' /\ FaultsTyped'
    BY <1>5 DEF SendersTyped, DriverIsHere, FaultsTyped, senders, faultVars
  <1> HIDE DEF s
  <1>8. CASE UNCHANGED <<channel, claimed, tenure>>
    <2>1. ChannelTyped' /\ TenureOfHolder' /\ LeaseIsRecent' /\ ValueIsRecent'
      BY <1>5, <1>8 DEF ChannelTyped, TenureOfHolder, LeaseIsRecent, ValueIsRecent, channel
    <2> QED
      BY <1>6, <1>7, <2>1
  <1>9. CASE /\ holder' = <<Prefix[s], Priority[s]>> /\ left' = LEASE
             /\ claimed' = claimed \cup {s}
             /\ tenure' = IF left > 0 /\ holder = <<Prefix[s], Priority[s]>> THEN tenure ELSE {}
             /\ UNCHANGED <<declared, value, age>>
    <2>1. ChannelTyped'
      BY <1>4, <1>9, Bounds DEF ChannelTyped
    <2>2. TenureOfHolder' /\ ValueIsRecent'
      BY <1>5, <1>9 DEF TenureOfHolder, ValueIsRecent
    <2>3. LeaseIsRecent'
      BY <1>4, <1>5, <1>9, Bounds DEF LeaseIsRecent
    <2> QED
      BY <1>6, <1>7, <2>1, <2>2, <2>3
  <1>10. CASE /\ left > 0 /\ holder[1] = Prefix[s]
              /\ value' = s /\ age' = 0 /\ tenure' = tenure \cup {s}
              /\ UNCHANGED <<declared, holder, left, claimed>>
    <2>1. ChannelTyped'
      BY <1>4, <1>10, Bounds DEF ChannelTyped
    <2>2. TenureOfHolder' /\ LeaseIsRecent'
      BY <1>5, <1>10 DEF TenureOfHolder, LeaseIsRecent
    <2>3. ValueIsRecent'
      BY <1>4, <1>5, <1>10 DEF ValueIsRecent
    <2> QED
      BY <1>6, <1>7, <2>1, <2>2, <2>3
  <1>11. CASE /\ declared' = TRUE /\ holder' = None /\ left' = 0 /\ value' = None /\ age' = 0
              /\ claimed' = {} /\ tenure' = {}
    <2>1. ChannelTyped'
      BY <1>11, Bounds DEF ChannelTyped
    <2>2. TenureOfHolder' /\ LeaseIsRecent' /\ ValueIsRecent'
      BY <1>11 DEF TenureOfHolder, LeaseIsRecent, ValueIsRecent
    <2> QED
      BY <1>6, <1>7, <2>1, <2>2
  <1>12. CASE Declare \/ Mangled
    BY <1>8, <1>11, <1>12, Declared
  <1>13. CASE ChanClaim(s) \/ Chan(s)
    BY <1>8, <1>9, <1>10, <1>13 DEF ChanClaim, Chan
  <1> QED
    BY <1>1, <1>12, <1>13 DEF s

\* Losing a datagram, leaving, restarting and stepping take nothing further away.
LEMMA FaultKeeps ==
    ASSUME ChannelInv,
           \/ Lose \/ DeviceRestarts \/ ShowSteps
           \/ \E s \in Producers : Leaves(s) \/ Dies(s)
    PROVE  ChannelInv'
  <1> USE DEF ChannelInv, Typed
  <1>1. CASE Lose
    <2>1. PICK i \in DOMAIN path :
              path' = IF path[i].kind = "transfer"
                      THEN [path EXCEPT ![i] = Message("part", path[i].from)] ELSE Without(i)
      BY <1>1 DEF Lose
    <2>2. /\ path' \in Seq(Datagrams)
          /\ \A j \in DOMAIN path' : \E k \in DOMAIN path : path'[j].from = path[k].from
      <3>1. CASE path' = Without(i)
        BY <3>1, WithoutOne DEF PathTyped
      <3>2. CASE path' = [path EXCEPT ![i] = Message("part", path[i].from)]
        <4>0. path \in Seq(Datagrams)
          BY DEF PathTyped
        <4>1. i \in 1 .. Len(path) /\ path[i].from \in Producers
          <5>1. path[i] \in Datagrams
            BY <4>0
          <5> QED
            BY <4>0, <5>1 DEF Datagrams
        <4>2. Message("part", path[i].from) \in Datagrams
              /\ Message("part", path[i].from).from = path[i].from
          BY <4>1 DEF Message, Datagrams, Kinds
        <4> QED
          BY <3>2, <4>0, <4>1, <4>2
      <3> QED
        BY <2>1, <3>1, <3>2
    <2>3. UNCHANGED <<channel, ahead, senders, dead, reboots, departures, gone, claimed, tenure>>
      BY <1>1 DEF Lose
    <2>4. PathTyped' /\ PathIsRecent'
      BY <2>2, <2>3 DEF PathTyped, PathIsRecent
    <2>5. ChannelTyped' /\ SendersTyped' /\ FaultsTyped'
      BY <1>1, <2>3 DEF Lose, ChannelTyped, SendersTyped, FaultsTyped, channel, senders
    <2>6. TenureOfHolder' /\ DriverIsHere' /\ LeaseIsRecent' /\ ValueIsRecent'
      BY <2>3 DEF TenureOfHolder, DriverIsHere, LeaseIsRecent, ValueIsRecent, channel, senders
    <2> QED
      BY <2>4, <2>5, <2>6
  <1>2. CASE DeviceRestarts
    <2>1. ChannelTyped'
      <3>1. left' \in 0 .. LEASE /\ age' \in 0 .. Oldest
        BY <1>2, Bounds DEF DeviceRestarts
      <3>2. /\ declared' \in BOOLEAN
            /\ holder' \in {None} \cup {<<Prefix[s], Priority[s]>> : s \in Producers}
            /\ value' \in Producers \cup {None}
            /\ claimed' \subseteq Producers /\ tenure' \subseteq Producers
        BY <1>2 DEF DeviceRestarts
      <3> QED
        BY <3>1, <3>2 DEF ChannelTyped
    <2>2. SendersTyped' /\ FaultsTyped'
      BY <1>2 DEF DeviceRestarts, SendersTyped, FaultsTyped, senders
    <2>3. TenureOfHolder' /\ DriverIsHere' /\ LeaseIsRecent' /\ ValueIsRecent'
      BY <1>2 DEF DeviceRestarts, TenureOfHolder, DriverIsHere, LeaseIsRecent, ValueIsRecent,
                  senders
    <2>4. PathTyped' /\ PathIsRecent'
      <3>1. path \in Seq(Datagrams) /\ gone' = gone
        BY <1>2 DEF DeviceRestarts, PathTyped
      <3>2. CASE path' = path
        BY <3>1, <3>2 DEF PathTyped, PathIsRecent
      <3>3. CASE path # << >> /\ path' = Tail(path)
        <4>1. /\ Tail(path) \in Seq(Datagrams)
              /\ \A i \in DOMAIN Tail(path) : i + 1 \in DOMAIN path /\ Tail(path)[i] = path[i + 1]
          BY <3>1, <3>3
        <4> QED
          BY <3>1, <3>3, <4>1 DEF PathTyped, PathIsRecent
      <3> QED
        BY <1>2, <3>2, <3>3 DEF DeviceRestarts
    <2> QED
      BY <2>1, <2>2, <2>3, <2>4
  <1>3. CASE ShowSteps
    <2>1. UNCHANGED <<channel, senders, path, faultVars, gone, claimed, tenure>>
      BY <1>3 DEF ShowSteps
    <2>2. ahead' \in -MaxAhead .. MaxAhead
      BY <1>3, Bounds DEF ShowSteps, FaultsTyped
    <2>3. ChannelTyped' /\ SendersTyped' /\ PathTyped' /\ FaultsTyped'
      BY <2>1, <2>2 DEF ChannelTyped, SendersTyped, PathTyped, FaultsTyped, channel, senders, faultVars
    <2>4. /\ TenureOfHolder' /\ DriverIsHere' /\ PathIsRecent' /\ LeaseIsRecent'
          /\ ValueIsRecent'
      BY <2>1 DEF TenureOfHolder, DriverIsHere, PathIsRecent, LeaseIsRecent, ValueIsRecent,
                  channel, senders
    <2> QED
      BY <2>3, <2>4
  <1>4. ASSUME NEW s \in Producers, Leaves(s) \/ Dies(s)
        PROVE  ChannelInv'
    <2>1. /\ UNCHANGED <<channel, ahead, path, lost, reboots, gone, claimed, tenure>>
          /\ driving' = [driving EXCEPT ![s] = FALSE]
          /\ drive_in' = [drive_in EXCEPT ![s] = 0]
          /\ renew_in' = [renew_in EXCEPT ![s] = 0]
          /\ departures' = departures + 1
          /\ dead' = dead \/ dead' = dead \cup {s}
      BY <1>4 DEF Leaves, Dies, Departs
    <2>2. ChannelTyped' /\ PathTyped'
      BY <2>1 DEF ChannelTyped, PathTyped, channel
    <2>3. SendersTyped' /\ DriverIsHere' /\ FaultsTyped'
      BY <2>1, Bounds DEF SendersTyped, DriverIsHere, FaultsTyped
    <2>4. TenureOfHolder' /\ PathIsRecent' /\ LeaseIsRecent' /\ ValueIsRecent'
      BY <2>1 DEF TenureOfHolder, PathIsRecent, LeaseIsRecent, ValueIsRecent, channel
    <2> QED
      BY <2>2, <2>3, <2>4
  <1> QED
    BY <1>1, <1>2, <1>3, <1>4

\* A unit of time ages what is held and what was published as much as it does the
\* absence of those who are gone.
LEMMA PassKeeps ==
    ASSUME ChannelInv, Pass
    PROVE  ChannelInv'
  <1> USE DEF ChannelInv, Typed
  <1>1. /\ left' = (IF left > 0 THEN left - 1 ELSE 0)
        /\ age' = (IF age + 1 < Oldest THEN age + 1 ELSE Oldest)
        /\ gone' = [r \in Producers |->
                      IF driving[r] THEN 0 ELSE IF gone[r] + 1 < LongGone THEN gone[r] + 1 ELSE LongGone]
        /\ drive_in' = [r \in Producers |-> IF drive_in[r] > 0 THEN drive_in[r] - 1 ELSE 0]
        /\ renew_in' = [r \in Producers |-> IF renew_in[r] > 0 THEN renew_in[r] - 1 ELSE 0]
        /\ path = << >>
        /\ UNCHANGED <<declared, holder, value, ahead, driving, path, faultVars, claimed, tenure>>
    BY DEF Pass, Down, Less
  <1>2. ChannelTyped'
    BY <1>1, Bounds DEF ChannelTyped
  <1>3. SendersTyped' /\ DriverIsHere'
    BY <1>1, Bounds DEF SendersTyped, DriverIsHere
  <1>4. PathTyped' /\ PathIsRecent' /\ FaultsTyped' /\ TenureOfHolder'
    BY <1>1 DEF PathTyped, PathIsRecent, FaultsTyped, TenureOfHolder, faultVars
  <1>5. ASSUME NEW r \in Producers
        PROVE  gone[r] \in Nat /\ gone'[r] \in Nat /\ gone'[r] <= gone[r] + 1
    BY <1>1, Bounds DEF SendersTyped
  <1>6. LeaseIsRecent'
    <2>1. SUFFICES ASSUME left' > 0
                   PROVE  \E r \in Producers : Prefix[r] = holder'[1] /\ gone'[r] + left' <= LEASE
      BY DEF LeaseIsRecent
    <2>2. left \in Nat /\ left > 0 /\ left' = left - 1
      BY <1>1, <2>1, Bounds DEF ChannelTyped
    <2>3. PICK r \in Producers : Prefix[r] = holder[1] /\ gone[r] + left <= LEASE
      BY <2>2 DEF LeaseIsRecent
    <2>4. gone'[r] + left' <= LEASE
      BY <1>5, <2>2, <2>3, Bounds
    <2> QED
      BY <1>1, <2>3, <2>4
  <1>7. ValueIsRecent'
    <2>1. SUFFICES ASSUME value # None, age' < Oldest
                   PROVE  gone'[value] <= age'
      BY <1>1 DEF ValueIsRecent
    <2>2. age \in Nat /\ age < Oldest /\ age' = age + 1 /\ value \in Producers
      BY <1>1, <2>1, Bounds DEF ChannelTyped
    <2>3. gone[value] <= age
      BY <2>1, <2>2 DEF ValueIsRecent
    <2> QED
      BY <1>5, <2>2, <2>3
  <1> QED
    BY <1>2, <1>3, <1>4, <1>6, <1>7

LEMMA InvNext == ChannelInv /\ [ChannelNext]_channelVars => ChannelInv'
  <1> SUFFICES ASSUME ChannelInv, [ChannelNext]_channelVars PROVE ChannelInv'
    OBVIOUS
  <1>1. CASE \E s \in Producers : Provide(s)
    BY <1>1, ProvideKeeps
  <1>2. CASE \E s \in Producers : Drive(s) \/ Renew(s)
    BY <1>2, SendKeeps
  <1>3. CASE Receive
    BY <1>3, ReceiveKeeps
  <1>4. CASE \/ Lose \/ DeviceRestarts \/ ShowSteps
             \/ \E s \in Producers : Leaves(s) \/ Dies(s)
    BY <1>4, FaultKeeps
  <1>5. CASE Pass
    BY <1>5, PassKeeps
  <1>6. CASE UNCHANGED channelVars
    BY <1>6 DEF channelVars, channel, senders, faultVars, ChannelInv, Typed, ChannelTyped,
                SendersTyped, PathTyped, FaultsTyped, TenureOfHolder, DriverIsHere,
                PathIsRecent, LeaseIsRecent, ValueIsRecent
  <1> QED
    BY <1>1, <1>2, <1>3, <1>4, <1>5, <1>6 DEF ChannelNext

LEMMA InvInductive == ChannelSpec => []ChannelInv
  BY InvInit, InvNext, PTL DEF ChannelSpec

------------------------------------------------------------------------------
\* Every variable keeps its type.
THEOREM ChannelTypeCorrect == ChannelSpec => []ChannelTypeOK
  <1> DEFINE HeldTyped == held \in BOOLEAN
  <1>1. ChannelInit => HeldTyped
    BY DEF ChannelInit
  <1>2. HeldTyped /\ [ChannelNext]_channelVars => HeldTyped'
    <2> SUFFICES ASSUME HeldTyped, [ChannelNext]_channelVars PROVE held' \in BOOLEAN
      OBVIOUS
    <2>1. CASE Receive
      BY <2>1 DEF Receive, Declare, Mangled
    <2>2. ASSUME NEW s \in Producers, Provide(s) \/ Drive(s) \/ Renew(s) \/ Leaves(s) \/ Dies(s)
          PROVE  held' = held
      BY <2>2 DEF Provide, Drive, Renew, Departs, Leaves, Dies
    <2>3. CASE DeviceRestarts
      BY <2>3 DEF DeviceRestarts
    <2>4. CASE Lose \/ ShowSteps \/ Pass \/ UNCHANGED channelVars
      BY <2>4 DEF Lose, ShowSteps, Pass, channelVars
    <2> QED
      BY <2>1, <2>2, <2>3, <2>4 DEF ChannelNext
  <1>3. ChannelInv /\ HeldTyped => ChannelTypeOK
    BY InvImplies
  <1> QED
    BY <1>1, <1>2, <1>3, InvInductive, PTL DEF ChannelSpec

\* A producer that is gone leaves neither a lease nor a value for longer than the
\* lease and the hold, whatever its last datagrams were and whenever they came.
THEOREM GoneInTimeHolds == ChannelSpec => []GoneInTime
  <1>1. ChannelInv => GoneInTime
    <2> SUFFICES ASSUME ChannelInv PROVE GoneInTime
      OBVIOUS
    <2> USE DEF ChannelInv, Typed
    <2>1. ASSUME NEW s \in Producers, Holds(s)
          PROVE  \E r \in Producers : Prefix[r] = Prefix[s] /\ gone[r] < LEASE
      <3>1. left > 0 /\ left \in Nat /\ holder[1] = Prefix[s]
        BY <2>1, Bounds DEF Holds, ChannelTyped
      <3>2. PICK r \in Producers : Prefix[r] = holder[1] /\ gone[r] + left <= LEASE
        BY <3>1 DEF LeaseIsRecent
      <3>3. gone[r] \in Nat
        BY Bounds DEF SendersTyped
      <3> QED
        BY <3>1, <3>2, <3>3, Bounds
    <2>2. ASSUME \A s \in Producers : gone[s] > HOLD - ahead, Read # None
          PROVE  FALSE
      <3>1. value # None /\ value \in Producers /\ age + ahead <= HOLD
        BY <2>2 DEF Read, ChannelTyped
      <3>2. age \in Nat /\ ahead \in Int /\ -MaxAhead <= ahead /\ gone[value] \in Nat
        BY <3>1, Bounds DEF ChannelTyped, FaultsTyped, SendersTyped
      <3>3. age < Oldest /\ age <= HOLD - ahead
        BY <3>1, <3>2, Bounds
      <3>4. gone[value] <= age
        BY <3>1, <3>3 DEF ValueIsRecent
      <3> QED
        BY <2>2, <3>1, <3>2, <3>3, <3>4, Bounds
    <2> QED
      BY <2>1, <2>2 DEF GoneInTime
  <1> QED
    BY <1>1, InvInductive, PTL
------------------------------------------------------------------------------
(***************************************************************************)
(* Renewal.  A driver is never further behind with what it has to repeat   *)
(* than the losses so far explain: what it used up is within the periods   *)
(* that were lost and the one that runs, or the repetition is on its way.  *)
(***************************************************************************)
OnPath(kind, s) == \E i \in DOMAIN path : path[i] = Message(kind, s)
InTime(used, n, period, in) == used <= n * period + (period - in)
AtWorst(used, n, period) == used <= (n + 1) * period

LeaseIsRenewed ==
    \A s \in claimed : driving[s] /\ holder[1] = Prefix[s] =>
        \/ InTime(LEASE - left, lost, RENEW, renew_in[s])
        \/ OnPath("claim", s) /\ AtWorst(LEASE - left, lost, RENEW)
ValueIsRenewed ==
    \A s \in tenure : driving[s] /\ left > 0 =>
        \/ InTime(age, lost, DRIVE, drive_in[s])
        \/ OnPath("value", s) /\ AtWorst(age, lost, DRIVE)
OfThisChannel ==
    /\ claimed # {} => declared
    /\ tenure # {} => declared /\ value # None /\ Prefix[value] = holder[1]
RenewalInv == OfThisChannel /\ LeaseIsRenewed /\ ValueIsRenewed

\* What is used up when nothing has been, when a repetition falls due, when one is
\* lost, and when time passes.
LEMMA Account ==
    ASSUME NEW used \in Int, NEW n \in Nat, NEW period \in Nat, NEW in \in 0 .. period
    PROVE  /\ used <= 0 => InTime(used, n, period, in)
           /\ InTime(used, n, period, in) => AtWorst(used, n, period)
           /\ AtWorst(used, n, period) => InTime(used, n + 1, period, in)
           /\ \A more \in Int : in > 0 /\ more <= used + 1 /\ InTime(used, n, period, in)
                                 => InTime(more, n, period, in - 1)
  <1> DEFINE m == n * period
  <1>1. m \in Nat /\ (n + 1) * period = m + period
    OBVIOUS
  <1> HIDE DEF m
  <1>2. /\ \A u \in Int, i \in Int : InTime(u, n, period, i) <=> u <= m + (period - i)
        /\ \A u \in Int : AtWorst(u, n, period) <=> u <= m + period
        /\ \A u \in Int, i \in Int : InTime(u, n + 1, period, i) <=> u <= m + period + (period - i)
    BY <1>1 DEF InTime, AtWorst, m
  <1>3. used <= 0 => InTime(used, n, period, in)
    BY <1>1, <1>2
  <1>4. InTime(used, n, period, in) => AtWorst(used, n, period)
    BY <1>1, <1>2
  <1>5. AtWorst(used, n, period) => InTime(used, n + 1, period, in)
    BY <1>1, <1>2
  <1>6. ASSUME NEW more \in Int, in > 0, more <= used + 1, InTime(used, n, period, in)
        PROVE  InTime(more, n, period, in - 1)
    <2>1. used <= m + (period - in)
      BY <1>2, <1>6
    <2>2. more <= m + (period - (in - 1))
      BY <2>1, <1>1, <1>6
    <2> QED
      BY <2>2, <1>2
  <1> QED
    BY <1>3, <1>4, <1>5, <1>6

\* What is on the path stays there when a datagram is added, and when another arrives.
LEMMA StillOnPath ==
    ASSUME path \in Seq(Datagrams), NEW kind \in {"claim", "value"}, NEW s \in Producers
    PROVE  /\ \A m \in Datagrams : path' = Append(path, m) =>
                  /\ OnPath(kind, s) => OnPath(kind, s)'
                  /\ m = Message(kind, s) => OnPath(kind, s)'
           /\ path # << >> /\ path' = Tail(path) /\ Head(path) # Message(kind, s)
                  => (OnPath(kind, s) => OnPath(kind, s)')
  <1>1. ASSUME NEW m \in Datagrams, path' = Append(path, m)
        PROVE  /\ OnPath(kind, s) => OnPath(kind, s)'
               /\ m = Message(kind, s) => OnPath(kind, s)'
    <2>1. /\ Len(path) + 1 \in DOMAIN path' /\ path'[Len(path) + 1] = m
          /\ \A i \in DOMAIN path : i \in DOMAIN path' /\ path'[i] = path[i]
      BY <1>1
    <2> QED
      BY <2>1 DEF OnPath
  <1>2. ASSUME path # << >>, path' = Tail(path), Head(path) # Message(kind, s), OnPath(kind, s)
        PROVE  OnPath(kind, s)'
    <2>1. PICK i \in DOMAIN path : path[i] = Message(kind, s)
      BY <1>2 DEF OnPath
    <2>2. i # 1
      BY <1>2, <2>1
    <2>3. i - 1 \in DOMAIN path' /\ path'[i - 1] = path[i]
      BY <1>2, <2>2
    <2> QED
      BY <2>1, <2>3 DEF OnPath
  <1> QED
    BY <1>1, <1>2
\* The types that the accounts need.
LEMMA AccountTypes ==
    ASSUME ChannelInv
    PROVE  /\ left \in 0 .. LEASE /\ LEASE - left \in Int /\ age \in Int /\ lost \in Nat
           /\ RENEW \in Nat \ {0} /\ DRIVE \in Nat \ {0} /\ LEASE \in Nat
           /\ \A s \in Producers : renew_in[s] \in 0 .. RENEW /\ drive_in[s] \in 0 .. DRIVE
           /\ claimed \subseteq Producers /\ tenure \subseteq Producers
           /\ path \in Seq(Datagrams)
  BY Bounds DEF ChannelInv, Typed, ChannelTyped, SendersTyped, FaultsTyped, PathTyped

\* The accounts of those whose repetitions are neither sent, lost nor refused stand.
LEMMA AccountsStand ==
    ASSUME ChannelInv, RenewalInv, lost' = lost, UNCHANGED <<holder, left, value, age>>,
           declared' = declared \/ declared', claimed' \subseteq claimed, tenure' \subseteq tenure,
           \A s \in claimed' : driving'[s] /\ holder[1] = Prefix[s] =>
               driving[s] /\ renew_in'[s] = renew_in[s] /\ (OnPath("claim", s) => OnPath("claim", s)'),
           \A s \in tenure' : driving'[s] /\ left > 0 =>
               driving[s] /\ drive_in'[s] = drive_in[s] /\ (OnPath("value", s) => OnPath("value", s)')
    PROVE  RenewalInv'
  <1> USE DEF RenewalInv
  <1>1. OfThisChannel'
    BY DEF OfThisChannel
  <1>2. LeaseIsRenewed'
    <2>1. ASSUME NEW s \in claimed', driving'[s], holder'[1] = Prefix[s]
          PROVE  \/ InTime(LEASE - left', lost', RENEW, renew_in'[s])
                 \/ OnPath("claim", s)' /\ AtWorst(LEASE - left', lost', RENEW)
      BY <2>1 DEF LeaseIsRenewed
    <2> QED
      BY <2>1 DEF LeaseIsRenewed, InTime, AtWorst
  <1>3. ValueIsRenewed'
    <2>1. ASSUME NEW s \in tenure', driving'[s], left' > 0
          PROVE  \/ InTime(age', lost', DRIVE, drive_in'[s])
                 \/ OnPath("value", s)' /\ AtWorst(age', lost', DRIVE)
      BY <2>1 DEF ValueIsRenewed
    <2> QED
      BY <2>1 DEF ValueIsRenewed, InTime, AtWorst
  <1> QED
    BY <1>1, <1>2, <1>3

\* A producer that sends its program begins its accounts anew, and leaves the others'.
LEMMA ProvideRenewal ==
    ASSUME ChannelInv, RenewalInv, NEW s \in Producers, Provide(s)
    PROVE  RenewalInv'
  <1>1. /\ lost' = lost /\ UNCHANGED channel
        /\ claimed' = claimed \ {s} /\ tenure' = tenure \ {s}
    BY DEF Provide, faultVars
  <1>2. claimed \subseteq Producers /\ tenure \subseteq Producers
    BY AccountTypes
  <1>3. ASSUME NEW kind \in {"claim", "value"}, NEW r \in Producers, OnPath(kind, r)
        PROVE  OnPath(kind, r)'
    <2>1. PICK i \in DOMAIN path : path[i] = Message(kind, r)
      BY <1>3 DEF OnPath
    <2>2. path \in Seq(Datagrams) /\ path' = path \o <<Message("transfer", s), Message("claim", s)>>
      BY AccountTypes DEF Provide
    <2>3. i \in DOMAIN path' /\ path'[i] = path[i]
      BY <2>2, SentBoth
    <2> QED
      BY <2>1, <2>3 DEF OnPath
  <1>4. ASSUME NEW r \in Producers, r # s
        PROVE  driving'[r] = driving[r] /\ renew_in'[r] = renew_in[r] /\ drive_in'[r] = drive_in[r]
    BY <1>4 DEF Provide, ChannelInv, Typed, SendersTyped
  <1> QED
    BY <1>1, <1>2, <1>3, <1>4, AccountsStand DEF channel

\* A claim is sent when the last period of its account has run out.
LEMMA RenewRenewal ==
    ASSUME ChannelInv, RenewalInv, NEW s \in Producers, Renew(s)
    PROVE  RenewalInv'
  <1>1. /\ UNCHANGED <<channel, driving, drive_in, claimed, tenure, faultVars>>
        /\ renew_in[s] = 0 /\ renew_in' = [renew_in EXCEPT ![s] = RENEW]
        /\ path' = Append(path, Message("claim", s))
    BY DEF Renew
  <1>2. /\ path \in Seq(Datagrams) /\ Message("claim", s) \in Datagrams
        /\ claimed \subseteq Producers /\ tenure \subseteq Producers
    BY AccountTypes DEF Message, Datagrams, Kinds
  <1>3. \A r \in Producers, kind \in {"claim", "value"} : OnPath(kind, r) => OnPath(kind, r)'
    BY <1>1, <1>2, StillOnPath
  <1>4. OnPath("claim", s)'
    BY <1>1, <1>2, StillOnPath
  <1>5. OfThisChannel'
    BY <1>1 DEF RenewalInv, OfThisChannel, channel
  <1>6. ValueIsRenewed'
    <2>1. UNCHANGED <<left, age, lost, driving, drive_in, tenure>>
      BY <1>1 DEF channel, faultVars
    <2> QED
      BY <1>2, <1>3, <2>1 DEF RenewalInv, ValueIsRenewed, InTime, AtWorst
  <1>7. LeaseIsRenewed'
    <2>1. UNCHANGED <<left, holder, lost, driving, claimed>>
      BY <1>1 DEF channel, faultVars
    <2>2. ASSUME NEW r \in claimed, driving[r], holder[1] = Prefix[r]
          PROVE  \/ InTime(LEASE - left, lost, RENEW, renew_in'[r])
                 \/ OnPath("claim", r)' /\ AtWorst(LEASE - left, lost, RENEW)
      <3>1. \/ InTime(LEASE - left, lost, RENEW, renew_in[r])
            \/ OnPath("claim", r) /\ AtWorst(LEASE - left, lost, RENEW)
        BY <2>2 DEF RenewalInv, LeaseIsRenewed
      <3>2. CASE r = s
        <4>1. AtWorst(LEASE - left, lost, RENEW)
          BY <3>1, <1>2, AccountTypes, Account
        <4> QED
          BY <3>2, <4>1, <1>4
      <3>3. CASE r # s
        <4>1. renew_in'[r] = renew_in[r]
          BY <3>3, <1>1, <1>2 DEF ChannelInv, Typed, SendersTyped
        <4> QED
          BY <3>1, <4>1, <1>2, <1>3
      <3> QED
        BY <3>2, <3>3
    <2> QED
      BY <2>1, <2>2 DEF LeaseIsRenewed, InTime, AtWorst
  <1> QED
    BY <1>5, <1>6, <1>7 DEF RenewalInv

LEMMA DriveRenewal ==
    ASSUME ChannelInv, RenewalInv, NEW s \in Producers, Drive(s)
    PROVE  RenewalInv'
  <1>1. /\ UNCHANGED <<channel, driving, renew_in, claimed, tenure, faultVars>>
        /\ drive_in[s] = 0 /\ drive_in' = [drive_in EXCEPT ![s] = DRIVE]
        /\ path' = Append(path, Message("value", s))
    BY DEF Drive
  <1>2. /\ path \in Seq(Datagrams) /\ Message("value", s) \in Datagrams
        /\ claimed \subseteq Producers /\ tenure \subseteq Producers
    BY AccountTypes DEF Message, Datagrams, Kinds
  <1>3. \A r \in Producers, kind \in {"claim", "value"} : OnPath(kind, r) => OnPath(kind, r)'
    BY <1>1, <1>2, StillOnPath
  <1>4. OnPath("value", s)'
    BY <1>1, <1>2, StillOnPath
  <1>5. OfThisChannel'
    BY <1>1 DEF RenewalInv, OfThisChannel, channel
  <1>6. LeaseIsRenewed'
    <2>1. UNCHANGED <<left, holder, lost, driving, renew_in, claimed>>
      BY <1>1 DEF channel, faultVars
    <2> QED
      BY <1>2, <1>3, <2>1 DEF RenewalInv, LeaseIsRenewed, InTime, AtWorst
  <1>7. ValueIsRenewed'
    <2>1. UNCHANGED <<left, age, lost, driving, tenure>>
      BY <1>1 DEF channel, faultVars
    <2>2. ASSUME NEW r \in tenure, driving[r], left > 0
          PROVE  \/ InTime(age, lost, DRIVE, drive_in'[r])
                 \/ OnPath("value", r)' /\ AtWorst(age, lost, DRIVE)
      <3>1. \/ InTime(age, lost, DRIVE, drive_in[r])
            \/ OnPath("value", r) /\ AtWorst(age, lost, DRIVE)
        BY <2>2 DEF RenewalInv, ValueIsRenewed
      <3>2. CASE r = s
        <4>1. AtWorst(age, lost, DRIVE)
          BY <3>1, <1>2, AccountTypes, Account
        <4> QED
          BY <3>2, <4>1, <1>4
      <3>3. CASE r # s
        <4>1. drive_in'[r] = drive_in[r]
          BY <3>3, <1>1, <1>2 DEF ChannelInv, Typed, SendersTyped
        <4> QED
          BY <3>1, <4>1, <1>2, <1>3
      <3> QED
        BY <3>2, <3>3
    <2> QED
      BY <2>1, <2>2 DEF ValueIsRenewed, InTime, AtWorst
  <1> QED
    BY <1>5, <1>6, <1>7 DEF RenewalInv

\* A claim that is granted renews the lease, and a value that is taken the value; of
\* a driver that holds the channel neither is refused.
LEMMA ReceiveRenewal ==
    ASSUME ChannelInv, RenewalInv, Receive
    PROVE  RenewalInv'
  <1>1. PICK m : /\ m = Head(path)
                 /\ \/ m.kind \in {"transfer", "part"} /\ (Declare \/ Mangled)
                    \/ m.kind = "claim" /\ ChanClaim(m.from)
                    \/ m.kind = "value" /\ Chan(m.from)
    BY DEF Receive
  <1> DEFINE s == m.from
  <1>2. /\ path # << >> /\ path' = Tail(path) /\ path \in Seq(Datagrams)
        /\ UNCHANGED <<senders, faultVars>>
    BY AccountTypes DEF Receive
  <1>3. m \in Datagrams /\ m = Message(m.kind, s) /\ s \in Producers
    <2>1. m \in Datagrams
      BY <1>1, <1>2
    <2> QED
      BY <2>1 DEF Datagrams, Message
  <1>4. \A r \in Producers, kind \in {"claim", "value"} :
            ~(kind = m.kind /\ r = s) => (OnPath(kind, r) => OnPath(kind, r)')
    <2> SUFFICES ASSUME NEW r \in Producers, NEW kind \in {"claim", "value"},
                        ~(kind = m.kind /\ r = s), OnPath(kind, r)
                 PROVE  OnPath(kind, r)'
      OBVIOUS
    <2>1. m # Message(kind, r)
      BY <1>3 DEF Message
    <2> QED
      BY <2>1, <1>1, <1>2, StillOnPath
  <1> HIDE DEF s
  <1>5. UNCHANGED <<lost, driving, renew_in, drive_in>>
    BY <1>2 DEF senders, faultVars
  <1>6. CASE /\ m.kind = "claim" /\ ~(declared /\ holder[1] = Prefix[s])
             /\ UNCHANGED <<channel, claimed, tenure>>
    BY <1>3, <1>4, <1>5, <1>6, AccountTypes, AccountsStand
       DEF channel, RenewalInv, OfThisChannel
  <1>7. CASE /\ m.kind = "value" /\ ~(declared /\ left > 0 /\ holder[1] = Prefix[s])
             /\ UNCHANGED <<channel, claimed, tenure>>
    <2>1. s \in tenure => declared /\ holder[1] = Prefix[s]
      BY DEF RenewalInv, OfThisChannel, ChannelInv, TenureOfHolder
    <2> QED
      BY <2>1, <1>3, <1>4, <1>5, <1>7, AccountTypes, AccountsStand DEF channel
  <1>8. CASE /\ declared /\ m.kind = "claim"
             /\ holder' = <<Prefix[s], Priority[s]>> /\ left' = LEASE
             /\ claimed' = claimed \cup {s}
             /\ tenure' = IF left > 0 /\ holder = <<Prefix[s], Priority[s]>> THEN tenure ELSE {}
             /\ UNCHANGED <<declared, value, age>>
    <2>1. OfThisChannel'
      BY <1>8 DEF RenewalInv, OfThisChannel
    <2>2. LeaseIsRenewed'
      <3>1. LEASE - left' \in Int /\ LEASE - left' <= 0 /\ claimed' \subseteq Producers
        BY <1>3, <1>8, AccountTypes
      <3>2. \A r \in claimed' : InTime(LEASE - left', lost', RENEW, renew_in'[r])
        BY <3>1, <1>5, AccountTypes, Account
      <3> QED
        BY <3>2 DEF LeaseIsRenewed
    <2>3. ValueIsRenewed'
      <3>1. ASSUME NEW r \in tenure', driving'[r], left' > 0
            PROVE  \/ InTime(age', lost', DRIVE, drive_in'[r])
                   \/ OnPath("value", r)' /\ AtWorst(age', lost', DRIVE)
        <4>1. r \in tenure /\ left > 0 /\ r \in Producers
          BY <3>1, <1>8, AccountTypes
        <4>2. \/ InTime(age, lost, DRIVE, drive_in[r])
              \/ OnPath("value", r) /\ AtWorst(age, lost, DRIVE)
          BY <3>1, <4>1, <1>5 DEF RenewalInv, ValueIsRenewed
        <4> QED
          BY <4>1, <4>2, <1>4, <1>5, <1>8
      <3> QED
        BY <3>1 DEF ValueIsRenewed, InTime, AtWorst
    <2> QED
      BY <2>1, <2>2, <2>3 DEF RenewalInv
  <1>9. CASE /\ declared /\ left > 0 /\ holder[1] = Prefix[s] /\ m.kind = "value"
             /\ value' = s /\ age' = 0 /\ tenure' = tenure \cup {s}
             /\ UNCHANGED <<declared, holder, left, claimed>>
    <2>1. OfThisChannel'
      BY <1>3, <1>9, ChannelAssumption DEF RenewalInv, OfThisChannel
    <2>2. ValueIsRenewed'
      <3>1. age' \in Int /\ age' <= 0 /\ tenure' \subseteq Producers
        BY <1>3, <1>9, AccountTypes
      <3>2. \A r \in tenure' : InTime(age', lost', DRIVE, drive_in'[r])
        BY <3>1, <1>5, <1>9, AccountTypes, Account
      <3> QED
        BY <3>2 DEF ValueIsRenewed
    <2>3. LeaseIsRenewed'
      <3>1. ASSUME NEW r \in claimed', driving'[r], holder'[1] = Prefix[r]
            PROVE  \/ InTime(LEASE - left', lost', RENEW, renew_in'[r])
                   \/ OnPath("claim", r)' /\ AtWorst(LEASE - left', lost', RENEW)
        <4>1. r \in claimed /\ r \in Producers
          BY <3>1, <1>9, AccountTypes
        <4>2. \/ InTime(LEASE - left, lost, RENEW, renew_in[r])
              \/ OnPath("claim", r) /\ AtWorst(LEASE - left, lost, RENEW)
          BY <3>1, <4>1, <1>5, <1>9 DEF RenewalInv, LeaseIsRenewed
        <4> QED
          BY <4>1, <4>2, <1>4, <1>5, <1>9
      <3> QED
        BY <3>1 DEF LeaseIsRenewed, InTime, AtWorst
    <2> QED
      BY <2>1, <2>2, <2>3 DEF RenewalInv
  <1>10. CASE claimed' = {} /\ tenure' = {}
    BY <1>10 DEF RenewalInv, OfThisChannel, LeaseIsRenewed, ValueIsRenewed
  <1>11. CASE m.kind \in {"transfer", "part"} /\ UNCHANGED <<channel, claimed, tenure>>
    BY <1>3, <1>4, <1>5, <1>11, AccountTypes, AccountsStand DEF channel
  <1>12. CASE m.kind \in {"transfer", "part"} /\ (Declare \/ Mangled)
    BY <1>10, <1>11, <1>12, Declared DEF ChannelInv, Typed
  <1>13. CASE m.kind = "claim" /\ ChanClaim(s)
    BY <1>6, <1>8, <1>13 DEF ChanClaim
  <1>14. CASE m.kind = "value" /\ Chan(s)
    BY <1>7, <1>9, <1>14 DEF Chan
  <1> QED
    BY <1>1, <1>12, <1>13, <1>14 DEF s

\* A loss gives every account a period more.
LEMMA LoseRenewal ==
    ASSUME ChannelInv, RenewalInv, Lose
    PROVE  RenewalInv'
  <1>1. lost' = lost + 1 /\ UNCHANGED <<channel, senders, claimed, tenure>>
    BY DEF Lose
  <1>2. OfThisChannel'
    BY <1>1 DEF RenewalInv, OfThisChannel, channel
  <1>3. LeaseIsRenewed'
    <2>1. ASSUME NEW r \in claimed, driving[r], holder[1] = Prefix[r]
          PROVE  InTime(LEASE - left, lost + 1, RENEW, renew_in[r])
      <3>1. AtWorst(LEASE - left, lost, RENEW)
        BY <2>1, AccountTypes, Account DEF RenewalInv, LeaseIsRenewed
      <3> QED
        BY <3>1, AccountTypes, Account
    <2> QED
      BY <1>1, <2>1 DEF LeaseIsRenewed, InTime, channel, senders
  <1>4. ValueIsRenewed'
    <2>1. ASSUME NEW r \in tenure, driving[r], left > 0
          PROVE  InTime(age, lost + 1, DRIVE, drive_in[r])
      <3>1. AtWorst(age, lost, DRIVE)
        BY <2>1, AccountTypes, Account DEF RenewalInv, ValueIsRenewed
      <3> QED
        BY <3>1, AccountTypes, Account
    <2> QED
      BY <1>1, <2>1 DEF ValueIsRenewed, InTime, channel, senders
  <1> QED
    BY <1>2, <1>3, <1>4 DEF RenewalInv

\* Time passes when nothing is on the path and nothing is due.
LEMMA PassRenewal ==
    ASSUME ChannelInv, RenewalInv, Pass
    PROVE  RenewalInv'
  <1>1. /\ left' = (IF left > 0 THEN left - 1 ELSE 0)
        /\ age' = (IF age + 1 < Oldest THEN age + 1 ELSE Oldest)
        /\ \A r \in Producers : driving[r] => drive_in[r] > 0 /\ renew_in[r] > 0
        /\ drive_in' = [r \in Producers |-> IF drive_in[r] > 0 THEN drive_in[r] - 1 ELSE 0]
        /\ renew_in' = [r \in Producers |-> IF renew_in[r] > 0 THEN renew_in[r] - 1 ELSE 0]
        /\ path = << >>
        /\ UNCHANGED <<declared, holder, value, driving, lost, claimed, tenure>>
    BY DEF Pass, Down, Less, faultVars
  <1>2. \A kind \in {"claim", "value"}, r \in Producers : ~OnPath(kind, r)
    BY <1>1 DEF OnPath
  <1>3. /\ LEASE - left' \in Int /\ LEASE - left' <= (LEASE - left) + 1
        /\ age' \in Int /\ age' <= age + 1
    BY <1>1, AccountTypes, Bounds
  <1>4. OfThisChannel'
    BY <1>1 DEF RenewalInv, OfThisChannel
  <1>5. LeaseIsRenewed'
    <2>1. ASSUME NEW r \in claimed, driving[r], holder[1] = Prefix[r]
          PROVE  InTime(LEASE - left', lost, RENEW, renew_in'[r])
      <3>1. r \in Producers
        BY AccountTypes
      <3>2. InTime(LEASE - left, lost, RENEW, renew_in[r])
        BY <2>1, <3>1, <1>2 DEF RenewalInv, LeaseIsRenewed
      <3>3. renew_in[r] > 0 /\ renew_in'[r] = renew_in[r] - 1
        BY <2>1, <3>1, <1>1
      <3> QED
        BY <3>1, <3>2, <3>3, <1>3, AccountTypes, Account
    <2> QED
      BY <1>1, <2>1 DEF LeaseIsRenewed, InTime
  <1>6. ValueIsRenewed'
    <2>1. ASSUME NEW r \in tenure, driving[r], left' > 0
          PROVE  InTime(age', lost, DRIVE, drive_in'[r])
      <3>1. r \in Producers /\ left > 0
        BY <2>1, <1>1, AccountTypes
      <3>2. InTime(age, lost, DRIVE, drive_in[r])
        BY <2>1, <3>1, <1>2 DEF RenewalInv, ValueIsRenewed
      <3>3. drive_in[r] > 0 /\ drive_in'[r] = drive_in[r] - 1
        BY <2>1, <3>1, <1>1
      <3> QED
        BY <3>1, <3>2, <3>3, <1>3, AccountTypes, Account
    <2> QED
      BY <1>1, <2>1 DEF ValueIsRenewed, InTime
  <1> QED
    BY <1>4, <1>5, <1>6 DEF RenewalInv

LEMMA RenewalNext == ChannelInv /\ RenewalInv /\ [ChannelNext]_channelVars => RenewalInv'
  <1> SUFFICES ASSUME ChannelInv, RenewalInv, [ChannelNext]_channelVars PROVE RenewalInv'
    OBVIOUS
  <1>1. CASE \E s \in Producers : Provide(s) \/ Drive(s) \/ Renew(s)
    BY <1>1, ProvideRenewal, DriveRenewal, RenewRenewal
  <1>2. CASE Receive
    BY <1>2, ReceiveRenewal
  <1>3. CASE Lose
    BY <1>3, LoseRenewal
  <1>4. CASE Pass
    BY <1>4, PassRenewal
  <1>5. CASE DeviceRestarts
    BY <1>5 DEF DeviceRestarts, RenewalInv, OfThisChannel, LeaseIsRenewed, ValueIsRenewed
  <1>6. ASSUME NEW s \in Producers, Leaves(s) \/ Dies(s) PROVE RenewalInv'
    <2>1. /\ UNCHANGED <<channel, path, lost, claimed, tenure>>
          /\ \A r \in Producers : driving'[r] =>
                 /\ driving[r] /\ renew_in'[r] = renew_in[r] /\ drive_in'[r] = drive_in[r]
      BY <1>6 DEF Leaves, Dies, Departs, ChannelInv, Typed, SendersTyped
    <2> QED
      BY <2>1, AccountTypes, AccountsStand DEF channel, OnPath
  <1>7. CASE ShowSteps \/ UNCHANGED channelVars
    <2>1. UNCHANGED <<channel, senders, path, lost, claimed, tenure>>
      BY <1>7 DEF ShowSteps, channelVars, faultVars
    <2> QED
      BY <2>1, AccountsStand DEF channel, senders, OnPath
  <1> QED
    BY <1>1, <1>2, <1>3, <1>4, <1>5, <1>6, <1>7 DEF ChannelNext

LEMMA RenewalInductive == ChannelSpec => []RenewalInv
  <1>1. ChannelInit => RenewalInv
    BY DEF ChannelInit, RenewalInv, OfThisChannel, LeaseIsRenewed, ValueIsRenewed
  <1> QED
    BY <1>1, RenewalNext, InvInductive, PTL DEF ChannelSpec

\* The lease of a producer that drives never runs out, unless so many datagrams are
\* lost that all claims of a lease's length may be among them.
THEOREM LeaseIsKeptHolds == ChannelSpec => []LeaseIsKept
  <1>1. ChannelInv /\ RenewalInv => LeaseIsKept
    <2> SUFFICES ASSUME ChannelInv, RenewalInv, NEW s \in claimed, driving[s],
                        holder[1] = Prefix[s], (lost + 1) * RENEW < LEASE
                 PROVE  left > 0
      BY DEF LeaseIsKept
    <2>1. AtWorst(LEASE - left, lost, RENEW)
      BY AccountTypes, Account DEF RenewalInv, LeaseIsRenewed
    <2> DEFINE m == (lost + 1) * RENEW
    <2>2. LEASE - left <= m /\ m < LEASE /\ m \in Nat
      BY <2>1, AccountTypes DEF AtWorst
    <2> QED
      BY <2>2, AccountTypes
  <1> QED
    BY <1>1, InvInductive, RenewalInductive, PTL

\* A frame reads what was published under the name of whoever holds the channel and
\* drives it, unless the losses and the lead of the show clock use the hold up.
THEOREM SliderIsReadHolds == ChannelSpec => []SliderIsRead
  <1>1. ChannelInv /\ RenewalInv => SliderIsRead
    <2> SUFFICES ASSUME ChannelInv, RenewalInv, NEW s \in Producers,
                        Holds(s), driving[s], s \in tenure, (lost + 1) * DRIVE + ahead <= HOLD
                 PROVE  Reads(s)
      BY DEF SliderIsRead
    <2>1. AtWorst(age, lost, DRIVE)
      BY AccountTypes, Account DEF RenewalInv, ValueIsRenewed, Holds
    <2> DEFINE m == (lost + 1) * DRIVE
    <2>2. age <= m /\ m + ahead <= HOLD /\ m \in Nat /\ ahead \in Int
      BY <2>1, AccountTypes, Bounds DEF AtWorst, ChannelInv, Typed, FaultsTyped
    <2> HIDE DEF m
    <2>3. age + ahead <= HOLD
      BY <2>2, AccountTypes, Bounds
    <2>4. declared /\ value # None /\ Prefix[value] = Prefix[s]
      BY DEF RenewalInv, OfThisChannel, Holds
    <2> QED
      BY <2>3, <2>4 DEF Read, Reads
  <1> QED
    BY <1>1, InvInductive, RenewalInductive, PTL
==============================================================================
