# Lumen-Dev in TLA+

Specifications of the code in this repository: the firmware of an LED device
that takes programs over a network, draws them and keeps a show clock
(`spikes/s5-device`), the senders and the desktop peer that drive it
(`spikes/s5-device/sender`), and the experiments that prepared it
(`spikes/s1-…` to `spikes/s4-…`).  TLC checks small instances of each module;
TLAPS proves theorems about eight of them for every value of their constants.

The election, sync, source-stack, renderer, channel and bytecode crates
(`lumen-device`, `lumen-proto`, `lumen-vm`, `lumen-lang`) are sibling
repositories and not part of this one.  Where a module needs one of their
operations it has a definition modelled from how this code uses it, marked
`external` in `PROJECT.json`.

## Inventory

| Component | State it keeps | Operations | What makes it correct |
|---|---|---|---|
| **Show clock** `s5-device/src/clock.rs` (a copy in `sender/src/peer.rs`) | hardware time at the last advance, the reading, the outstanding correction, the fraction of the slew budget | `advance_to`, `discipline`, `set` | never runs back; slews at 200 ppm and no faster; a correction is absorbed wholly, on time and without overshoot however finely time is sliced |
| **Device node** `s5-device/src/node.rs` | two program slots, the transfer in progress, the binding table, the source stack, the frame | one handler per datagram, `advance`, `render` | slices stay in their buffers; transfers do not mix; a source renders the program it was pushed with; never dark because of software |
| **Channels** `node.rs`, `sender/src/main.rs` | holder, lease and last value of each channel the program reads | declare, claim, publish, read | a lease lasts as long as its holder and little longer; a frame reads what is being driven, by the foremost |
| **Device main loop** `s5-device/src/main.rs` | lease, hello timer, peer table, mesh deadline, frame index | one turn: poll, hello, mesh tick, datagrams, frame, report | announces truthfully, wakes the mesh core in time, follows its leader, can answer whoever speaks, draws each frame index once |
| **Sender** `sender/src/main.rs` | which device it drives, its timers | wait for a needy device, transfer, push, drive | every device that needs a program gets it |
| **Peer** `sender/src/peer.rs`, `http.rs` | mesh node, peer list, address of the device, alert timer, request queue | one turn: mesh, datagram, requests, alert | alerts go over the show and away again; off means off |
| **Desktop reference** `sender/src/simulate.rs` | a renderer | render a frame, compare fingerprints | sequential glue around the external renderer |
| **Strip drivers** `strip.rs`, `strip_dma.rs` | the RMT or DMA channel, the LEDs' latches | encode, write | every LED shows its pixel, by either driver; a refused frame is not the last |
| **Dual core** `s4-dual-core` | four atomics, one shared buffer | two loops | no race, one frame, no deadlock |
| **Time sync** `s1-time-sync` | role, master address, samples, bursts | `on_tick`, `on_datagram`, statistics | offsets from matching stamps only, percentiles and bursts as defined |
| **Multicast flood** `s3-multicast` | highest sequence, missing, reordered, gaps | send schedule, `on_datagram`, windows | losses counted once, in their window |
| **VM throughput, generators, canary, scripts** `s2-…`, `crates/canary`, `scripts` | none that lasts | measurement, generation, cloning | – |

They interact by UDP: a device broadcasts a *hello* every second or five that
says, among other things, whether it holds a program; a sender answers a hello
that says it does not with a transfer (`ProgBegin`, `ProgChunk`…, `ProgEnd`) and
a `SrcPush`.  Nothing is acknowledged: the next hello is the only feedback.
Within a device one loop does everything, so handlers are atomic with respect
to each other, and what interleaves are datagrams, frames and hellos.  In the
peer the HTTP thread only puts requests into a queue.  In S4 two cores share
memory.

The hard behaviours are the order of datagrams of several transfers, faults of the
path, restarts of either end at any point, a frame in the middle of a transfer,
alerts and their expiry, a hello that is stale or says less than it seems to, two
time bases in one device, integer arithmetic that loses its remainder or wraps,
expiries on clocks that are not shared, and relaxed atomics.  `PROJECT.json` lists
each at its line.

## Modules

| Module | Models | Extends | Run by |
|---|---|---|---|
| `ShowClock` | `clock.rs` | – | `MCShowClock` |
| `ShowClockProofs` | theorems about it | `ShowClock` | – |
| `Node` | `node.rs` without channels and output stage | – | `MCNode` |
| `NodeProofs` | theorems about it | `Node` | – |
| `Wire` | the datagrams, `receive`'s dispatch, a path that loses, repeats, swaps | `Node` | through the next two |
| `Provision` | the sender's loop, hello, device loop, restarts | `Wire` | `MCProvision` |
| `Peer` | the peer's loop, HTTP, alerts, split shows | `Wire` | `MCPeer` |
| `Store` | abstract: slots that hold nothing or one whole program | – | refined by `Peer` |
| `PeerProofs` | theorems about `Peer` and the refinement | `Peer`, `NodeProofs` | – |
| `Strip` | `strip.rs` and `strip_dma.rs` down to the pulses, and the LEDs that read them | – | through the next |
| `DeviceLoop` | a turn of `device_loop()` with its clock, mesh core, peer table and strip | `ShowClock`, `Strip` | `MCDeviceLoop` |
| `DeviceLoopProofs` | theorems about it | `DeviceLoop`, `ShowClockProofs` | – |
| `Channels` | a channel of `node.rs`, the producers of `sender/src/main.rs` and the path between them | – | `MCChannels` |
| `ChannelsProofs` | theorems about it | `Channels` | – |
| `DualCore` | `s4-dual-core/src/main.rs` over a release/acquire memory | – | `MCDualCore` |
| `DualCoreProofs` | theorems about it | `DualCore` | – |
| `SyncStats` | `s1-time-sync/src/stats.rs` | – | through the next |
| `TimeSync` | `s1-time-sync/src/sync.rs` and its loop, over a path that delays, loses, repeats | `SyncStats` | `MCTimeSync` |
| `TimeSyncProofs` | theorems about it | `TimeSync` | – |
| `ChanFlood` | `s3-multicast/src/chan.rs` and its loop, over a path that loses, repeats, reorders | – | `MCChanFlood` |
| `ChanFloodProofs` | theorems about it | `ChanFlood` | – |

Definitions keep the code's names where TLA+ allows it.  Definitions preceded by
"A mutant of …" are the code with a plausible slip; nothing uses them, and each
property is violated when the definition that follows is replaced by one.

### ShowClock

`AdvanceTo` is `advance_to()`, `Slew` and `Step` the two branches of
`discipline()`, `Set` is `set()`.  All four fields of the struct are variables
under their own names.  Five history variables record what the clock was told
and how it has moved since; no action reads them.  The numbers of the code
(200, 1 000 000, 100 000) are constants.  Saturation at 2^63 µs is left out.

### Node

One action for each datagram type that changes slots or sources, one for a frame
(`advance` and then `render`, as the main loop calls them) and one for a restart.  The
unit of length is the chunk; a cell of a buffer holds the program whose chunk
was written there.  What the parser accepts besides whole programs is the
constant `Torn`; of the renderer it is only used that a half of the strip shows
a source of the highest priority over it and is black without one.  The hash of
`ProgEnd` is not modelled because the code does not look at it.  `ProgEnd` also
declares the program's channels, which no other variable here depends on; they
are in `Channels`.  A chunk may be said to end anywhere.  `ProgChunkWraps` stands for
those whose offset plus length wraps at 2^32: they pass the check and the slice
panics, which is the one thing that makes `running` false; a device that has
panicked takes no further step until it is restarted.

### Wire, Provision, Peer, Store

`Wire` is a queue of datagrams; `Receive` is the dispatch of `receive()`.  In
`Provision` the sender sends one datagram a step, so that hellos, frames, faults and
the death of the sender fall between any two.  `AwaitNeedy`, `SendNext` and `Drive`
are the three places its loop can be.  A pushed source lasts until a moment of the
sender's clock that the device compares with its own: `ahead` says that the device's
is ahead by all that a show lasts, so that what is pushed then is `over` when the
next frame is drawn, and `ClocksPart` changes which of the two it is, where
`MayLead` allows it.  In any case a show is over some time after it has been drawn.
In `Peer` the thread does nothing else during a `push_program`, so that a whole
transfer is appended at once and the device takes it a datagram at a time.  Whether
the show is one effect or two is chosen at the start, from `Splits`.  Alerts expire,
which they always do in the end, and so may the show, whose hour nobody need wait
for.

`Store` is what the slots promise, without chunks or datagrams: a slot holds
nothing or one whole program that was sent to it, holds nothing before it holds
another, and slots do not disturb each other.  `Peer!IsStore` states that the
whole system of peer, path and device implements it, where a slot that is being
filled counts as holding nothing.

### Strip

A frame becomes pulses on one wire by either driver, and the strip latches what
its data sheet makes of their widths: the model has the codes, the nibbles of
the SPI clock and the windows of the part in ticks of 12.5 ns, so that "the
drivers agree" is a statement about pulses.  `Write` is `write()` with what it
takes and gives back; a driver that refuses a frame part way through leaves some
LEDs new and the rest as they were, except that a DMA transfer does not start.
The clear at the start is such a frame, and may be refused like any other
(`main.rs:305` does not look), which leaves some of the `Leftovers` of the firmware
before.
The windows are the SK6812's and come from its data sheet: external.

### DeviceLoop

`GetLease`, `Advance`, `Tick`, `Datagram`, `Drained` and `Frame` are what a turn
of `device_loop()` does, in the order in which it does it.  `show_now` is the
local of that name: read once a turn, and given to everything in it, whatever
corrections do to the clock meanwhile.  The clock is `ShowClock`'s own, which
has the slewing and stepping whole, and the strip is `Strip`'s.  `ApplyMesh` and
`Remember` are `apply_mesh()` and `remember()`.

The mesh core is external.  It answers an event with a batch of actions, taken from
small sets: timers in any order or none, and a correction of what it measures,
`lead` plus the hardware time less the show time it was handed, no oftener than
every `SYNC_US` of show time.  What it sends has no effect that anything here could
see.  A correction comes only in answer to a datagram and never to a tick.  The core
corrects once for a burst of round trips that it has filtered, so never twice in a
turn: a correction that is measured by a time which another has just stepped does
not occur, and what is stale after a step are the deadlines of the datagrams that
follow.  Datagrams too short to carry a prefix are not remembered by the code and
not in the model.

### Channels

Times are durations, so that a run has no end: how long a lease still runs, how old
a value is, how far the show clock is ahead of the hardware (`ahead`, which a
correction steps forwards).  `Declare` is what `ProgEnd` does with a whole transfer,
`Mangled` what a transfer comes to that has lost a part, `ChanClaim` and `Chan` are
the handlers of those names, on hardware time as `main.rs` calls them, and `Read` is
what a frame reads on show time.  A producer is a sender in its driving loop:
`Provide` sends a device its program and the first claim, `Drive` and `Renew` are
its two timers, `Leaves` is its leaving the loop because some device says it holds
nothing, and it may die.  A producer provides what it drives again when the device
has nothing (`held`), and each datagram of that may be lost: a transfer is one
message on the path that losing makes a `part`, and a restart of the device in the
middle of one takes the rest of it away.  Time passes once everybody has done what
is due and what was sent has arrived or been lost.  The channel itself is external:
a claim takes a channel that is free, the claimant's own or held at a lower
priority; only the holder publishes; a value older than the hold is the default. The
second producer stands for an application that claims at another priority; nothing
in this repository is one, and its timers are taken to be the sender's.

### DualCore

Every location keeps all that was stored in it and each core has a view: a load
may return anything not older than the view, a release store publishes the view
and an acquire load joins it.  The reads and writes of the non-atomic `APP_OUT`
are counted in locations of their own, so that "no data race" is a statement
about views.

### SyncStats, TimeSync

`SyncStats` has the operations of `stats.rs` as operators: `Add` and `BurstAdd` are
the two `add()`s, `Percentile`, `BucketOf` and `EdgeOf` the functions of those
names, and the sort of a burst's window is any of the `Orders` in which it does not
fall, for the median is the same in all.  Where the code keeps the last value, a
histogram of how far successive ones are apart and the worst of these, which it does
for all samples, for those kept, for the best of a burst and for its median, there
is one record, a track.

In `TimeSync` time is the follower's clock, and the master's is ahead of it by
`skew`.  A datagram carries the time at which its receiver reads it, and steps
are taken in the order of time, so that late and repeated answers and answers to
earlier requests come of themselves.  `Tick` and `Ask` are the two halves of
`on_tick`, `Answer`, `Find` and `Hear` the arms of `on_datagram`.  A master that
restarts has another clock.  History keeps of each sample what the skew was when it
was answered.  A follower that restarts starts over, and what was on its way to it
is gone long before it has joined the network again.

### ChanFlood

`SendTurn` is a turn of the source's loop in which a send is due, `Receive` one
datagram at a sink, `begin_window` included.  The sequence number wraps at
`SEQ_MOD`, for the code's 2^32.  History counts what the source sends, whatever its
numbers: of each sink it keeps which of those sends have arrived in the window, so
that what is lost is known from the sender's side and not from the numbers, and
whether numbers have started again (`again`) since the one the sink counts from.  Of
the source it keeps its `beat`: when it began and how many sends it has had.

## Runs

| Run | Bounds | Shows |
|---|---|---|
| `ShowClock` | slew 2/5, threshold 3, counter 0..4 that may run back, corrections −4..4, 8 µs told | slews at its rate; absorbs each correction on time and without overshoot; loses nothing but a refused backward step; never runs back |
| `Node` | 2 slots, 1 program of 2 chunks, declared lengths 0..3, 3 sources for 2 places | slices in their buffers and free of stale bytes (but for the chunk that wraps), bindings unique and as pushed, what is held untouched by a transfer to another slot, a lit strip lit |
| `Provision` | 2 chunks, 2 faults of any kind, 1 restart of each end, 3 datagrams and 2 hellos in flight; clocks that part and come together, with 1 fault while they are apart | lit if nothing is lost and the clocks are together; never empty for good |
| `ProvisionLossy` | 1 loss, no restart, clocks together | **violation**: dark for ever |
| `Peer` | undivided: no fault, 2 requests, 1 timed alert, the show may expire; divided: no request, a show that does not expire, 1 fault, 1 restart, 1 timed alert | sources render their own, off is off, the show returns; peer, path and device implement `Store` |
| `PeerSplit` | divided show, no fault | **violation**: the alert takes the second half's program |
| `DeviceLoop` | slew 1/3, threshold 2, a leader 0, 1 or 4 either way, turns of up to 4, 8 µs; 3 peers for 2 places, one of which moves, 2 datagrams a turn; 2 LEDs that show something at the start, either driver | the core is woken in time; the clock does not pass its leader; whoever speaks can be answered; frames go forward; the strip shows them |
| `Channels` | 2 producers at 2 priorities, a value and a claim every unit, lease 3, hold 2, show clock up to 1 ahead, 2 messages on the path, 2 losses, 1 departure or death, 1 restart | leases, decay, that what is driven is read, and the foremost of those who drive in the end |
| `ChannelsAhead` | lease 4, hold 3, show clock up to 4 ahead, no fault | **violation**: every value is stale when it arrives |
| `DualCore` | 2 programs, 3 frames, 3 passes | race-free, one frame, every pass ends |
| `TimeSync` | 5 requests, delays 1 and 2, bursts of 2 and 4, 1 fault: a datagram lost, repeated or 5 late, or a restart of the master | samples, filter, bursts, percentiles and jitter are what they should be |
| `ChanFlood` | 1 sink, 7 units at a send every 2, windows of 3, numbers wrap after 3, 1 repeat, 1 restart of the source | while numbers do not start again a sink's loss is bounded on both sides; a stalled source neither bursts nor, by up to an interval, loses its beat |

Why the bounds are enough.  The clock's rate of 2 in 5 makes carries, whole
budgets, both branches of `discipline` and corrections on either side of the
threshold occur within a few steps.  Two chunks let a transfer lose its first,
its last or both; three sources for two places fill the table of bindings; two
slots are the code's own number.  Two hellos in flight are a stale one and a
true one.  Three passes of the dual-core table make tokens repeat twice, with
another program and with the same.  The bounds of in-flight datagrams only
delay sending.  Delays of 1 and 2 make sums of both parities, so that offsets
round, and round trips at, below and above the filter's bound; a repeated answer
makes a sixth sample and so a third window of two, which the residual needs.
Histograms of two fine buckets and a coarse one have values in each and beyond.
Sinks do not interact, so one is enough.

In `DeviceLoop` a lead of 1 is slewed away before the core corrects again, one of 4
is stepped, and turns are longer than a frame, so that frames are skipped, and than
a timer, so that timers run out within a turn.  The table of peers depends on
nothing of the clock, nor the clock on who speaks: `MCNext` fills the table in
behaviours whose leader is in step, and lets one peer speak in the others.  The
pictures have every LED's three bytes apart from each other and from their own
mirror images, so that a swapped byte or bit shows.  In `Channels` a lease is three
claims long and a hold two values, so that one loss leaves a claim just in time, or
with a show clock that is not ahead a value just fresh, and two leave neither; the
bound on `ahead` is one short of the hold in the run that passes and one beyond it
in the one that does not.  With numbers that wrap after three, four sends within a
run have a wrap between them and three are a window without one.

### Fairness

Sender, peer and device are endless loops that come round to every one of their
steps, and a datagram that is not lost arrives: weak fairness.  Drawing a frame is
strongly fair: the frame grid comes round every 33 ms, while a device is given a
program at most once for each of its hellos, a second apart, so that a frame falls
where there is something to draw.  (A show of `Provision` is not over before it has
been drawn unless the clocks are apart: it lasts minutes.)  An alert always has an
expiry, and its expiry is strongly fair for the same reason.  Restarts, faults,
requests, alerts, the end of a show's hour and the parting of clocks are never
obliged to happen.  In `Channels` time passes, datagrams arrive and the two timers
of a producer that drives come round: weak fairness. A producer that was driving a
device which has lost its program hears it say so, which it does every second, and
provides it again; since it may be busy with another device in between, that is
strong fairness, of the producer that drives already.  Nobody is obliged to begin.
`DeviceLoop` and `ShowClock` are about safety, and a wake-up is bounded in time
rather than eventual.  On the two cores every step is weakly fair, and a core that
keeps loading sees the newest value in the end.  `TimeSync` and `ChanFlood` make no
promise of liveness and assume no fairness; their runs stop at the end of their
time.

### What the violations say

* The hello's "holds a program" is true from the first chunk on (`main.rs:452`).  If
  what follows is lost, no sender looks at the device again and nothing lights it.
* The second effect of a split show and the alert share slot 1; source 8 is left
  rendering the alert's program (`peer.rs:427`).
* Channel values are published at hardware time (`main.rs:555`) and read at show
  time (`main.rs:613`).  A device that joins a mesh which has been up for more than
  the two seconds of the hold longer than itself steps its show clock past the hold,
  and from then on no value is ever fresh: the effect reads its default for good.
  `SliderIsRead` states for which leads it does work.

Where the code does less than a comment says and a property holds of the rest, the
property has the exception in its statement:

* A chunk's end is computed in 32 bits before it is compared (`node.rs:327`).  One
  that wraps passes the check for chunks outside the declared length, and the slice
  panics, where the comment there says that such a chunk is rejected.  No sender
  here computes such an offset.  `TransferSound` is about all other chunks.
* Bindings are never taken out (`node.rs:256`), so that after enough sources have
  come and gone a new one has no entry and renders slot 0, whichever it was pushed
  for, against `RESULTS.md:217`.  `BindingSticks` says so.
* A source's expiry is the sender's own elapsed time plus its duration
  (`sender/src/main.rs:301`), and the device's clock is its mesh's, or has run since
  it started, although the comment says that they share one.  A device that is ahead
  by the length of the show drops it on arrival, says that it holds a program, and
  stays dark without a datagram lost: the exception for `ahead` in `EventuallyLit`.
* The peer's show lasts an hour (`peer.rs:322`), and no device that holds its
  program is given it again.  After that the picture of the next alert stays on the
  strip, which render() leaves as it is, against `peer.rs:168`: the exception for
  `runOut` in `ShowReturns`.
* What `s3-multicast` calls "sequences that never arrived" (`chan.rs:64`) is counted
  from numbers.  After a restart of the source or a wrap every number is a late one
  until it has passed the highest, and nothing that is lost is counted: the
  exception for `again` in `LossWithinStale`.
* A part of a transfer may look like a program and have no channels: the device says
  that it holds one, is not given it again, and its channel is never declared.  That
  is the exception in `ForemostIsRead`, and the cause is `ProvisionLossy`'s.

Some more follow from the same causes, or from reading the code beside its comments,
and have no run of their own.  All copies of the sender send under one prefix and
claim at one priority (`sender/src/main.rs:477`, `main.rs:329`): to a channel they
are one owner, and their values interleave, which the comment on the claim
(`main.rs:320`) says it makes impossible.  No property says that one producer is
read at a time; between producers of different prefixes it is the channel's doing,
which is external.  A device that restarts and receives an alert before its first
hello says it holds a program, and is never given the show: `ShowReturns` is checked
without restarts for that reason.  An alert whose transfer fails is pushed all the
same and renders the show's program (`node.rs:450`); `Off` pops source 7 and leaves
the second half of a split show on (`peer.rs:407`, so `OffTakesTheShowOff` is
checked for an undivided show); a sender that dies in the middle of a transfer
leaves a device that is passed over, which is why `EventuallyLit` is stated for a
sender that lives.

A correction beyond −100 ms is neither applied nor kept (`clock.rs:112`), so that
a device ahead of its mesh stays ahead; the comment on the threshold says it is
applied at once, and `OnlyARefusedStepLoses` has the exception in its statement.
Corrections are measured without regard to what is outstanding, so that one that
lies between what is slewed away before the next and the threshold is counted
again and overshoots: the premise of `NeverPastTheLeader`, which
`clock.rs:36` puts as "Nothing real lands in between".  `remember()` gives a
newcomer the first place of a full table, which after the first time is the
newest entry and not the oldest of its comment (`main.rs:789`); `CanAnswer` is
what does hold.

The hello carries the hardware counter where its table and the peer read the show
time (`main.rs:443`, `main.rs:461`, `peer.rs:276`).  The peer takes bytes 14 to 21
of every datagram for a show time and bytes 6 to 9 for a prefix, those of a hello
too, where they are half a fingerprint and half a clock, and part of a frame number
(`peer.rs:209`, `peer.rs:241`).  The report's timer is set from the hardware counter
and compared with the show clock (`main.rs:431`, `main.rs:632`). `s4-dual-core`
compares the last frame of each program and not every frame (`main.rs:370`); that
its first frame may differ rests on the external renderer keeping per-LED history,
as `s4-dual-core/RESULTS.md` describes.

The count of `s3-multicast` is not exact even where numbers do not start again: a
number that arrives twice, and one from before the window, each take one off
(`chan.rs:114`).  `LossWithinStale` says how far it can be off, and that it is never
too high.

## Proofs

Times are naturals, corrections and skews integers, and every count, bound, rate
and table size is arbitrary; each module names what it assumes of its constants.

`ShowClockProofs`, from `SlewAssumption` (the rate is a fraction between 0 and 1)
and `InputAssumption`, proves every property of the run for every rate, threshold
and input.  The inductive invariant `ClockInv` adds two exact accounts to the
types: the slew numerator plus `PPM_DENOM` times what has been absorbed is the
rate times the time that has passed, once for the departure since the last step
(`SlewShare`) and once for the correction now due (`DueShare`).  The bounds follow
since the carry is worth less than a microsecond.  The lemmas `Division`,
`Sharing`, `AbsNat`, `Scaling` and `BudgetFits` isolate the arithmetic.

`NodeProofs`, from `NodeAssumption`, proves type correctness, `TransferSound` (the
bounds of slices and the absence of stale bytes), the soundness of the binding table
and the action properties `HeldUntouched`, `BindingSticks` and `StaysLit`, for every
number of slots, places, programs and sources and every parser. `TransferSound` is
inductive with the types; a chunk whose end wraps changes none of what it speaks of
(`SlotWraps`), since the device does not go on.  `BindingsSound` rests on lemmas
about `Bind`.  `BindingSticks` rests on `BindingsSound`: a source that is admitted
and not in the table found it full, and a full table never has room again
(`PushSticks`); what a push binds is the slot filled last, or nothing (`PushBinds`).

`PeerProofs` first shows that the peer's device is a `Node` (`PeerImplementsNode`):
whatever is on the path is one of the datagrams that the peer sends (`PathTyped`),
and each of these is an action of `Node`, with every fault of the path.  It sends no
chunk that wraps, so that the device runs on (`DeviceRuns`).  So all that
`NodeProofs` proves holds under the peer (`DeviceSoundUnderPeer`).  Then, for as
long as the path has failed nobody, the inductive invariant `PeerInv` says what the
path carries and where the device is: whole scripts and removals, but for the rest
of one script at its head (`PathOK`); a device that is idle or has taken the first
*k* datagrams of that script, or has restarted since and takes no notice of the rest
(`HeadOK`); and slots that hold nothing or the whole of a program sent to them
(`HeldOK`).  One lemma for each kind of datagram (`TakesBegin` to `TakesPop`) shows
that the head moves on and that the step is one of `Store`'s.  From it:

* `StoreUntilAFault`: for every bound on faults, each step up to the first fault is
  a step of `Store`; and `IsStoreHolds`: with `MaxFaults` zero the system implements
  it, for programs of every size and every parser.
* `StoreUntilTwoFaults` and `IsStoreWithAFault`: the same up to the second fault,
  and with `MaxFaults` one, whichever datagram is lost, repeated or swapped with the
  next.  A transfer needs less than its whole script (`Assured`): that the chunks
  before its end are of its program (`Owns`), and that it is ended, begun again or
  has all its chunks (`Closed`, `Again`, `Whole`).  A path that has failed nobody
  assures more, that each is ended and whole, that transfers are apart, and that no
  chunk follows an end without a beginning (`Apart`, `Parted`); what one fault
  leaves of it is enough (`LostAssured`, `RepeatedAssured`, `SwappedAssured`).
  `LooseInv` is that of every transfer on the path and of the one that the device
  has open.  Two assumptions are needed. Programs fit a slot (`AllFit`): the
  beginning of one that does not is refused, and if the `ProgEnd` before it was lost
  its chunks go to the slot still open.  The parser accepts nothing with a hole in
  it (`Gapless`), since the hash is not checked.  And it is a question of one fault:
  after two losses, of one transfer's `ProgEnd` and of the next one's `ProgBegin`,
  chunks of one program complete the other's transfer.
* `UndividedRendersItsOwnHolds`, for programs that fit a slot (`Fits`).  The peer
  does not check their length, and a device that refuses one (`node.rs:304`) would
  still bind its source to the slot filled last.  `RendersInv` adds that only the
  peer's sources are admitted, each bound to its program's slot (`Bindings`) and
  pushed with its program (`Pushed`).
* `OffTakesTheShowOffHolds`.  `OffInv` adds that a show that was taken off either
  has its removal on the path and nothing after it that puts it on, or is off and
  nothing on the path puts it on (`OffOK`).

`PeerAssumption` asks for two slots, two places for sources (four in the code) and
the three zones that the peer names.

`DualCoreProofs` proves the three invariants of the run for every number of
programs, frames and passes, and every value that a load may return.  The
inductive invariant `DualCoreInv` says of the memory that a core has seen what it
stored itself and that no store passes on more than exists (`MemInv`), and of the
cores where the handshake is: the app core is idle, has not seen the frame that
is published, is at work on it or has answered (`Idle`, `Waiting`, `Working`,
`Answered`), with what each has seen of the other's stores by then.  No data race
means that a core that accesses `APP_OUT` has seen all of the other's accesses.

`TimeSyncProofs`, from `SyncAssumption` and `StatsAssumption` (times fit the code's
64 bits; an exchange is never mistaken for none), proves type correctness and
`WithinHalfRoundTrip` for every delay, interval, skew and number of faults.  The
invariant behind it, `StampsInOrder`, is that the stamps of a datagram on its way,
put on one clock, are in the order in which they were taken and not after its
arrival; lemma `Sample` does the arithmetic, rounding included.  It also follows
that an answer's round trip is never negative (`NoRoundTripIsNegative`), so that
the code's guard against it is for clocks that do not run at one rate or start
again.  `FilterKeepsTheQuickHolds` rests on `FilterInv`: the least round trip, the
number of survivors and the last of them are those of the samples so far.
`BurstEstimatesHolds` rests on `BurstsInv`: each burst is between windows or holds
the quickest and all the offsets of an open one, and what it says last is of its
last whole window.  That the median splits its window (`MedianSplits`) holds of any
order of it, and that there is an order (`HasAnOrder`) follows by well-founded
choice rather than induction.  Two more results are about what a sequence of samples
adds up to.  `PercentileBracketsTheRankHolds`: the buckets seen up to an edge count
the samples below it, so the edge that `percentile()` reports and the one below it
bracket the sample of that rank, for every histogram.  `JitterCountedOnceHolds`: every
delivery but the first adds one to the total, in one bucket.  Both need induction over
the buckets, which a minimal counterexample replaces: the naturals are well-ordered,
and the least bucket where a running total fails is refuted by the one before it.

`ChanFloodProofs`, from `FloodAssumption`, proves all three properties of the run
for every number of sinks, interval, window and width of the numbers.  `Windows`
says of a sink whose numbers have not started again that the sends that have arrived
lie between the window's base and its top, and that the highest number is the top's,
so that what is lost can be counted (`LostIsCounted`).  A window in which they have,
by a restart or a wrap, is outside `LossWithinStale`.  `Spaced` is that no deadline
is sooner than an interval after the send before the last, and `OnBeat` that the
deadline is as many intervals after the beat began as the beat has had sends.

`DeviceLoopProofs`, from the assumptions of the clock and `LoopAssumption` (the core
corrects no oftener than every `SYNC_US`, which is not zero; the slew is less than
the counter's own rate; timers are naturals; a picture has a pixel of three bytes for
each LED), proves every safety property of the run, for every frame rate, slew,
threshold, table, set of peers and core.

* `FramesGoForward`: `FrameInv` is that the show time of the turn is not ahead of
  the clock and the frame drawn last not ahead of that show time; that the clock
  never runs back, lemma `ClockForward`, comes from `ShowClockProofs`.
* `CanAnswer` is inductive with the types: lemma `Remembered` says what each of the
  three cases of `remember()` does to the table, and is why it holds although not
  the oldest entry goes.
* `CoreIsWoken`: the hardware time that the show clock has in hand over the slowest
  clock only grows and covers what is left to the deadline (`RunsOutInTime`).
* `NeverPastTheLeader`: what is outstanding is what is left of the way
  (`SlewsOnce`), and is gone before the core can correct again; a leader that is far
  off is followed in one step or not at all (`StepsOnce`).
* `ClockHoldsInLoop`: what is proved of the clock holds in the loop.
* `StripShowsFramesHolds`, for both drivers and every strip and picture.  A byte is
  the weighted sum of its bits (`BitsOfByte`); the codes that a driver makes of a
  frame (`CodesOfFrame`; two bits to a nibble for SPI, `NibblePulses`, `PairPulses`)
  become one pulse for each of its bits (`RmtPulse`, `DmaPulse`), each inside the
  window the LED tells a one from a zero by (`PulseInWindow`); so what is latched is
  the frame (`FrameLatched`).  `StripInv` is the property with the type of the
  driver; what a write leaves of the picture and of what was shown before is lemma
  `LedsAfterWrite`, for the clear at the start (`StripInitially`) as for a frame.

`ChannelsProofs`, from `ChannelAssumption`, proves `ChannelTypeOK`, `GoneInTime`,
`LeaseIsKept` and `SliderIsRead` for any producers under any prefixes, any lease,
hold and rhythm, and any number of losses (of parts of transfers too), departures
and restarts.  The invariant `ChannelInv` adds to the types that whose values were
taken is named like the holder (`TenureOfHolder`); that who drives has not gone
(`DriverIsHere`) and what is on the path was sent just now (`PathIsRecent`); and two
accounts of time: a lease and the absence of whoever it was granted to together are
no longer than a lease (`LeaseIsRecent`), and a value's producer has not been gone
longer than the value is old (`ValueIsRecent`).  `RenewalInv` adds that a driver is
no further behind with what it repeats than the losses explain, or its repetition is
on the path. Values count for a tenure from one taking of the channel to the next,
also by the same producer after its lease has run out, and `SliderIsRead` speaks of
a value of the holder's prefix: two producers under one prefix are one owner.

Only model-checked:

* the liveness properties, and with them all of `Provision`'s: the prover has no
  fairness and no `ENABLED`.

## Not modelled

* The output stage (gamma, power limit, dither) and the fingerprints of frames: they
  are `lumen_device`'s, and here only passed on.
* `sender/src/simulate.rs` and the peer's comparison of a hello's fingerprint with
  its own (`peer.rs:251`): whether two renderers agree is a question about the
  external renderer and the language it runs.
* The peer's mesh half, its own copies of the clock, of `apply_mesh()` and of
  `remember()`: the first is the device's line for line, and of the other two the
  device's are modelled.
* The sender's one-shot modes, and `Tick`, which only a mesh core reads.
* Header, prefix and decode filters, which only drop datagrams; association, DHCP
  and the loss of a lease, which the code does not look for; configuring the
  peripherals; the self-test of the strip.
* Logging, reports and the counters that only they read, the jitter histogram of S3
  among them.
* The S2 benchmarks and generator, the canary and the scripts: no state that
  outlives a call.

Three hazards of the list have no property, because nothing in the repository says
what should hold; `PROJECT.json` gives the reason for each.

## Plan

Done: every module of the table above, and the theorems listed in `PROJECT.json`.

1. That `Provision` takes only steps of `Node`, by the lemmas of `PeerProofs` about
   `Receive`, which would move to a module of their own.
2. The peer's mesh half beside a device: two cores that answer each other.
