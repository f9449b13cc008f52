--------------------------------- MODULE Strip ---------------------------------
(***************************************************************************)
(* The addressable strip and the two drivers that write to it:             *)
(* spikes/s5-device/src/strip.rs (RMT) and strip_dma.rs (SPI with DMA).    *)
(*                                                                         *)
(* Both turn a frame into pulses on one wire, which are pairs of a high    *)
(* and a low time in ticks of 12.5 ns.  The strip reads them by the        *)
(* windows of its data sheet and knows nothing of how they were made.      *)
(***************************************************************************)
EXTENDS Integers, Sequences

CONSTANTS
    LEDS,           \* how many there are
    Leftovers,      \* what they may show when the firmware starts
    Unread          \* what an LED latches from pulses out of its windows

ASSUME StripAssumption == LEDS \in Nat \ {0}

VARIABLES
    driver,         \* "rmt" or "dma": chosen when the firmware is built
    leds,           \* the bytes each LED has latched, as red, green, blue, white
    channel         \* whether the driver holds the peripheral

stripVars == <<driver, leds, channel>>

PerLed == 4     \* FORMAT is Grbw

\* The bits of a byte, the highest first: what they weigh, and what they say.
Weights == <<128, 64, 32, 16, 8, 4, 2, 1>>
Bit(byte, b) == (byte \div Weights[b]) % 2

\* Pieces of k places each, one after the other.
Joined(pieces, k) ==
    [n \in 1 .. Len(pieces) * k |-> pieces[((n - 1) \div k) + 1][((n - 1) % k) + 1]]

------------------------------------------------------------------------------
\* A mutant of the order of the bytes: as a picture has them.
BytesInRgb(pixel) == <<pixel[1], pixel[2], pixel[3], 0>>

\* What one LED consumes: green before red, and the white die dark.
LedBytes(pixel) == <<pixel[2], pixel[1], pixel[3], 0>>

\* The bytes of a frame in the order in which they leave.
Stream(pixels) == Joined([i \in 1 .. LEDS |-> LedBytes(pixels[i])], PerLed)

\* Pulse widths of the RMT driver, and the code that ends a transmission.
T0 == <<26, 70>>
T1 == <<52, 44>>
EmptyCode == <<0, 0>>

\* One code for each bit of a byte, the highest first.
RmtByte(byte) == [b \in 1 .. 8 |-> IF Bit(byte, b) = 1 THEN T1 ELSE T0]

\* The codes of a frame, and what ends them.
RmtCodes(pixels) ==
    Append(Joined([n \in DOMAIN Stream(pixels) |-> RmtByte(Stream(pixels)[n])], 8), EmptyCode)

\* PAIRS: the SPI byte for two bits of an LED byte, of the nibbles 1000 and 1100.
Pair(two) == <<136, 140, 200, 204>>[two + 1]

\* Four of them for each byte, the highest pair first.
DmaByte(byte) == [p \in 1 .. 4 |-> Pair((byte \div Weights[2 * p]) % 4)]
DmaBytes(pixels) == Joined([n \in DOMAIN Stream(pixels) |-> DmaByte(Stream(pixels)[n])], 4)

------------------------------------------------------------------------------
\* An SPI bit lasts 25 ticks at 3.2 MHz: a nibble is high for its leading ones
\* and low for the rest of its four bits.
SpiBit == 25
Ones(nibble) == CHOOSE k \in 0 .. 4 : \A b \in 1 .. 4 : Bit(nibble, 4 + b) = 1 <=> b <= k
SpiPulse(nibble) == <<SpiBit * Ones(nibble), SpiBit * (4 - Ones(nibble))>>
SpiPulses(bytes) ==
    Joined([n \in DOMAIN bytes |-> <<SpiPulse(bytes[n] \div 16), SpiPulse(bytes[n] % 16)>>], 2)

\* The code at which the peripheral stops.
End(codes) == CHOOSE n \in DOMAIN codes :
                  codes[n] = EmptyCode /\ \A m \in 1 .. n - 1 : codes[m] # EmptyCode

\* What is on the wire while a frame is clocked out.
Pulses(pixels) ==
    IF driver = "rmt"
    THEN SubSeq(RmtCodes(pixels), 1, End(RmtCodes(pixels)) - 1)
    ELSE SpiPulses(DmaBytes(pixels))

\* The SK6812's windows, 150 ns either way of 0.3/0.9 and of 0.6/0.6 us.
IsZero(pulse) == pulse[1] \in 12 .. 36 /\ pulse[2] \in 60 .. 84
IsOne(pulse) == pulse[1] \in 37 .. 60 /\ pulse[2] \in 36 .. 60

\* The byte that eight pulses say; Unread if one is out of its window.
Byte(pulses) ==
    IF \A b \in DOMAIN pulses : IsZero(pulses[b]) \/ IsOne(pulses[b])
    THEN LET says(b) == IF IsOne(pulses[b]) THEN Weights[b] ELSE 0
         IN  says(1) + says(2) + says(3) + says(4) + says(5) + says(6) + says(7) + says(8)
    ELSE Unread

\* Each LED latches its 32 bits and passes the rest on: green, red, blue and
\* white, here put in the order of a picture.
Latched(pulses) ==
    [i \in 1 .. LEDS |->
        LET byte(k) == Byte([b \in 1 .. 8 |-> pulses[((i - 1) * PerLed + k) * 8 + b]])
        IN  <<byte(1), byte(0), byte(2), byte(3)>>]

------------------------------------------------------------------------------
\* transmit() takes the channel and gives it back, with the result or with the
\* error, unless the data have no end.
Ended(pixels) == driver = "dma" \/ RmtCodes(pixels)[Len(RmtCodes(pixels))] = EmptyCode

\* A mutant of what write() keeps: the channel goes with a failed frame.
KeptOnSuccess(pixels, accepted) == Ended(pixels) /\ accepted

Kept(pixels, accepted) == Ended(pixels)

\* What the strip may show after a transmission that failed: RMT may have
\* clocked some of the LEDs by then, a DMA transfer does not start.
AfterFailure(shown, pixels) ==
    IF driver = "rmt"
    THEN {[i \in 1 .. LEDS |-> IF i <= n THEN Latched(Pulses(pixels))[i] ELSE shown[i]] :
             n \in 0 .. LEDS - 1}
    ELSE {shown}

\* What the strip may show after write(), of what it showed before.
Shown(shown, pixels, accepted) ==
    IF accepted THEN {Latched(Pulses(pixels))} ELSE AfterFailure(shown, pixels)

Blank == [i \in 1 .. LEDS |-> <<0, 0, 0>>]

\* The strip is cleared before anything else, of what was left on it; whether it
\* took that is not looked at.
StripInit(left, cleared) ==
    /\ driver \in {"rmt", "dma"}
    /\ leds \in Shown(left, Blank, cleared)
    /\ channel = Kept(Blank, cleared)

\* write(), and whether it succeeded.  It takes the channel, and expects one.
Write(pixels, accepted) ==
    /\ channel
    /\ accepted => Ended(pixels)
    /\ leds' \in Shown(leds, pixels, accepted)
    /\ channel' = Kept(pixels, accepted)
    /\ UNCHANGED driver
==============================================================================
