------------------------------ MODULE ShowClock ------------------------------
(***************************************************************************)
(* The show clock of a device: spikes/s5-device/src/clock.rs.              *)
(*                                                                         *)
(* The clock follows the hardware counter and works a correction off at    *)
(* SLEW_PPM parts per million, carrying the fraction of a microsecond that *)
(* an interval's budget leaves over.  A correction that brings the         *)
(* outstanding total beyond STEP_ABOVE_US is applied at once instead.      *)
(*                                                                         *)
(* The unit of time is the microsecond and the arithmetic is the code's;   *)
(* the u64/i64 saturation is not modelled, since 2^63 microseconds is      *)
(* 292000 years of uptime.                                                 *)
(***************************************************************************)
EXTENDS Integers

CONSTANTS
    SLEW_PPM,       \* parts of PPM_DENOM the clock may run fast or slow
    PPM_DENOM,      \* 1_000_000 in the code
    STEP_ABOVE_US,  \* a larger outstanding correction is stepped
    RawTimes,       \* the readings the hardware counter can give
    Offsets,        \* the corrections the mesh can hand over
    ShowTimes       \* the times the clock can be set to

ASSUME SlewAssumption ==
    /\ PPM_DENOM \in Nat \ {0}
    /\ SLEW_PPM \in 0 .. PPM_DENOM

ASSUME InputAssumption ==
    /\ STEP_ABOVE_US \in Nat
    /\ RawTimes \subseteq Nat
    /\ Offsets \subseteq Int
    /\ ShowTimes \subseteq Nat

VARIABLES
    last_raw_us,    \* hardware time at the last advance
    now_us,         \* what the clock reads
    pending_us,     \* correction still to be worked off, signed
    slew_numer      \* slew budget not yet worth a whole microsecond

(***************************************************************************)
(* History, which no action reads: what the clock has been told, and what  *)
(* it has done since it last stepped and since its correction last changed.*)
(***************************************************************************)
VARIABLES
    told,           \* hardware time elapsed plus every correction handed over
    ran,            \* hardware time elapsed since the last step
    slewed,         \* how far the clock has departed from ran since then
    due,            \* the correction outstanding when it last changed
    waited          \* hardware time elapsed since then

code == <<last_raw_us, now_us, pending_us, slew_numer>>
history == <<told, ran, slewed, due, waited>>
vars == <<code, history>>

Abs(x) == IF x < 0 THEN -x ELSE x
Larger(x, y) == IF x < y THEN y ELSE x
Clamp(x, low, high) == IF x < low THEN low ELSE IF x > high THEN high ELSE x

------------------------------------------------------------------------------
\* raw_us.saturating_sub(self.last_raw_us): a hardware counter that went
\* backwards has elapsed nothing.
Elapsed(raw) == IF raw > last_raw_us THEN raw - last_raw_us ELSE 0

\* Whole microseconds of correction that the interval may absorb.
Budget(elapsed) == (slew_numer + elapsed * SLEW_PPM) \div PPM_DENOM

\* Mutants of the carry: the remainder discarded, as the first version did.
CarryDropped(elapsed) == 0

\* What is left of the interval's budget, carried to the next one.
Carry(elapsed) == (slew_numer + elapsed * SLEW_PPM) % PPM_DENOM

\* Mutants of what is absorbed: the whole budget, whatever is outstanding; and
\* all that is outstanding, whatever the budget.
AppliedUnclamped(elapsed) ==
    IF pending_us < 0 THEN -Budget(elapsed) ELSE IF pending_us > 0 THEN Budget(elapsed) ELSE 0
AppliedAtOnce(elapsed) == pending_us

\* The correction that the interval does absorb.
Applied(elapsed) == Clamp(pending_us, -Budget(elapsed), Budget(elapsed))

Init ==
    /\ last_raw_us \in RawTimes
    /\ now_us = 0
    /\ pending_us = 0
    /\ slew_numer = 0
    /\ told = 0
    /\ ran = 0
    /\ slewed = 0
    /\ due = 0
    /\ waited = 0

AdvanceTo(raw) ==
    LET elapsed == Elapsed(raw)
        applied == Applied(elapsed)
    IN  /\ last_raw_us' = raw
        /\ slew_numer' = Carry(elapsed)
        /\ pending_us' = pending_us - applied
        /\ now_us' = Larger(now_us + elapsed + applied, now_us)
        /\ told' = told + elapsed
        /\ ran' = ran + elapsed
        /\ slewed' = slewed + (now_us' - now_us - elapsed)
        /\ waited' = waited + elapsed
        /\ UNCHANGED due

\* A mutant of slewing: a total of any size is slewed.
SlewAnything(offset) ==
    /\ pending_us' = pending_us + offset
    /\ told' = told + offset
    /\ due' = pending_us'
    /\ waited' = 0
    /\ UNCHANGED <<last_raw_us, now_us, slew_numer, ran, slewed>>

\* discipline(), total within the threshold: accumulate and slew.
Slew(offset) ==
    /\ Abs(pending_us + offset) <= STEP_ABOVE_US
    /\ pending_us' = pending_us + offset
    /\ told' = told + offset
    /\ due' = pending_us'
    /\ waited' = 0
    /\ UNCHANGED <<last_raw_us, now_us, slew_numer, ran, slewed>>

\* Mutants of stepping: what was outstanding is forgotten; and the step is taken
\* backwards too.
StepNewOnly(offset) ==
    /\ Abs(pending_us + offset) > STEP_ABOVE_US
    /\ now_us' = Larger(now_us + offset, now_us)
    /\ pending_us' = 0
    /\ slew_numer' = 0
    /\ told' = told + offset
    /\ ran' = 0 /\ slewed' = 0
    /\ due' = 0 /\ waited' = 0
    /\ UNCHANGED last_raw_us

StepEitherWay(offset) ==
    /\ Abs(pending_us + offset) > STEP_ABOVE_US
    /\ now_us' = Larger(now_us + pending_us + offset, 0)
    /\ pending_us' = 0
    /\ slew_numer' = 0
    /\ told' = told + offset
    /\ ran' = 0 /\ slewed' = 0
    /\ due' = 0 /\ waited' = 0
    /\ UNCHANGED last_raw_us

\* discipline(), total beyond the threshold: step once, forwards only.
Step(offset) ==
    LET total == pending_us + offset
    IN  /\ Abs(total) > STEP_ABOVE_US
        /\ now_us' = Larger(now_us + total, now_us)
        /\ pending_us' = 0
        /\ slew_numer' = 0
        /\ told' = told + offset
        /\ ran' = 0
        /\ slewed' = 0
        /\ due' = 0
        /\ waited' = 0
        /\ UNCHANGED last_raw_us

Discipline(offset) == Slew(offset) \/ Step(offset)

\* set(): jump to a show time and forget the outstanding correction.
Set(show) ==
    /\ now_us' = show
    /\ pending_us' = 0
    /\ told' = show
    /\ ran' = 0
    /\ slewed' = 0
    /\ due' = 0
    /\ waited' = 0
    /\ UNCHANGED <<last_raw_us, slew_numer>>

Next ==
    \/ \E raw \in RawTimes : AdvanceTo(raw)
    \/ \E offset \in Offsets : Discipline(offset)
    \/ \E show \in ShowTimes : Set(show)

Spec == Init /\ [][Next]_vars

------------------------------------------------------------------------------
\* The types of the variables.  The carry is always worth less than a
\* microsecond, and an outstanding correction never exceeds the threshold.
TypeOK ==
    /\ last_raw_us \in RawTimes
    /\ now_us \in Nat
    /\ pending_us \in -STEP_ABOVE_US .. STEP_ABOVE_US
    /\ slew_numer \in 0 .. PPM_DENOM - 1
    /\ told \in Int
    /\ ran \in Nat
    /\ slewed \in Int
    /\ due \in -STEP_ABOVE_US .. STEP_ABOVE_US
    /\ waited \in Nat

\* What the clock reads, with what it still has to work off, is never behind
\* what it was told: no interleaving of advances and corrections loses elapsed
\* time or a positive correction (discipline(): "dropping either would leave
\* the error in").
NeverBehind == now_us + pending_us >= told

\* However the main loop slices time, the clock's departure from the hardware
\* since its last step stays within the slew rate, plus the fraction of a
\* microsecond it may have been carrying.
WithinSlewRate == Abs(slewed) * PPM_DENOM <= SLEW_PPM * ran + PPM_DENOM - 1

\* A correction arrives on time however the main loop slices time: as long as
\* some of it is outstanding, what has been absorbed is all that the slew rate
\* allows, short of one microsecond.  (Without the carried remainder a clock
\* advanced every few microseconds would never move, which is the defect that
\* the comment on slew_numer records.)
CorrectionOnTime ==
    pending_us # 0 =>
        (Abs(due) - Abs(pending_us)) * PPM_DENOM > SLEW_PPM * waited - PPM_DENOM

\* Working a correction off never overshoots: what is outstanding lies between
\* nothing and what was due.
NoOvershoot ==
    \/ 0 <= pending_us /\ pending_us <= due
    \/ due <= pending_us /\ pending_us <= 0

\* A correction is absorbed neither late nor past its end, at every slicing of
\* time: what the two say together of the carried remainder and of the clamp.
CorrectionAbsorbed == CorrectionOnTime /\ NoOvershoot

\* The only thing that makes the clock lose a correction is a refused backward
\* step: every other step moves what the clock reads, with what is outstanding,
\* exactly as far as what it is told.
Ahead == now_us + pending_us - told

OnlyARefusedStepLoses ==
    [][ Ahead' = Ahead
        \/ (\E offset \in Offsets : Step(offset) /\ pending_us + offset < 0)
        \/ (\E show \in ShowTimes : Set(show)) ]_vars

\* The clock never runs backwards, whatever the hardware and the mesh do; only
\* set() may move it back.
NeverBackwards ==
    [][ now_us' >= now_us \/ (\E show \in ShowTimes : Set(show)) ]_vars
==============================================================================
