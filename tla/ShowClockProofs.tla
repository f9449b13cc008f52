--------------------------- MODULE ShowClockProofs ---------------------------
(***************************************************************************)
(* What the show clock guarantees at every slew rate, threshold, sequence  *)
(* of hardware readings and sequence of corrections.                       *)
(***************************************************************************)
EXTENDS ShowClock, TLAPS, WellFoundedInduction

\* Integer division by a positive number, as Rust's / on non-negative values.
LEMMA Division ==
    ASSUME NEW a \in Nat, NEW m \in Nat \ {0}
    PROVE  /\ a \div m \in Nat
           /\ a % m \in 0 .. m - 1
           /\ a = ((a \div m) * m) + (a % m)
  <1>1. a % m \in 0 .. m - 1
    OBVIOUS
  <1>2. a = (m * (a \div m)) + (a % m)
    OBVIOUS
  <1>3. a \div m \in Int
    OBVIOUS
  <1>4. a \div m >= 0
    <2> DEFINE q == a \div m
    <2>1. SUFFICES ASSUME q <= -1 PROVE FALSE
      BY <1>3
    <2>2. m * q <= -m
      BY <1>3, <2>1
    <2> QED
      BY <1>1, <1>2, <2>2
  <1> QED
    BY <1>1, <1>2, <1>3, <1>4

\* The typed facts of an advance that every later step needs: the interval's
\* budget and carry share out what was carried in plus what the interval adds.
LEMMA Sharing ==
    ASSUME TypeOK, NEW raw \in RawTimes
    PROVE  /\ Elapsed(raw) \in Nat
           /\ Budget(Elapsed(raw)) \in Nat
           /\ Carry(Elapsed(raw)) \in 0 .. PPM_DENOM - 1
           /\ (Budget(Elapsed(raw)) * PPM_DENOM) + Carry(Elapsed(raw))
                = slew_numer + (Elapsed(raw) * SLEW_PPM)
  <1> DEFINE e == Elapsed(raw)
             numer == slew_numer + (e * SLEW_PPM)
  <1>1. e \in Nat
    BY InputAssumption DEF Elapsed, TypeOK
  <1>2. numer \in Nat
    <2>1. e * SLEW_PPM \in Nat
      BY <1>1, SlewAssumption
    <2> QED
      BY <2>1, SlewAssumption DEF TypeOK
  <1>3. PPM_DENOM \in Nat \ {0}
    BY SlewAssumption
  <1> HIDE DEF numer, e
  <1>4. /\ numer \div PPM_DENOM \in Nat
        /\ numer % PPM_DENOM \in 0 .. PPM_DENOM - 1
        /\ numer = ((numer \div PPM_DENOM) * PPM_DENOM) + (numer % PPM_DENOM)
    BY <1>2, <1>3, Division
  <1>5. Budget(e) = numer \div PPM_DENOM /\ Carry(e) = numer % PPM_DENOM
    BY DEF Budget, Carry, numer
  <1> QED
    BY <1>1, <1>4, <1>5 DEF numer, e

\* Any times at all have a least one.
Before == {pair \in Nat \X Nat : pair[1] < pair[2]}

LEMMA BeforeWF == IsWellFoundedOn(Before, Nat)
  BY NatLessThanWellFounded DEF OpToRel, Before

LEMMA LeastTime ==
    ASSUME NEW T, T \subseteq Nat, T # {}
    PROVE  \E t \in T : \A u \in T : t <= u
  <1>1. PICK t \in T : \A u \in T : ~(<<u, t>> \in Before)
    BY BeforeWF, WFMin
  <1>2. ASSUME NEW u \in T PROVE t <= u
    <2>1. t \in Nat /\ u \in Nat /\ ~(u < t)
      BY <1>1 DEF Before
    <2> QED
      BY <2>1
  <1> QED
    BY <1>2

\* The size of an integer is a natural number.
LEMMA AbsNat ==
    ASSUME NEW x \in Int
    PROVE  Abs(x) \in Nat
  BY DEF Abs

\* A product with a whole number of budgets grows with the factor.
LEMMA Scaling ==
    ASSUME NEW x \in Int, NEW y \in Int, NEW m \in Nat, x <= y
    PROVE  x * m <= y * m
  <1>1. PICK d \in Nat : y = x + d
    <2>1. y - x \in Nat /\ y = x + (y - x)
      OBVIOUS
    <2> QED
      BY <2>1
  <1>2. d * m \in Nat /\ (x + d) * m = (x * m) + (d * m)
    OBVIOUS
  <1> QED
    BY <1>1, <1>2

\* An interval never has the budget to undo itself, so the clock's own maximum
\* with its previous reading never takes part in slewing.
LEMMA BudgetFits ==
    ASSUME TypeOK, NEW raw \in RawTimes
    PROVE  Budget(Elapsed(raw)) <= Elapsed(raw)
  <1> DEFINE e == Elapsed(raw)
             b == Budget(e)
  <1>1. /\ e \in Nat /\ b \in Nat
        /\ Carry(e) \in 0 .. PPM_DENOM - 1
        /\ (b * PPM_DENOM) + Carry(e) = slew_numer + (e * SLEW_PPM)
    BY Sharing
  <1>2. PPM_DENOM \in Nat \ {0} /\ SLEW_PPM \in 0 .. PPM_DENOM
    BY SlewAssumption
  <1> HIDE DEF e, b
  <1>3. e * SLEW_PPM <= e * PPM_DENOM
    BY <1>1, <1>2, Scaling
  <1>4. b * PPM_DENOM <= (PPM_DENOM - 1) + (e * PPM_DENOM)
    BY <1>1, <1>2, <1>3 DEF TypeOK
  <1>5. SUFFICES ASSUME e + 1 <= b PROVE FALSE
    BY <1>1 DEF e, b
  <1>6. (e + 1) * PPM_DENOM <= b * PPM_DENOM
    BY <1>1, <1>2, <1>5, Scaling
  <1>7. (e + 1) * PPM_DENOM = (e * PPM_DENOM) + PPM_DENOM
    BY <1>1, <1>2
  <1> QED
    BY <1>1, <1>2, <1>4, <1>6, <1>7

------------------------------------------------------------------------------
(***************************************************************************)
(* The inductive invariant.  WithinSlewRate and CorrectionOnTime forget    *)
(* the carried fraction, so neither is preserved on its own: an interval   *)
(* may spend a fraction that an earlier one carried.  Counting the carry   *)
(* as part of what has been absorbed makes both exact.                     *)
(***************************************************************************)
SlewShare ==
    (Abs(slewed) * PPM_DENOM) + slew_numer <= (SLEW_PPM * ran) + PPM_DENOM - 1

DueShare ==
    pending_us # 0 =>
        ((Abs(due) - Abs(pending_us)) * PPM_DENOM) + slew_numer >= SLEW_PPM * waited

ClockInv == TypeOK /\ NeverBehind /\ SlewShare /\ DueShare /\ NoOvershoot

\* The inductive invariant implies the two bounds that the runs check.
LEMMA ClockInvImplies ==
    ASSUME ClockInv
    PROVE  WithinSlewRate /\ CorrectionOnTime
  <1>1. WithinSlewRate
    BY SlewAssumption DEF ClockInv, TypeOK, SlewShare, WithinSlewRate, Abs
  <1>2. CorrectionOnTime
    <2> SUFFICES ASSUME pending_us # 0
                 PROVE  (Abs(due) - Abs(pending_us)) * PPM_DENOM
                            > (SLEW_PPM * waited) - PPM_DENOM
      BY DEF CorrectionOnTime
    <2>1. ((Abs(due) - Abs(pending_us)) * PPM_DENOM) + slew_numer >= SLEW_PPM * waited
      BY DEF ClockInv, DueShare
    <2>2. /\ SLEW_PPM * waited \in Int
          /\ (Abs(due) - Abs(pending_us)) * PPM_DENOM \in Int
          /\ slew_numer \in 0 .. PPM_DENOM - 1
          /\ PPM_DENOM \in Nat
      BY SlewAssumption, InputAssumption DEF ClockInv, TypeOK, Abs
    <2> QED
      BY <2>1, <2>2
  <1> QED
    BY <1>1, <1>2

LEMMA ClockInit == Init => ClockInv
  BY SlewAssumption, InputAssumption
  DEF Init, ClockInv, TypeOK, NeverBehind, SlewShare, DueShare, NoOvershoot, Abs

\* Advancing keeps the invariant: the one step where the carry matters.
LEMMA ClockAdvance ==
    ASSUME ClockInv, NEW raw \in RawTimes, AdvanceTo(raw)
    PROVE  ClockInv'
  <1> DEFINE e == Elapsed(raw)
             b == Budget(e)
             c == Carry(e)
             a == Applied(e)
  <1>1. /\ e \in Nat /\ b \in Nat /\ c \in 0 .. PPM_DENOM - 1
        /\ (b * PPM_DENOM) + c = slew_numer + (e * SLEW_PPM)
    BY Sharing DEF ClockInv
  <1>2. b <= e
    BY BudgetFits DEF ClockInv
  <1>3. a = Clamp(pending_us, -b, b)
    BY DEF Applied
  <1>4. /\ last_raw_us' = raw
        /\ slew_numer' = c
        /\ pending_us' = pending_us - a
        /\ now_us' = Larger(now_us + e + a, now_us)
        /\ told' = told + e
        /\ ran' = ran + e
        /\ slewed' = slewed + (now_us' - now_us - e)
        /\ waited' = waited + e
        /\ due' = due
    BY DEF AdvanceTo
  <1>5. /\ PPM_DENOM \in Nat \ {0} /\ SLEW_PPM \in Nat /\ STEP_ABOVE_US \in Nat
    BY SlewAssumption, InputAssumption
  <1> HIDE DEF e, b, c, a
  <1>6. a \in -b .. b /\ a \in Int /\ (pending_us - a # 0 => Abs(a) = b)
    BY <1>1, <1>3, <1>5 DEF Clamp, Abs, ClockInv, TypeOK
  <1>7. now_us' = now_us + e + a /\ slewed' = slewed + a
    BY <1>1, <1>2, <1>4, <1>6 DEF Larger, ClockInv, TypeOK
  <1>8. /\ Abs(pending_us - a) = Abs(pending_us) - Abs(a)
        /\ (0 <= pending_us => 0 <= pending_us - a /\ pending_us - a <= pending_us)
        /\ (pending_us <= 0 => pending_us <= pending_us - a /\ pending_us - a <= 0)
    BY <1>1, <1>3, <1>5 DEF Clamp, Abs, ClockInv, TypeOK
  <1>9. TypeOK'
    BY <1>1, <1>4, <1>5, <1>6, <1>7, <1>8, <1>2 DEF ClockInv, TypeOK
  <1>10. NeverBehind'
    BY <1>1, <1>4, <1>6, <1>7 DEF ClockInv, TypeOK, NeverBehind
  <1>11. SlewShare'
    <2>1. Abs(slewed') <= Abs(slewed) + b
      BY <1>1, <1>6, <1>7 DEF Abs, ClockInv, TypeOK
    <2>2. Abs(slewed) \in Nat /\ Abs(slewed') \in Nat
      <3>1. slewed \in Int /\ slewed' \in Int
        BY <1>9 DEF ClockInv, TypeOK
      <3> QED
        BY <3>1, AbsNat
    <2>3. Abs(slewed') * PPM_DENOM <= (Abs(slewed) + b) * PPM_DENOM
      BY <2>1, <2>2, <1>1, <1>5, Scaling
    <2>4. (Abs(slewed) + b) * PPM_DENOM = (Abs(slewed) * PPM_DENOM) + (b * PPM_DENOM)
      BY <2>2, <1>1, <1>5
    <2>5. SLEW_PPM * (ran + e) = (SLEW_PPM * ran) + (e * SLEW_PPM)
      BY <1>1, <1>5 DEF ClockInv, TypeOK
    <2>6. (Abs(slewed) * PPM_DENOM) + slew_numer <= (SLEW_PPM * ran) + PPM_DENOM - 1
      BY DEF ClockInv, SlewShare
    <2>7. /\ Abs(slewed) * PPM_DENOM \in Int /\ b * PPM_DENOM \in Int
          /\ SLEW_PPM * ran \in Int /\ e * SLEW_PPM \in Int
          /\ Abs(slewed') * PPM_DENOM \in Int /\ slew_numer \in Int
      BY <2>2, <1>1, <1>5 DEF ClockInv, TypeOK
    <2>8. (Abs(slewed') * PPM_DENOM) + c <= (SLEW_PPM * (ran + e)) + PPM_DENOM - 1
      BY <2>3, <2>4, <2>5, <2>6, <2>7, <1>1, <1>5
    <2> QED
      BY <2>8, <1>4 DEF SlewShare
  <1>12. DueShare'
    <2> SUFFICES ASSUME pending_us - a # 0
                 PROVE  ((Abs(due) - Abs(pending_us - a)) * PPM_DENOM) + c
                            >= SLEW_PPM * (waited + e)
      BY <1>4 DEF DueShare
    <2>1. pending_us # 0
      BY <1>1, <1>3, <1>5 DEF Clamp, ClockInv, TypeOK
    <2>2. Abs(due) - Abs(pending_us - a) = (Abs(due) - Abs(pending_us)) + b
      BY <1>1, <1>6, <1>8 DEF Abs, ClockInv, TypeOK
    <2> DEFINE gone == Abs(due) - Abs(pending_us)
    <2>3. gone \in Int
      BY DEF Abs, ClockInv, TypeOK
    <2>4. (gone * PPM_DENOM) + slew_numer >= SLEW_PPM * waited
      BY <2>1 DEF ClockInv, DueShare
    <2> HIDE DEF gone
    <2>5. (gone + b) * PPM_DENOM = (gone * PPM_DENOM) + (b * PPM_DENOM)
      BY <2>3, <1>1, <1>5
    <2>6. SLEW_PPM * (waited + e) = (SLEW_PPM * waited) + (e * SLEW_PPM)
      BY <1>1, <1>5 DEF ClockInv, TypeOK
    <2>7. /\ gone * PPM_DENOM \in Int /\ b * PPM_DENOM \in Int
          /\ SLEW_PPM * waited \in Int /\ e * SLEW_PPM \in Int /\ slew_numer \in Int
      BY <2>3, <1>1, <1>5 DEF ClockInv, TypeOK
    <2>8. ((gone + b) * PPM_DENOM) + c >= SLEW_PPM * (waited + e)
      BY <2>4, <2>5, <2>6, <2>7, <1>1
    <2> QED
      BY <2>2, <2>8 DEF gone
  <1>13. NoOvershoot'
    BY <1>4, <1>8, <1>6 DEF ClockInv, TypeOK, NoOvershoot
  <1> QED
    BY <1>9, <1>10, <1>11, <1>12, <1>13 DEF ClockInv

\* A slewed correction keeps the invariant: it starts a new wait.
LEMMA ClockSlew ==
    ASSUME ClockInv, NEW offset \in Int, Slew(offset)
    PROVE  ClockInv'
  <1>1. offset \in Int /\ STEP_ABOVE_US \in Nat /\ PPM_DENOM \in Nat \ {0} /\ SLEW_PPM \in Nat
    BY SlewAssumption, InputAssumption
  <1>2. TypeOK' /\ NeverBehind' /\ NoOvershoot'
    BY <1>1 DEF ClockInv, TypeOK, NeverBehind, NoOvershoot, Slew, Abs
  <1>3. SlewShare'
    BY DEF ClockInv, SlewShare, Slew
  <1>4. DueShare'
    <2>1. /\ Abs(due') - Abs(pending_us') = 0 /\ waited' = 0 /\ slew_numer' = slew_numer
          /\ slew_numer >= 0 /\ slew_numer \in Int
      BY <1>1, <1>2 DEF ClockInv, TypeOK, Slew, Abs
    <2>2. 0 * PPM_DENOM = 0 /\ SLEW_PPM * 0 = 0
      BY <1>1
    <2> QED
      BY <2>1, <2>2 DEF DueShare
  <1> QED
    BY <1>2, <1>3, <1>4 DEF ClockInv

\* A stepped correction keeps the invariant: it starts everything afresh.
LEMMA ClockStep ==
    ASSUME ClockInv, NEW offset \in Int, Step(offset)
    PROVE  ClockInv'
  <1>1. offset \in Int /\ STEP_ABOVE_US \in Nat /\ PPM_DENOM \in Nat \ {0} /\ SLEW_PPM \in Nat
    BY SlewAssumption, InputAssumption
  <1>2. TypeOK'
    BY <1>1 DEF ClockInv, TypeOK, Step, Larger
  <1>3. NeverBehind'
    BY <1>1 DEF ClockInv, TypeOK, NeverBehind, Step, Larger
  <1>4. SlewShare' /\ DueShare' /\ NoOvershoot'
    BY <1>1 DEF Step, SlewShare, DueShare, NoOvershoot, Abs
  <1> QED
    BY <1>2, <1>3, <1>4 DEF ClockInv

\* Setting the clock keeps the invariant; it is the one step that leaves a
\* carry behind, which the bound on the slew rate allows for.
LEMMA ClockSet ==
    ASSUME ClockInv, NEW show \in ShowTimes, Set(show)
    PROVE  ClockInv'
  <1>1. show \in Nat /\ STEP_ABOVE_US \in Nat /\ PPM_DENOM \in Nat \ {0} /\ SLEW_PPM \in Nat
    BY SlewAssumption, InputAssumption
  <1>2. TypeOK' /\ NeverBehind' /\ DueShare' /\ NoOvershoot'
    BY <1>1 DEF ClockInv, TypeOK, Set, NeverBehind, DueShare, NoOvershoot
  <1>3. SlewShare'
    <2>1. slewed' = 0 /\ ran' = 0 /\ slew_numer' = slew_numer /\ slew_numer <= PPM_DENOM - 1
      BY DEF ClockInv, TypeOK, Set
    <2> QED
      BY <2>1, <1>1 DEF SlewShare, Abs, ClockInv, TypeOK
  <1> QED
    BY <1>2, <1>3 DEF ClockInv

LEMMA ClockNext == ClockInv /\ [Next]_vars => ClockInv'
  <1> SUFFICES ASSUME ClockInv, [Next]_vars PROVE ClockInv'
    OBVIOUS
  <1>1. ASSUME NEW raw \in RawTimes, AdvanceTo(raw) PROVE ClockInv'
    BY <1>1, ClockAdvance
  <1>2. ASSUME NEW offset \in Offsets, Discipline(offset) PROVE ClockInv'
    BY <1>2, ClockSlew, ClockStep, InputAssumption DEF Discipline
  <1>3. ASSUME NEW show \in ShowTimes, Set(show) PROVE ClockInv'
    BY <1>3, ClockSet
  <1>4. CASE UNCHANGED vars
    BY <1>4 DEF vars, code, history, ClockInv, TypeOK, NeverBehind, SlewShare, DueShare, NoOvershoot
  <1> QED
    BY <1>1, <1>2, <1>3, <1>4 DEF Next

------------------------------------------------------------------------------
LEMMA ClockInductive == Spec => []ClockInv
  BY ClockInit, ClockNext, PTL DEF Spec

\* The carry stays below one microsecond and the outstanding correction below
\* the threshold.
THEOREM TypeCorrect == Spec => []TypeOK
  <1>1. ClockInv => TypeOK
    BY DEF ClockInv
  <1> QED
    BY <1>1, ClockInductive, PTL

\* No elapsed time and no positive correction is ever lost.
THEOREM NeverBehindHolds == Spec => []NeverBehind
  <1>1. ClockInv => NeverBehind
    BY DEF ClockInv
  <1> QED
    BY <1>1, ClockInductive, PTL

\* Between two steps the clock departs from the hardware by at most the slew
\* rate, at every slicing of time.
THEOREM SlewRateHolds == Spec => []WithinSlewRate
  <1>1. ClockInv => WithinSlewRate
    BY ClockInvImplies
  <1> QED
    BY <1>1, ClockInductive, PTL

\* A correction arrives as fast as the slew rate allows, at every slicing of
\* time.
THEOREM CorrectionArrives == Spec => []CorrectionOnTime
  <1>1. ClockInv => CorrectionOnTime
    BY ClockInvImplies
  <1> QED
    BY <1>1, ClockInductive, PTL

\* Working a correction off never overshoots it.
THEOREM NoOvershootHolds == Spec => []NoOvershoot
  <1>1. ClockInv => NoOvershoot
    BY DEF ClockInv
  <1> QED
    BY <1>1, ClockInductive, PTL

\* The two together, at every rate and threshold.
THEOREM CorrectionAbsorbedHolds == Spec => []CorrectionAbsorbed
  BY CorrectionArrives, NoOvershootHolds, PTL DEF CorrectionAbsorbed

\* A correction is lost by a refused backward step and by nothing else.
THEOREM OnlyARefusedStepLosesHolds == Spec => OnlyARefusedStepLoses
  <1> DEFINE Kept ==
        \/ Ahead' = Ahead
        \/ \E offset \in Offsets : Step(offset) /\ pending_us + offset < 0
        \/ \E show \in ShowTimes : Set(show)
  <1>1. ClockInv /\ [Next]_vars => [Kept]_vars
    <2> SUFFICES ASSUME ClockInv, Next PROVE Kept
      OBVIOUS
    <2>1. ASSUME NEW raw \in RawTimes, AdvanceTo(raw) PROVE Kept
      <3> DEFINE e == Elapsed(raw)
                 a == Applied(e)
      <3>1. e \in Nat /\ Budget(e) \in Nat /\ Budget(e) <= e
        BY Sharing, BudgetFits DEF ClockInv
      <3>2. a = Clamp(pending_us, -Budget(e), Budget(e))
        BY DEF Applied
      <3>3. /\ pending_us' = pending_us - a
            /\ now_us' = Larger(now_us + e + a, now_us)
            /\ told' = told + e
        BY <2>1 DEF AdvanceTo
      <3> HIDE DEF e, a
      <3>4. a \in Int /\ e + a >= 0
        BY <3>1, <3>2, InputAssumption DEF Clamp, ClockInv, TypeOK
      <3>5. Ahead' = Ahead
        BY <3>1, <3>3, <3>4, InputAssumption DEF Ahead, Larger, ClockInv, TypeOK
      <3> QED
        BY <3>5
    <2>2. ASSUME NEW offset \in Offsets, Slew(offset) PROVE Kept
      <3>1. Ahead' = Ahead
        BY <2>2, InputAssumption DEF Slew, Ahead, ClockInv, TypeOK
      <3> QED
        BY <3>1
    <2>3. ASSUME NEW offset \in Offsets, Step(offset) PROVE Kept
      <3>1. CASE pending_us + offset < 0
        BY <3>1, <2>3
      <3>2. CASE ~(pending_us + offset < 0)
        <4>1. Ahead' = Ahead
          BY <3>2, <2>3, InputAssumption DEF Step, Ahead, Larger, Abs, ClockInv, TypeOK
        <4> QED
          BY <4>1
      <3> QED
        BY <3>1, <3>2
    <2> QED
      BY <2>1, <2>2, <2>3 DEF Next, Discipline
  <1> QED
    BY <1>1, ClockInductive, PTL DEF Spec, OnlyARefusedStepLoses

\* The clock never runs backwards unless it is set.
THEOREM NeverBackwardsHolds == Spec => NeverBackwards
  <1> DEFINE Onwards == now_us' >= now_us \/ (\E show \in ShowTimes : Set(show))
  <1>1. ClockInv /\ [Next]_vars => [Onwards]_vars
    <2> SUFFICES ASSUME ClockInv, Next PROVE Onwards
      OBVIOUS
    <2>1. ASSUME NEW raw \in RawTimes, AdvanceTo(raw) PROVE now_us' >= now_us
      <3> DEFINE a == Applied(Elapsed(raw))
      <3>1. Elapsed(raw) \in Nat /\ Budget(Elapsed(raw)) \in Nat
        BY Sharing DEF ClockInv
      <3>2. a \in Int
        BY <3>1, InputAssumption DEF Applied, Clamp, ClockInv, TypeOK
      <3>3. now_us' = Larger(now_us + Elapsed(raw) + a, now_us)
        BY <2>1 DEF AdvanceTo
      <3> HIDE DEF a
      <3> QED
        BY <3>1, <3>2, <3>3 DEF Larger, ClockInv, TypeOK
    <2>2. ASSUME NEW offset \in Offsets, Discipline(offset) PROVE now_us' >= now_us
      BY <2>2, InputAssumption DEF Discipline, Slew, Step, Larger, ClockInv, TypeOK
    <2> QED
      BY <2>1, <2>2 DEF Next
  <1> QED
    BY <1>1, ClockInductive, PTL DEF Spec, NeverBackwards
==============================================================================
