---------------------------- MODULE Probe_proofs ----------------------------
(***************************************************************************)
(* The binary search of Probe gives the right figure for every size and    *)
(* every amount of free space.                                             *)
(***************************************************************************)
EXTENDS Probe, TLAPS

\* The search keeps the answer between what fitted and what did not: best is
\* the last size that fitted, low starts just above it, and no run longer than
\* high is on offer.
Bracket ==
  /\ low = IF best = 0 THEN 0 ELSE best + 1
  /\ high <= upper
  /\ pc = "refused" => best = 0 /\ high = upper /\ held
  /\ pc # "refused" => held = keep

\* A probe is made only of a size between low and high.
Probing ==
  pc \in {"open", "measure", "narrow"} => low <= high /\ Mid >= 1

\* What an undisturbed search has learnt of the space on offer.
Learnt ==
  ~spoiled /\ pc # "refused" =>
    /\ best <= Grant
    /\ Smaller(upper, Grant) <= high \/ pc = "done"
    /\ pc = "narrow" => (fits <=> Mid <= Grant)

\* Nothing was ever taken to fit that was not on offer.
Bounded ==
  /\ best <= upper
  /\ best <= peak
  /\ Grant <= peak
  /\ pc = "narrow" /\ fits => Mid <= peak

\* A probe file at large is one from before this search, or could not be removed.
Leftover ==
  /\ probe /\ ~stuck /\ pc \in {"refused", "loop"} => low = 0 /\ high = upper
  /\ probe /\ pc = "narrow" => stuck

Inv == TypeOK /\ Bracket /\ Probing /\ Learnt /\ Bounded /\ Leftover
           /\ Exact /\ NoProbeLeft

-----------------------------------------------------------------------------
\* The midpoint of fits_contiguously's next request lies between the bounds.
LEMMA Midpoint ==
  ASSUME NEW a \in Nat, NEW b \in Nat
  PROVE  /\ (a + b) \div 2 \in Nat
         /\ 2 * ((a + b) \div 2) <= a + b
         /\ a + b <= 2 * ((a + b) \div 2) + 1
  OBVIOUS

\* The search starts inside the invariant.
LEMMA InitInv == Init => Inv
<1> SUFFICES ASSUME Init PROVE Inv
  OBVIOUS
<1>1. upper \in Nat /\ room \in Nat /\ short \in Nat /\ short <= room
  BY ProbeAssumption DEF Init
<1>2. TypeOK
  <2>1. /\ pc = "refused" /\ held \in BOOLEAN /\ fits \in BOOLEAN
        /\ spoiled \in BOOLEAN /\ probe \in BOOLEAN /\ stuck \in BOOLEAN
        /\ keep \in BOOLEAN
    BY DEF Init
  <2>2. /\ low \in 0 .. upper + 1 /\ high \in 0 .. upper /\ best \in 0 .. upper
        /\ peak \in Nat /\ changes \in Nat
    BY <1>1 DEF Init
  <2>3. upper \in Sizes /\ room \in Sizes /\ short \in Sizes
    BY DEF Init
  <2> QED
    BY <2>1, <2>2, <2>3 DEF TypeOK
<1>3. Bracket /\ Bounded /\ Leftover
  BY <1>1 DEF Init, Bracket, Bounded, Leftover, Grant
<1>4. Probing /\ Learnt /\ Exact /\ NoProbeLeft
  BY DEF Init, Probing, Learnt, Exact, NoProbeLeft
<1> QED
  BY <1>2, <1>3, <1>4 DEF Inv

\* Every step of the search, and every change of the space, keeps the invariant.
LEMMA NextInv == Inv /\ [Next]_vars => Inv'
<1> SUFFICES ASSUME Inv, [Next]_vars PROVE Inv'
  OBVIOUS
<1> USE ProbeAssumption DEF file
<1>m. /\ Mid \in Nat
      /\ 2 * Mid <= low + high
      /\ low + high <= 2 * Mid + 1
  BY Midpoint DEF Mid, Inv, TypeOK
<1>n. /\ upper \in Nat /\ low \in Nat /\ high \in Nat /\ best \in Nat
      /\ Grant \in Nat
  BY DEF Inv, TypeOK, Grant
<1>1. CASE Release
  BY <1>1 DEF Release, StillHeld, Inv, TypeOK, Bracket, Probing, Learnt, Bounded, Leftover,
              Exact, NoProbeLeft, Grant, Smaller, Mid, search
<1>2. CASE Loop
  BY <1>2, <1>m DEF Loop, Inv, TypeOK, Bracket, Probing, Learnt, Bounded,
              Leftover, Exact, NoProbeLeft, Largest, Grant, Smaller, Mid, search,
              space
<1>3. CASE Open
  <2>1. /\ pc = "open" /\ pc' \in {"measure", "narrow"}
        /\ probe' \in BOOLEAN /\ stuck' \in BOOLEAN
        /\ pc' = "narrow" => stuck' = probe'
    BY <1>3 DEF Open, Inv, TypeOK
  <2>2. /\ pc' = "measure" => fits' = fits /\ spoiled' = spoiled
        /\ pc' = "narrow" => fits' = FALSE /\ spoiled' = TRUE
    BY <1>3 DEF Open
  <2>3. UNCHANGED <<upper, keep, held, low, high, best, space>>
    BY <1>3 DEF Open
  <2>4. TypeOK'
    BY <2>1, <2>2, <2>3 DEF Inv, TypeOK, space
  <2>5. Bracket' /\ Probing' /\ Leftover' /\ Exact' /\ NoProbeLeft'
    BY <2>1, <2>2, <2>3 DEF Inv, Bracket, Probing, Leftover, Exact, NoProbeLeft, Mid
  <2>6. Learnt' /\ Bounded'
    BY <2>1, <2>2, <2>3 DEF Inv, Learnt, Bounded, Grant, Smaller, Mid, space
  <2> QED
    BY <2>4, <2>5, <2>6 DEF Inv
<1>4. CASE Measure
  <2>1. fits' \in BOOLEAN /\ (fits' => Mid <= Grant)
    BY <1>4 DEF Measure, Fits
  <2>2. TypeOK'
    BY <1>4, <2>1 DEF Measure, Remove, Inv, TypeOK, space
  <2>3. Bracket' /\ Probing' /\ Leftover' /\ Exact' /\ NoProbeLeft'
    BY <1>4 DEF Measure, Remove, Inv, Bracket, Probing, Leftover, Exact, NoProbeLeft, Mid,
                space
  <2>4. Mid' = Mid /\ Grant' = Grant /\ Grant \in Nat
    BY <1>4 DEF Measure, Inv, TypeOK, Mid, Grant, space
  <2>5. Learnt'
    BY <1>4, <1>m, <2>4 DEF Measure, Fits, Inv, Learnt, Smaller, space
  <2>6. Bounded'
    BY <1>4, <1>m, <2>1, <2>4 DEF Measure, Inv, TypeOK, Bounded, space
  <2> QED
    BY <2>2, <2>3, <2>5, <2>6 DEF Inv
<1>5. CASE Narrow
  <2>1. TypeOK'
    <3>1. upper' = upper /\ Mid >= 1 /\ Mid <= upper
      BY <1>5, <1>m, <1>n DEF Narrow, Inv, Bracket, Probing
    <3>2. /\ high' \in 0 .. upper' /\ low' \in 0 .. upper' + 1
          /\ best' \in 0 .. upper'
      BY <1>5, <1>m, <1>n, <3>1 DEF Narrow, Raised, Inv, TypeOK
    <3>3. pc' \in {"loop", "done"}
      BY <1>5 DEF Narrow
    <3> QED
      BY <1>5, <3>1, <3>2, <3>3 DEF Narrow, Inv, TypeOK, space
  <2>2. Bracket' /\ Leftover' /\ NoProbeLeft' /\ Probing'
    BY <1>5, <1>m, <1>n DEF Narrow, Raised, Inv, TypeOK, Bracket, Leftover, NoProbeLeft, Probing,
                      space
  <2>3. Learnt'
    BY <1>5, <1>m, <1>n DEF Narrow, Raised, Inv, TypeOK, Bracket, Learnt, Grant, Smaller, Mid,
                      space
  <2>4. Bounded'
    BY <1>5, <1>m, <1>n DEF Narrow, Raised, Inv, TypeOK, Bracket, Probing, Bounded, Grant, Mid,
                      space
  <2>5. Exact'
    BY <1>5, <1>m, <1>n DEF Narrow, Raised, Inv, TypeOK, Bracket, Learnt, Exact, Largest, Grant,
                      Smaller, Mid, space
  <2> QED
    BY <2>1, <2>2, <2>3, <2>4, <2>5 DEF Inv
<1>6. CASE Change
  <2>1. TypeOK' /\ Bounded'
    BY <1>6 DEF Change, Inv, TypeOK, Bounded, Grant, Larger, Mid, search
  <2>2. Bracket' /\ Probing' /\ Leftover' /\ NoProbeLeft'
    BY <1>6 DEF Change, Inv, Bracket, Probing, Leftover, NoProbeLeft, Mid, search
  <2>3. Learnt' /\ Exact'
    BY <1>6 DEF Change, Inv, TypeOK, Learnt, Exact
  <2> QED
    BY <2>1, <2>2, <2>3 DEF Inv
<1>7. CASE UNCHANGED vars
  BY <1>7 DEF vars, search, space, Inv, TypeOK, Bracket, Probing, Learnt, Bounded,
              Leftover, Exact, NoProbeLeft, Largest, Grant, Smaller, Mid
<1> QED
  BY <1>1, <1>2, <1>3, <1>4, <1>5, <1>6, <1>7 DEF Next, Step

-----------------------------------------------------------------------------
\* The bounds and the answer of the search keep their types.
THEOREM ProbeTypes == Spec => []TypeOK
<1>1. Inv => TypeOK
  BY DEF Inv
<1> QED
  BY InitInv, NextInv, <1>1, PTL DEF Spec

\* The figure that report_refusal prints is the largest contiguous run on
\* offer, whatever the sizes, if nothing disturbed the search.
THEOREM ProbeExact == Spec => []Exact
<1>1. Inv => Exact
  BY DEF Inv
<1> QED
  BY InitInv, NextInv, <1>1, PTL DEF Spec

\* A disturbed search never prints more than was on offer at some time.
THEOREM ProbeNeverOverstates == Spec => []NeverOverstates
<1>1. Inv => NeverOverstates
  BY DEF Inv, Bounded, NeverOverstates
<1> QED
  BY InitInv, NextInv, <1>1, PTL DEF Spec

\* No search leaves its probe file behind.
THEOREM ProbeLeavesNothing == Spec => []NoProbeLeft
<1>1. Inv => NoProbeLeft
  BY DEF Inv
<1> QED
  BY InitInv, NextInv, <1>1, PTL DEF Spec
-----------------------------------------------------------------------------
\* How many sizes the search has yet to decide.
Width == IF low <= high THEN high + 1 - low ELSE 0

\* The steps still owed: four for each size in the interval, and what is left of
\* the round the search is in.
Owed ==
  IF pc = "done" THEN 0
  ELSE 4 * Width + CASE pc = "refused" -> 5
                     [] pc = "loop"    -> 4
                     [] pc = "open"    -> 3
                     [] pc = "measure" -> 2
                     [] pc = "narrow"   -> 1

\* A probe that is over decided at least half of the sizes; no other step, and
\* nothing other programs do, opens the interval again.
Halves ==
  /\ Width' <= Width
  /\ Narrow => 2 * Width' <= Width \/ pc' = "done"

\* Every step of the search pays one of the steps it owes.
Shrinks ==
  /\ Owed \in Nat /\ Owed' \in Nat
  /\ Step => Owed' < Owed
  /\ Owed' <= Owed

\* An interval has a number of sizes, if it is empty too.
LEMMA WidthCounts ==
  ASSUME NEW a \in Nat, NEW b \in Nat
  PROVE  (IF a <= b THEN b + 1 - a ELSE 0) \in Nat
  OBVIOUS

\* Half an interval owes less.
LEMMA HalfCounts ==
  ASSUME NEW w \in Nat, NEW v \in Nat, w >= 1, 2 * v <= w
  PROVE  v < w /\ 4 * v + 4 < 4 * w + 1
  OBVIOUS

\* What one step does to the interval, and to what is owed.
LEMMA StepShrinks == Inv /\ Inv' /\ [Next]_vars => Halves /\ Shrinks
<1> SUFFICES ASSUME Inv, Inv', [Next]_vars PROVE Halves /\ Shrinks
  OBVIOUS
<1>m. /\ Mid \in Nat
      /\ 2 * Mid <= low + high
      /\ low + high <= 2 * Mid + 1
  BY ProbeAssumption, Midpoint DEF Mid, Inv, TypeOK
<1>n. low \in Nat /\ high \in Nat /\ Width \in Nat
  BY ProbeAssumption DEF Inv, TypeOK, Width
<1>o. low' \in Nat /\ high' \in Nat /\ Width' \in Nat
  <2>1. upper' \in Nat /\ low' \in 0 .. upper' + 1 /\ high' \in 0 .. upper'
    BY ProbeAssumption DEF Inv, TypeOK
  <2>2. low' \in Nat /\ high' \in Nat
    BY <2>1
  <2>3. (IF low' <= high' THEN high' + 1 - low' ELSE 0) \in Nat
    BY <2>2, WidthCounts
  <2> QED
    BY <2>2, <2>3 DEF Width
<1>p. Owed \in Nat /\ Owed' \in Nat
  BY <1>n, <1>o DEF Owed, Inv, TypeOK
<1>1. CASE Narrow
  <2>1. low <= high /\ pc = "narrow" /\ Owed = 4 * Width + 1
    BY <1>1 DEF Narrow, Inv, Probing, Owed
  <2>2. 1 <= Mid /\ Width = high + 1 - low /\ Width >= 1
    BY <1>1, <1>n, <2>1 DEF Narrow, Width, Inv, Probing
  <2>3. CASE pc' = "done"
    <3>1. low' = low /\ high' = high
      BY <1>1, <2>3 DEF Narrow
    <3>2. Width' = Width /\ Owed' = 0
      BY <2>3, <3>1 DEF Width, Owed
    <3> QED
      BY <2>1, <2>3, <3>2, <1>n, <1>p DEF Halves, Shrinks
  <2>4. CASE pc' = "loop"
    <3>1. \/ low' = Mid + 1 /\ high' = high
          \/ low' = low /\ high' = Mid - 1
      BY <1>1, <2>4 DEF Narrow, Raised
    <3>2. 2 * Width' <= Width
      BY <1>m, <1>n, <2>2, <3>1 DEF Width
    <3>3. Owed' = 4 * Width' + 4
      BY <2>4 DEF Owed
    <3>4. Width' < Width /\ Owed' < Owed
      BY <2>1, <2>2, <3>2, <3>3, <1>n, <1>o, HalfCounts
    <3> QED
      <4>1. Width' <= Width /\ Owed' <= Owed
        BY <3>4, <1>n, <1>o, <1>p
      <4> QED
        BY <3>2, <3>4, <4>1, <1>p DEF Halves, Shrinks
  <2> QED
    BY <1>1, <2>3, <2>4 DEF Narrow
<1>2. CASE Release \/ Loop \/ Open \/ Measure
  <2>1. pc # "narrow" /\ low' = low /\ high' = high
    BY <1>2 DEF Release, Loop, Open, Measure, search
  <2>2. Width' = Width
    BY <2>1 DEF Width
  <2>3. Owed' < Owed
    <3>1. \/ pc = "refused" /\ pc' = "loop"
          \/ pc = "loop" /\ pc' \in {"open", "done"}
          \/ pc = "open" /\ pc' \in {"measure", "narrow"}
          \/ pc = "measure" /\ pc' = "narrow"
      BY <1>2 DEF Release, Loop, Open, Measure
    <3> QED
      BY <1>n, <2>2, <3>1 DEF Owed
  <2> QED
    BY <2>1, <2>2, <2>3, <1>p, <1>n DEF Halves, Shrinks, Narrow
<1>3. CASE Change \/ UNCHANGED vars
  <2>1. pc' = pc /\ low' = low /\ high' = high
    BY <1>3 DEF Change, vars, search
  <2>2. Width' = Width /\ Owed' = Owed
    BY <2>1 DEF Width, Owed
  <2>3. ~Step
    <3>1. Release \/ Loop \/ Open \/ Measure \/ Narrow => pc' # pc
      BY DEF Release, Loop, Open, Measure, Narrow
    <3> QED
      BY <2>1, <3>1 DEF Step
  <2> QED
    BY <2>2, <2>3, <1>p, <1>n DEF Halves, Shrinks, Step
<1> QED
  BY <1>1, <1>2, <1>3 DEF Next, Step

\* The probes of probe_largest_contiguous are logarithmic in the request: each one
\* at least halves what is left to decide, however the space changes and whatever
\* fails.
THEOREM ProbeHalves == Spec => [][Halves]_vars
<1>1. Inv /\ Inv' /\ [Next]_vars => [Halves]_vars
  BY StepShrinks
<1> QED
  BY InitInv, NextInv, <1>1, PTL DEF Spec

\* The search owes a number of steps that every step of it lowers and no other
\* program raises, so no behaviour has infinitely many of them: with the fairness
\* of FairSpec, this is why Ends holds.
THEOREM ProbeIsBounded == Spec => [][Shrinks]_vars
<1>1. Inv /\ Inv' /\ [Next]_vars => [Shrinks]_vars
  BY StepShrinks
<1> QED
  BY InitInv, NextInv, <1>1, PTL DEF Spec
=============================================================================
