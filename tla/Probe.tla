------------------------------- MODULE Probe --------------------------------
(***************************************************************************)
(* What iodd create does when the space it got is in pieces: it gives the  *)
(* space back, then measures the largest contiguous allocation on offer by *)
(* binary search (create.rs report_refusal; alloc.rs                       *)
(* probe_largest_contiguous and fits_contiguously).  Each probe is a file  *)
(* that is created, mapped and removed.                                    *)
(*                                                                         *)
(* Sizes are in units of the granularity: the code keeps low, high and mid *)
(* multiples of it.  A request is taken to fit whenever it is no longer    *)
(* than the largest free run.                                              *)
(***************************************************************************)
EXTENDS Naturals

CONSTANTS
  Sizes,       \* sizes considered, in units
  MaxChanges   \* times other programs change the free space

ASSUME ProbeAssumption == Sizes \subseteq Nat /\ MaxChanges \in Nat

VARIABLES
  pc, upper,
  keep,        \* --keep-on-fail: the refused file stays
  held,        \* does the refused file still hold its space?
  room,        \* the largest free run once nothing of ours is held ...
  short,       \* ... and while the refused file is
  low, high, best, fits,
  probe,       \* does the probe file exist?
  stuck,       \* ... because the last unlink of it failed?
  spoiled,     \* has a probe failed, or the space changed, while probing?
  changes, peak   \* history: changes so far, the largest run on offer so far

search == <<low, high, best, fits>>
space  == <<room, short, changes, peak>>
file   == <<probe, stuck>>
vars   == <<pc, upper, keep, held, search, file, spoiled, space>>

Grant == IF held THEN short ELSE room

Smaller(a, b) == IF a <= b THEN a ELSE b
Larger(a, b)  == IF a <= b THEN b ELSE a

Mid == (low + high) \div 2

-----------------------------------------------------------------------------
\* Mutant: the figure is measured before the reservation is dropped.
StillHeldAlways == TRUE

StillHeld == keep

\* drop(target): only then is the space it held on offer again.
Release ==
  /\ pc = "refused"
  /\ held' = StillHeld
  /\ pc' = "loop"
  /\ UNCHANGED <<upper, keep, search, file, spoiled, room, short, changes>>
  /\ peak' = Grant'

Loop ==
  /\ pc = "loop"
  /\ pc' = IF low <= high /\ high >= 1 /\ Mid >= 1 THEN "open" ELSE "done"
  /\ UNCHANGED <<upper, keep, held, search, file, spoiled, space>>

\* A stale probe file is removed first, then one is created with O_EXCL.  That
\* the unlink fails is ignored, and O_EXCL refuses what is still there.
Open ==
  /\ pc = "open"
  /\ \/ /\ probe' = TRUE /\ stuck' = FALSE
        /\ pc' = "measure"
        /\ UNCHANGED <<fits, spoiled>>
     \/ /\ probe' \in {FALSE, probe} /\ stuck' = probe'
        /\ pc' = "narrow"
        /\ fits' = FALSE
        /\ spoiled' = TRUE
  /\ UNCHANGED <<upper, keep, held, low, high, best, space>>

\* Mutant: fallocate succeeded, so it fits.
FitsAnyway == TRUE

Fits == Mid <= Grant

\* Mutant: an early return for what does not fit.
RemoveIfFits == probe' = ~fits' /\ UNCHANGED stuck

\* The probe file goes, unless its unlink fails, which is ignored.
Remove == probe' \in BOOLEAN /\ stuck' = probe'

\* fallocate and FIEMAP; no fallocate, or no map, counts as not fitting.
Measure ==
  /\ pc = "measure"
  /\ pc' = "narrow"
  /\ \/ Fits /\ fits' = TRUE /\ UNCHANGED spoiled
     \/ ~Fits /\ fits' = FALSE /\ UNCHANGED spoiled
     \/ fits' = FALSE /\ spoiled' = TRUE
  /\ Remove
  /\ UNCHANGED <<upper, keep, held, low, high, best, space>>

\* Mutants: the lower bound moves too far, or not past the middle.
RaisedTwice == Mid + 2
NotRaised   == Mid

Raised == Mid + 1

\* The search narrows.
Narrow ==
  /\ pc = "narrow"
  /\ \/ /\ fits
        /\ best' = Mid
        /\ low' = Raised
        /\ pc' = "loop"
        /\ UNCHANGED high
     \/ /\ ~fits
        /\ Mid >= 2
        /\ high' = Mid - 1
        /\ pc' = "loop"
        /\ UNCHANGED <<low, best>>
     \/ /\ ~fits
        /\ Mid < 2
        /\ pc' = "done"
        /\ UNCHANGED <<low, high, best>>
  /\ UNCHANGED <<upper, keep, held, fits, file, spoiled, space>>

\* Other programs take or free space.
Change ==
  /\ changes < MaxChanges
  /\ changes' = changes + 1
  /\ room' \in Sizes
  /\ short' \in {s \in Sizes : s <= room'}
  /\ spoiled' = (spoiled \/ pc # "refused")
  /\ UNCHANGED <<pc, upper, keep, held, search, file>>
  /\ peak' = Larger(peak, Grant')

Init ==
  /\ pc = "refused"
  /\ upper \in Sizes
  /\ keep \in BOOLEAN
  /\ held = TRUE
  /\ room \in Sizes
  /\ short \in {s \in Sizes : s <= room}
  /\ low = 0 /\ high = upper
  /\ best = 0                     \* None: nothing measured fits
  /\ fits = FALSE
  /\ probe \in BOOLEAN            \* left by a killed run with the same pid
  /\ stuck = FALSE
  /\ spoiled = FALSE
  /\ changes = 0
  /\ peak = short

Step == Release \/ Loop \/ Open \/ Measure \/ Narrow

Next == Step \/ Change

Spec == Init /\ [][Next]_vars

\* The search is one sequential loop; the other programs owe nothing.
FairSpec == Spec /\ WF_vars(Step)

-----------------------------------------------------------------------------
\* The types of the variables: the bounds of the search stay within the request.
TypeOK ==
  /\ pc \in {"refused", "loop", "open", "measure", "narrow", "done"}
  /\ upper \in Sizes /\ room \in Sizes /\ short \in Sizes
  /\ keep \in BOOLEAN /\ held \in BOOLEAN /\ fits \in BOOLEAN
  /\ probe \in BOOLEAN /\ stuck \in BOOLEAN /\ spoiled \in BOOLEAN
  /\ low \in 0 .. upper + 1 /\ high \in 0 .. upper /\ best \in 0 .. upper
  /\ peak \in Nat /\ changes \in Nat

\* The answer of an undisturbed search: the largest run on offer, the space of
\* the refused file included once that is given back, and never more than was
\* asked for.  The one exception is a run of exactly one unit.
Largest == Smaller(upper, IF keep THEN short ELSE room)

Exact == pc = "done" /\ ~spoiled => best = Largest \/ (Largest = 1 /\ best = 0)

\* Even while others take and free space, a figure is never made up: a run that
\* long was on offer at some time during the search, and was asked for.
NeverOverstates == best <= upper /\ best <= peak

\* The probe file is gone when the figure is printed, also one that an earlier
\* run left behind, once a single probe was made, and also if an unlink failed
\* on the way, as long as the last one did not.
NoProbeLeft ==
  pc = "done" /\ probe => upper <= 1 \/ stuck

\* The search ends, however the space changes meanwhile.
Ends == <>(pc = "done")
=============================================================================
