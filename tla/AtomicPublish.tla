---------------------------- MODULE AtomicPublish ----------------------------
(***************************************************************************)
(* What TempTarget promises, with no temporary file in sight: a target     *)
(* path shows a file of some other program, nothing, or the whole file of  *)
(* one run.  It changes in one step, at most once per run, only to a run   *)
(* that is ready, and a power loss takes every path back to what was       *)
(* committed.                                                              *)
(***************************************************************************)
CONSTANTS Targets, Runs, User, NoFile, NoReplace

VARIABLES
  shown,       \* what each path shows
  kept,        \* what each path shows after a power loss
  ready,       \* runs whose file is complete and not yet installed
  privileged   \* runs that may replace a file

vars == <<shown, kept, ready, privileged>>

Init ==
  /\ shown \in [Targets -> {User, NoFile}]
  /\ kept = shown
  /\ ready = {}
  /\ privileged \in SUBSET Runs

Finish(r) ==
  /\ r \notin ready
  /\ ready' = ready \cup {r}
  /\ UNCHANGED <<shown, kept, privileged>>

Install(r, t) ==
  /\ r \in ready
  /\ shown[t] = NoFile \/ r \in privileged \/ ~NoReplace
  /\ shown' = [shown EXCEPT ![t] = r]
  /\ ready' = ready \ {r}
  /\ UNCHANGED <<kept, privileged>>

GiveUp(r) ==
  /\ ready' = ready \ {r}
  /\ UNCHANGED <<shown, kept, privileged>>

Appear(t) ==
  /\ shown[t] = NoFile
  /\ shown' = [shown EXCEPT ![t] = User]
  /\ UNCHANGED <<kept, ready, privileged>>

Commit ==
  /\ kept' = shown
  /\ UNCHANGED <<shown, ready, privileged>>

Crash ==
  /\ shown' = kept
  /\ ready' = {}
  /\ UNCHANGED <<kept, privileged>>

Next ==
  \/ \E r \in Runs : Finish(r) \/ GiveUp(r) \/ \E t \in Targets : Install(r, t)
  \/ \E t \in Targets : Appear(t)
  \/ Commit
  \/ Crash

Spec == Init /\ [][Next]_vars
=============================================================================
