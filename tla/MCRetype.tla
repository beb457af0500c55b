------------------------------ MODULE MCRetype ------------------------------
(***************************************************************************)
(* What may go wrong in the runs of Retype.                                *)
(***************************************************************************)
EXTENDS Retype

\* Nothing, or everything that may come together.
Any == {{}, FaultKinds \ {"overlap"}, FaultKinds \ {"intruder"}}

\* System calls that fail.
Failing == {{"fail"}}
=============================================================================
