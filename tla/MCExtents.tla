----------------------------- MODULE MCExtents ------------------------------
(***************************************************************************)
(* The records from which a driver that is not honest makes its answers,   *)
(* in any order and as often as it likes: two blocks at either of two      *)
(* places and addresses, an empty record, one that overlaps them, one past *)
(* the end of the file, and one whose address is not to be trusted.        *)
(***************************************************************************)
EXTENDS Extents

Stray == [logical |-> 0, physical |-> 0, length |-> 1, flag |-> "data"]

AnyRecord ==
  {[Stray EXCEPT !.logical = l, !.physical = p] : l, p \in 0 .. 1}
  \cup {[Stray EXCEPT !.length = 0],
        [Stray EXCEPT !.length = 2],
        [Stray EXCEPT !.logical = 2, !.physical = 2],
        [Stray EXCEPT !.flag = "unknown"]}
=============================================================================
