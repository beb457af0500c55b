------------------------------ MODULE MCDoctor ------------------------------
(***************************************************************************)
(* The files that doctor meets.                                            *)
(***************************************************************************)
EXTENDS Doctor, TLC

Image == [ext |-> "vhd", empty |-> FALSE, sparse |-> FALSE, runs |-> 1,
          unwritten |-> FALSE, footer |-> "valid", container |-> FALSE]

\* A file for every reason of every verdict, and one that is no image.
EveryVerdict ==
  {Image, [Image EXCEPT !.footer = "broken"], [Image EXCEPT !.unwritten = TRUE],
   [Image EXCEPT !.sparse = TRUE], [Image EXCEPT !.runs = 2],
   [Image EXCEPT !.runs = 2, !.container = TRUE],
   [Image EXCEPT !.ext = "rmd", !.runs = 2, !.sparse = TRUE],
   [Image EXCEPT !.ext = "iso", !.runs = 2], [Image EXCEPT !.ext = "txt"]}

Symmetry == Permutations(Files)
=============================================================================
