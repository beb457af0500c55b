------------------------------- MODULE MCDisk -------------------------------
(***************************************************************************)
(* Sizes and found files for the run of Disk.                              *)
(***************************************************************************)
EXTENDS Disk

\* The geometries that the unit tests of footer.rs record: the first escalation
\* at equality, the cap, and sizes of which CHS leaves something out.
ASSUME GoldenGeometries ==
  /\ Chs(208896) = [cylinders |-> 421, heads |-> 16, sectors |-> 31]
  /\ Chs(419430400) = [cylinders |-> 65535, heads |-> 16, sectors |-> 255]
  /\ Product(Chs(204800)) = 204612
  /\ Chs(1).heads = 4 /\ Chs(1).sectors = 17 /\ Chs(0).cylinders = 0

\* Counts of sectors around every branch of the geometry.
Counts ==
  {1, 17 * 4096 - 1, 17 * 4096, 17 * 12288, 17 * 16384 - 1, 17 * 16384 + 16,
   31 * 16384, Threshold - 1, Threshold, MaxChs, MaxChs + 1}

\* In whole sectors, in units that make none, nothing, the largest disk that
\* leaves no room for a footer, and too much.
AllRequests ==
  {[value |-> n, unit |-> Sector] : n \in Counts}
  \cup {[value |-> 0, unit |-> 1], [value |-> 3, unit |-> 1], [value |-> 2, unit |-> 1],
        [value |-> Limit \div 2, unit |-> 2], [value |-> Limit, unit |-> 1], [value |-> Limit, unit |-> 2]}

Plain(ext, len) == [ext |-> ext, kind |-> "image", len |-> len, foot |-> <<>>]

\* Raw images, also of odd length or less than a sector, containers, and fixed
\* VHDs, also one that was extended behind its footer's back.
AllFinds ==
  {Plain(e, n) : e \in Exts, n \in {0, 1, 5, 34}}
  \cup {[Plain("vhd", 6) EXCEPT !.kind = "container"]}
  \cup {[Plain(e, n + Sector) EXCEPT !.foot = <<New(m)>>] :
          e \in Exts, n \in {0, 3, 34}, m \in {0, 34}}
=============================================================================
