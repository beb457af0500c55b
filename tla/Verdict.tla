------------------------------- MODULE Verdict ------------------------------
(***************************************************************************)
(* How the inspecting commands judge one file: iodd doctor grades it       *)
(* (cmd/doctor.rs grade), iodd verify and ntfs-contig verify exit with a   *)
(* code (cmd/verify.rs, the engine's main.rs).  All three are functions of *)
(* what is read from the file.                                             *)
(***************************************************************************)
EXTENDS Naturals

CONSTANT MaxFragments   \* --iso-max-fragments (24 unless given)

ASSUME FragmentsAssumption == MaxFragments \in Nat

Recognized == {"vhd", "rmd", "vmdk", "iso", "ima"}

\* What a file is: its merged runs, whether fewer bytes are allocated than it
\* is long, what its last 512 bytes hold, and whether its first bytes are those
\* of another container (VHDX, dynamic VHD, genuine VMDK).
Facts ==
  {f \in [ext : Recognized \cup {"txt"}, empty : BOOLEAN, sparse : BOOLEAN,
          runs : 0 .. MaxFragments + 1, unwritten : BOOLEAN,
          footer : {"valid", "broken", "absent"}, container : BOOLEAN] :
     /\ f.empty => ~f.sparse /\ f.runs = 0 /\ f.footer = "absent" /\ ~f.container
     /\ f.runs = 0 => ~f.unwritten}

IsFailure(v) == v \in {"WillNotMount", "WillNotMountMaybeUnlisted"}

Soft(warn) == IF warn THEN "Warn" ELSE "Mountable"

-----------------------------------------------------------------------------
GradeIso(f) == IF f.runs > MaxFragments THEN "WillNotMount" ELSE "Mountable"

RawGate(f) == f.sparse \/ (f.ext = "rmd" /\ f.runs > 1)

\* .rmd and .ima are shown whole: a footer is out of place.
GradeRaw(f) ==
  IF RawGate(f) THEN "WillNotMount"
  ELSE Soft(f.runs > 1 \/ f.footer # "absent" \/ f.unwritten)

\* Mutant: only fragmentation counts.
DiskGateRuns(f) == f.runs > 1

\* The two hard gates.
DiskGate(f) == f.sparse \/ f.runs > 1

GradeVhdFamily(f) ==
  IF DiskGate(f)
  THEN IF f.container THEN "WillNotMountMaybeUnlisted" ELSE "WillNotMount"
  ELSE Soft(f.container \/ f.footer # "valid" \/ f.unwritten)

Grade(f) ==
  CASE f.ext = "iso"            -> GradeIso(f)
    [] f.ext \in {"ima", "rmd"} -> GradeRaw(f)
    [] OTHER                    -> GradeVhdFamily(f)

-----------------------------------------------------------------------------
\* Mutant: uninitialized extents are no finding.
FindingsOfFooter(f) == f.footer # "valid"

\* What verify reports without failing, and --strict fails on.
Findings(f) == f.footer # "valid" \/ f.unwritten

\* The exit code of verify: the gates in the order of the code.
VerifyCode(f, strict) ==
  CASE f.sparse                         -> 5
    [] ~f.sparse /\ ~f.empty /\ f.runs = 0 -> 8
    [] ~f.sparse /\ (f.empty \/ f.runs > 1) -> 4
    [] OTHER -> IF strict /\ Findings(f) THEN 7 ELSE 0

\* Mutant: contiguity before allocation.
EngineCodeRunsFirst(f) ==
  CASE ~f.empty /\ f.runs # 1   -> 4
    [] f.sparse \/ f.unwritten -> 5
    [] OTHER                   -> 0

\* The exit code of the engine's own verify.
EngineCode(f) ==
  CASE f.sparse \/ f.unwritten -> 5
    [] ~(f.sparse \/ f.unwritten) /\ ~f.empty /\ f.runs # 1 -> 4
    [] OTHER -> 0
=============================================================================
