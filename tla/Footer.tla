------------------------------- MODULE Footer -------------------------------
(***************************************************************************)
(* The fixed-VHD footer (footer.rs), what a source file is taken for       *)
(* (source.rs) and the sizes of the command line (size.rs), as functions.  *)
(* Lengths are counted in half sectors: what matters of a length is        *)
(* whether it is a whole number of sectors.                                *)
(***************************************************************************)
EXTENDS Integers, Sequences

CONSTANT Limit   \* the largest length that fits (2^64 - 1 bytes)

ASSUME LimitAssumption == Limit \in Nat

Sector == 2      \* 512 bytes, also the length of a footer

-----------------------------------------------------------------------------
\* A size of the command line: a number and the multiplier of its unit.
Overflows(size) == size.value > Limit \/ size.value * size.unit > Limit

Bytes(size) == size.value * size.unit

\* require_512_aligned.
Aligned(len) == len # 0 /\ len % Sector = 0

\* Mutant: the sum with the footer is not checked.
HasRoomAlways(len) == TRUE

\* checked_add(512): does the sum with the footer fit?
HasRoom(len) == len + Sector <= Limit

\* The sum in 64 bits: without that check it would wrap.
WithFooter(len) == (len + Sector) % (Limit + 1)

-----------------------------------------------------------------------------
MaxCylinders == 65535   \* 16 bits

MaxChs    == 65535 * 16 * 255
Threshold == 65535 * 16 * 63

Least(a, b)    == IF a <= b THEN a ELSE b
Greatest(a, b) == IF a >= b THEN a ELSE b
DivCeil(a, b)  == (a + b - 1) \div b

\* The heads that 17 sectors per track call for.
HeadsFor(tracks) == Greatest(DivCeil(tracks, 1024), 4)

\* Mutant: more than 16 heads are no reason to go on.
TooManyUnlimited(tracks) == tracks >= HeadsFor(tracks) * 1024

\* Are 17 sectors per track too few?
TooMany(tracks) == tracks >= HeadsFor(tracks) * 1024 \/ HeadsFor(tracks) > 16

Geometry(total, heads, spt) ==
  [cylinders |-> Least((total \div spt) \div heads, MaxCylinders),
   heads |-> heads, sectors |-> spt]

\* Sectors per track beyond that.
SectorsFor(total) == IF total \div 31 >= 16 * 1024 THEN 63 ELSE 31

\* The geometry of a disk of so many sectors.
Chs(count) ==
  LET total == Least(count, MaxChs)
  IN  IF total >= Threshold THEN Geometry(total, 16, 255)
      ELSE IF ~TooMany(total \div 17)
             THEN Geometry(total, HeadsFor(total \div 17), 17)
             ELSE Geometry(total, 16, SectorsFor(total))

Product(g) == g.cylinders * g.heads * g.sectors

-----------------------------------------------------------------------------
\* The fields a reader judges by their value alone.
Fields == {"UnexpectedFeatures", "UnexpectedFormatVersion", "DataOffsetNotFixed",
           "NotFixed", "BadChecksum"}

FooterType ==
  [cookie : BOOLEAN, wrong : SUBSET Fields, original : Nat, current : Nat,
   chs : [cylinders : Nat, heads : Nat, sectors : Nat]]

\* Mutant: the length of the file in the size fields.
NewOfFile(len) ==
  [cookie |-> TRUE, wrong |-> {}, original |-> len + Sector,
   current |-> len + Sector, chs |-> Chs(len \div Sector)]

\* Footer::new, as it is written.
New(len) ==
  [cookie |-> TRUE, wrong |-> {}, original |-> len, current |-> len,
   chs |-> Chs(len \div Sector)]

\* parse, of a footer expected to describe so long a disk.
Problems(f, expected) ==
  IF ~f.cookie THEN {"BadCookie"}
  ELSE f.wrong
       \cup {p \in {"SizeFieldsDisagree"} : f.original # f.current}
       \cup {p \in {"SizeDisagreesWithFile"} : f.current # expected}
       \cup {p \in {"VirtualSizeNotAligned"} : f.current % Sector # 0}

\* Mutant: the head alone decides (how the footer once became guest data).
ClassifyHead(container, len, foot) == IF container THEN "Container" ELSE "Raw"

\* classify: the head for a container, then the tail for the cookie of a footer.
Classify(container, len, foot) ==
  CASE container -> "Container"
    [] ~container /\ len >= Sector /\ foot # <<>> /\ foot[Len(foot)].cookie -> "FixedVhd"
    [] OTHER -> "Raw"
=============================================================================
