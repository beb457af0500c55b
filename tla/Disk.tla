-------------------------------- MODULE Disk --------------------------------
(***************************************************************************)
(* The life of a virtual disk through whole commands: create, convert and  *)
(* retype one after another, a guest that writes to all it is shown, and   *)
(* other programs that damage the footer.  Each command decides for itself *)
(* whether the file ends in a footer, has one, or loses one.               *)
(*                                                                         *)
(* The device shows a .rmd whole, and a .vhd without its last sector.      *)
(* What happens inside a command is the subject of Builder and Retype;     *)
(* here only commands that succeed matter.                                 *)
(***************************************************************************)
EXTENDS Footer

CONSTANTS
  Requests,      \* sizes a command line may ask for
  Finds,         \* files that come from elsewhere
  MaxCommands    \* commands in a row

Exts == {"vhd", "rmd"}

\* foot: what of the end of the file are footers, the last one at the very end.
\* kind: a disk image, a container, or a container that was cut.
FileType == [ext : Exts, kind : {"image", "container", "cut"}, len : Nat,
             foot : Seq(FooterType)]

ASSUME DiskAssumption ==
  /\ Finds \subseteq FileType /\ MaxCommands \in Nat
  /\ \A f \in Finds : Len(f.foot) <= 1 /\ Len(f.foot) * Sector <= f.len
  /\ Requests \subseteq [value : Nat, unit : Nat]

VARIABLES
  file,       \* the disk, in its latest file
  disk,       \* how much of it holds data of the guest
  sound,      \* is it as create or convert left it?
  forced,     \* history: a command was told to hide data
  misread,    \* history: an end of the source could not be read
  commands    \* commands so far

vars == <<file, disk, sound, forced, misread, commands>>

\* What the device shows.
Visible(f) ==
  IF f.ext = "rmd" THEN f.len ELSE IF f.len < Sector THEN 0 ELSE f.len - Sector

NoFile == [ext |-> "vhd", kind |-> "image", len |-> 0, foot |-> <<>>]

-----------------------------------------------------------------------------
\* iodd create: a new disk, and a footer unless it is a .rmd.
Create(ext, size) ==
  LET len == Bytes(size)
  IN  /\ ~Overflows(size)
      /\ Aligned(len)
      /\ IF ext = "rmd"
           THEN file' = [ext |-> ext, kind |-> "image", len |-> len, foot |-> <<>>]
           ELSE /\ HasRoom(len)
                /\ file' = [ext |-> ext, kind |-> "image", len |-> WithFooter(len),
                            foot |-> <<New(len)>>]
      /\ disk' = 0
      /\ sound' = TRUE /\ forced' = FALSE /\ misread' = FALSE

\* What convert takes the file for; an end it cannot read is full of zeros.
KindRead(head, tail) ==
  Classify(file.kind # "image" /\ head, file.len, IF tail THEN file.foot ELSE <<>>)

\* The length of the disk in the file.
Source(kind) ==
  CASE kind = "FixedVhd"  -> file.len - Sector
    [] kind = "Container" -> disk
    [] OTHER              -> file.len

\* copy_verbatim: the file as it is, under its new name.
Verbatim(ext) ==
  /\ file' = [file EXCEPT !.ext = ext]
  /\ sound' = sound

\* A raw copy takes along what it does not know for a footer, where it was.
Copied(kind, len) ==
  IF kind = "Raw" /\ len = file.len THEN file.foot ELSE <<>>

\* A new file, and always a new footer.  A container that was taken for raw
\* data still is one.
Rebuild(ext, kind, len) ==
  /\ Source(kind) # 0
  /\ len >= Source(kind)
  /\ Aligned(len)
  /\ HasRoom(len)
  /\ file' = [ext |-> ext, len |-> WithFooter(len),
              kind |-> IF kind = "Container" THEN "image" ELSE file.kind,
              foot |-> Append(Copied(kind, len), New(len))]
  /\ sound' = TRUE

\* iodd convert, without --size and with it; can the ends be read?
Convert(ext, head, tail) ==
  LET kind == KindRead(head, tail)
  IN  /\ kind = "Container" => file.kind = "container"
      /\ \/ kind = "FixedVhd" /\ Verbatim(ext)
         \/ kind # "FixedVhd" /\ Rebuild(ext, kind, Source(kind))
         \/ \E size \in Requests :
              /\ ~Overflows(size)
              /\ IF kind = "FixedVhd" /\ Bytes(size) = Source(kind)
                   THEN Verbatim(ext)
                   ELSE Rebuild(ext, kind, Bytes(size))
      /\ misread' = (misread \/ ~head \/ ~tail)
      /\ UNCHANGED <<disk, forced>>

\* retype hides data only when it is told to.
NeedsForce(to) == to = "vhd"

\* iodd retype: a .vhd loses its last sector, whatever is in it; a .rmd its name.
Retype(to, force) ==
  /\ file.ext # to
  /\ NeedsForce(to) => force
  /\ IF to = "rmd"
       THEN /\ file.len >= Sector
            /\ file' = [ext |-> to, len |-> file.len - Sector,
                        kind |-> IF file.kind = "container" THEN "cut" ELSE file.kind,
                        foot |-> IF file.foot = <<>> THEN <<>>
                                 ELSE SubSeq(file.foot, 1, Len(file.foot) - 1)]
       ELSE file' = [file EXCEPT !.ext = to]
  /\ forced' = (forced \/ (to = "vhd" /\ force))
  /\ sound' = FALSE
  /\ UNCHANGED <<disk, misread>>

Command ==
  /\ commands < MaxCommands
  /\ commands' = commands + 1
  /\ \/ \E ext \in Exts, size \in Requests : Create(ext, size)
     \/ \E ext \in Exts, head, tail \in BOOLEAN : Convert(ext, head, tail)
     \/ \E to \in Exts, force \in BOOLEAN : Retype(to, force)

-----------------------------------------------------------------------------
\* The guest writes to all it sees, also to a footer it sees. What was hidden
\* before is of no account any more.
GuestWrites ==
  /\ file.kind = "image"
  /\ disk' = Visible(file)
  /\ file' = [file EXCEPT !.foot =
       IF file.ext = "rmd" \/ @ = <<>> THEN <<>> ELSE <<@[Len(@)]>>]
  /\ forced' = FALSE
  /\ UNCHANGED <<sound, misread, commands>>

\* What may become of a footer; a changed field no longer fits the checksum.
Damaged(f) ==
  {[f EXCEPT !.cookie = FALSE],
   [f EXCEPT !.current = @ + 1, !.wrong = @ \cup {"BadChecksum"}],
   [f EXCEPT !.wrong = @ \cup {"NotFixed", "BadChecksum"}]}

\* Damage strikes a footer that is whole (a bound: once for each footer).
Damage ==
  /\ file.foot # <<>>
  /\ file.foot[Len(file.foot)].cookie /\ file.foot[Len(file.foot)].wrong = {}
  /\ \E f \in Damaged(file.foot[Len(file.foot)]) :
       file' = [file EXCEPT !.foot[Len(file.foot)] = f]
  /\ sound' = FALSE
  /\ UNCHANGED <<disk, forced, misread, commands>>

Sizes == {Bytes(size) : size \in {s \in Requests : ~Overflows(s)}}

\* A disk that comes from elsewhere, or one to be created.
Init ==
  /\ file \in Finds \cup {NoFile}
  /\ disk \in IF file.kind # "image" THEN Sizes
              ELSE {IF file.foot = <<>> THEN Visible(file) ELSE file.len - Sector}
  /\ sound = FALSE /\ forced = FALSE /\ misread = FALSE
  /\ commands = 0

Next == Command \/ GuestWrites \/ Damage

Spec == Init /\ [][Next]_vars

-----------------------------------------------------------------------------
\* No chain of commands takes from the guest what it has written, unless one
\* of them was told to: whatever each of them takes for a footer, it was not
\* the guest's data.
NothingLost == file.kind = "image" /\ ~forced => Visible(file) >= disk

\* A footer never becomes data under a second footer, not even a damaged one
\* (the growth that source.rs describes), provided both ends could be read; and
\* the footer of a .vhd that these commands made, and nobody damaged, is without
\* fault and describes the disk that is shown.
FooterTells ==
  ~misread =>
    /\ \A i \in 1 .. Len(file.foot) - 1 : ~file.foot[i].cookie
    /\ sound /\ file.ext = "vhd" =>
         /\ file.foot # <<>>
         /\ Problems(file.foot[Len(file.foot)], Visible(file)) = {}

\* A geometry that other tools accept: its fields have the widths of the format,
\* it names no sector that is not there, and leaves out less than one cylinder.
Fits(g, count) ==
  /\ g.cylinders \in 0 .. MaxCylinders /\ g.heads \in 4 .. 16 /\ g.sectors \in 1 .. 255
  /\ Product(g) <= count
  /\ count <= MaxChs => count - Product(g) < g.heads * g.sectors

\* The footer of a disk that these commands made has such a geometry, whatever
\* its size and however it came about.
GeometryFits ==
  sound /\ file.foot # <<>> =>
    Fits(file.foot[Len(file.foot)].chs, (file.len - Sector) \div Sector)
=============================================================================
