------------------------------- MODULE Volume -------------------------------
(***************************************************************************)
(* crates/ntfs-contig/src/volume.rs, and the commands that ask it: is the  *)
(* dirty flag of an NTFS volume set?  The answer is in one record, $Volume,*)
(* which spans several sectors and is read straight off the device while   *)
(* the driver that has the volume mounted rewrites it.                     *)
(*                                                                         *)
(* Every write of the record is a generation.  The driver stamps the end   *)
(* of each sector with the generation's number (modulo Usns) and keeps the *)
(* bytes it displaced in the first sector; a record whose sectors come of  *)
(* different generations is torn.  The record is measured in cells, the    *)
(* last of each sector being the one under the stamp.                      *)
(***************************************************************************)
EXTENDS Integers

CONSTANTS
  Sectors,     \* sectors of the record on the device
  Cells,       \* cells of a sector
  Usns,        \* update sequence numbers (65535 on a real volume)
  MaxWrites,   \* writes of the record considered
  Targets,     \* devices the command line names, all of them this one
  Volumes      \* volumes considered: boot sector, layout of the record, age

ASSUME VolumeAssumption ==
  /\ Sectors \in Nat \ {0} /\ Cells \in Nat \ {0} /\ Usns \in Nat \ {0}
  /\ MaxWrites \in Nat /\ Targets \in Nat \ {0}

Gens    == 1 .. MaxWrites + 1
Sector  == 1 .. Sectors
Offset  == 0 .. Sectors * Cells - 1
Header  == [type : {"info", "name", "other", "end", "cut"}, length : Nat,
            resident : BOOLEAN, inside : BOOLEAN, short : BOOLEAN]

\* The fields of a boot sector; far: the offset of the record takes over 64 bits.
BootType == [ntfs : BOOLEAN, sector : Nat, cluster : 0 .. 255,
             record : 0 .. 255, far : BOOLEAN]

\* The header of the record, and the attribute found at each offset of it.
ShapeType == [file : BOOLEAN, count : 0 .. Sectors + 1, usa : BOOLEAN, first : Nat,
              used : Nat, attr : [Offset -> Header]]

ASSUME InputAssumption ==
  Volumes \subseteq [boot : BootType, shape : ShapeType, age : Gens]

VARIABLES
  boot, shape, report,   \* the volume, and --report-only
  latest, says,          \* the last generation; is the flag set in each?
  medium,                \* the generation in each sector
  pending,               \* sectors the driver has yet to write
  plugged,               \* is the device on the bus?
  pc, turn,              \* the reader: its step, and how many targets are done
  alive,                 \* its file descriptor still reaches the device
  copy,                  \* what it read: a generation, or 0
  off, info,             \* the walk over the attributes
  answer,                \* of the last read
  worst, exit,           \* exit is 255 while the command runs
  seen,                  \* history: generations that were whole during this read
  cleared, soiled,       \* history: reads during which a whole record was clean, dirty
  mixed                  \* history: a read met sectors Usns or more writes apart

given  == <<boot, shape, report>>
device == <<latest, says, medium, pending, plugged>>
reader == <<pc, turn, copy, off, info, answer, worst, exit>>
ghost  == <<seen, cleared, soiled, mixed>>
vars   == <<given, device, alive, reader, ghost>>

Running == 255

-----------------------------------------------------------------------------
\* "Clusters per X": a count, or the negative of a binary logarithm.  What is
\* larger than every limit below is as good as what does not fit, and is 0.
SizedField(raw, unit) ==
  LET shift == IF raw = 0 THEN 0 ELSE 256 - raw
  IN  IF raw \in 1 .. 127 THEN unit * raw
      ELSE IF shift <= 21 THEN 2 ^ shift ELSE 0

PowersOfTwo == {2 ^ k : k \in 0 .. 21}

Cluster(b)    == SizedField(b.cluster, b.sector)
RecordSize(b) == SizedField(b.record, Cluster(b))

\* parse_boot_sector, and the offset of the record.
Legible(b) ==
  /\ b.ntfs
  /\ b.sector \in 256 .. 8192 /\ b.sector \in PowersOfTwo
  /\ Cluster(b) \in PowersOfTwo
  /\ RecordSize(b) \in 256 .. 65536 /\ RecordSize(b) \in PowersOfTwo
  /\ ~b.far

\* The sectors of the record, all of which the device has ...
SpanOf(b) == IF Legible(b) THEN RecordSize(b) \div b.sector ELSE 0

ASSUME DeviceAssumption == \A v \in Volumes : SpanOf(v.boot) \in 0 .. Sectors

\* ... those read, and the end of the cells in use.
Span == SpanOf(boot)
Read == {i \in Sector : i <= Span}

End == IF shape.used <= Span * Cells THEN shape.used ELSE Span * Cells

-----------------------------------------------------------------------------
Usn(g) == g % Usns

\* Mutant: the stamps are taken off without being compared.
FixupsWithoutUsn(c) ==
  shape.file /\ shape.usa /\ shape.count # 0
    /\ (shape.count - 1) * boot.sector = RecordSize(boot)

\* The FILE magic and apply_fixups: the array spans the record, and every
\* sector bears the number in the header.
FixupsHold(c) ==
  /\ shape.file
  /\ shape.count # 0
  /\ (shape.count - 1) * boot.sector = RecordSize(boot)
  /\ shape.usa
  /\ \A i \in Read : Usn(c[i]) = Usn(c[1])

\* The flag at offset o, once the displaced bytes are back in place: those of
\* the last cell of a sector come from the first sector.
FlagAt(o) ==
  IF (o + 1) % Cells = 0 THEN says[copy[1]] ELSE says[copy[o \div Cells + 1]]

Wants(h) == h.resident /\ h.type \in {"info", "name"}

\* Mutant: a zero length is taken as it is.
ImplausibleIfLong(h) == h.length > End - off

\* Mutant: a length may lead out of the record.
ImplausibleIfZero(h) == h.length = 0

Implausible(h) == h.length = 0 \/ h.length > End - off

\* Mutant: a value is taken wherever it lies.
MalformedAnywhere(h) == h.type = "cut" \/ Implausible(h)

\* Is the attribute one that ends the read?
Malformed(h) ==
  \/ h.type = "cut"
  \/ Implausible(h)
  \/ Wants(h) /\ (~h.inside \/ (h.type = "info" /\ h.short))

-----------------------------------------------------------------------------
Whole(g, m) == \A i \in Read : m[i] = g

Reading == pc \in {"boot", "record"}

\* The generations that are whole on the medium m.
WholeIn(m) == {g \in Gens : Whole(g, m)}

\* Err(e): the command ends, whatever it found before.
ExitCode(e) == IF e = "Io" THEN 1 ELSE 8

Fail(e) ==
  /\ exit' = ExitCode(e)
  /\ pc' = "done"
  /\ answer' = "none"
  /\ UNCHANGED <<turn, worst>>

\* resolve, and the open of the device.
Open ==
  /\ pc = "open"
  /\ \/ /\ plugged
        /\ pc' = "boot"
        /\ alive' = TRUE
        /\ copy' = [i \in Sector |-> 0]
        /\ answer' = "none"
        /\ seen' = WholeIn(medium)
        /\ UNCHANGED <<turn, worst, exit>>
     \/ /\ \/ Fail("Io")
           \/ Fail("VolumeUnreadable")     \* a path on no block device
        /\ UNCHANGED <<alive, copy, seen>>
  /\ UNCHANGED <<given, device, off, info, cleared, soiled, mixed>>

\* A read of the device fails, as every read does once it has left the bus.
ReadFails ==
  /\ Reading
  /\ Fail("Io")
  /\ UNCHANGED <<given, device, alive, copy, off, info, ghost>>

ReadBoot ==
  /\ pc = "boot"
  /\ alive
  /\ \/ /\ Legible(boot)
        /\ pc' = "record"
        /\ UNCHANGED <<turn, worst, exit, answer>>
     \/ ~Legible(boot) /\ Fail("VolumeUnreadable")
  /\ UNCHANGED <<given, device, alive, copy, off, info, ghost>>

\* One read of the record is many reads of sectors, in any order.
ReadSector(i) ==
  /\ pc = "record"
  /\ alive
  /\ copy[i] = 0
  /\ copy' = [copy EXCEPT ![i] = medium[i]]
  /\ UNCHANGED <<given, device, alive, pc, turn, off, info, answer, worst, exit,
                 ghost>>

ApplyFixups ==
  /\ pc = "record"
  /\ \A i \in Read : copy[i] # 0
  /\ \/ /\ FixupsHold(copy)
        /\ pc' = "walk"
        /\ off' = shape.first
        /\ info' = "none"
        /\ UNCHANGED <<turn, answer, worst, exit>>
     \/ /\ ~FixupsHold(copy)
        /\ Fail("VolumeUnreadable")
        /\ UNCHANGED <<off, info>>
  /\ UNCHANGED <<given, device, alive, copy, ghost>>

\* Mutant: the last target alone decides.
WorseOfLast(dirty) == IF dirty /\ ~report THEN 4 ELSE 0

Worse(dirty) == IF dirty /\ ~report THEN 4 ELSE worst

\* Ok(info): on to the next target, or to the end.
Answer(dirty) ==
  /\ answer' = IF dirty THEN "dirty" ELSE "clean"
  /\ worst' = Worse(dirty)
  /\ turn' = turn + 1
  /\ IF turn + 1 = Targets
       THEN pc' = "done" /\ exit' = Worse(dirty)
       ELSE pc' = "open" /\ exit' = exit
  /\ cleared' = cleared \cup {t \in {turn} : \E g \in seen : ~says[g]}
  /\ soiled' = soiled \cup {t \in {turn} : \E g \in seen : says[g]}
  /\ mixed' = (mixed \/ \E i, j \in Read : copy[i] - copy[j] >= Usns)

\* The walk is over at the end of the record or at its end mark.
AtEnd == off < End => shape.attr[off].type = "end"

\* One turn of the loop of parse_volume_record.
Walk ==
  /\ pc = "walk"
  /\ \/ /\ AtEnd
        /\ \/ /\ info # "none"
              /\ Answer(info = "dirty")
           \/ /\ info = "none"
              /\ Fail("VolumeUnreadable")
              /\ UNCHANGED <<cleared, soiled, mixed>>
        /\ UNCHANGED <<off, info>>
     \/ /\ ~AtEnd
        /\ Malformed(shape.attr[off])
        /\ Fail("VolumeUnreadable")
        /\ UNCHANGED <<off, info, cleared, soiled, mixed>>
     \/ /\ ~AtEnd
        /\ ~Malformed(shape.attr[off])
        /\ LET h == shape.attr[off]
           IN  /\ off' = off + h.length
               /\ info' = IF Wants(h) /\ h.type = "info"
                            THEN IF FlagAt(off) THEN "dirty" ELSE "clean"
                            ELSE info
        /\ UNCHANGED <<pc, turn, answer, worst, exit, cleared, soiled, mixed>>
  /\ UNCHANGED <<given, device, alive, copy, seen>>

Step == \/ Open \/ ReadFails \/ ReadBoot \/ ApplyFixups \/ Walk
        \/ \E i \in Read : ReadSector(i)

-----------------------------------------------------------------------------
\* The driver starts to write the record anew, while the command runs ...
Write ==
  /\ plugged
  /\ pc # "done"
  /\ pending = {}
  /\ latest <= MaxWrites
  /\ latest' = latest + 1
  /\ \E d \in BOOLEAN : says' = [says EXCEPT ![latest + 1] = d]
  /\ pending' = Sector
  /\ UNCHANGED <<given, medium, plugged, alive, reader, ghost>>

\* ... and its sectors reach the medium in any order.
WriteSector(i) ==
  /\ i \in pending
  /\ pending' = pending \ {i}
  /\ medium' = [medium EXCEPT ![i] = latest]
  /\ seen' = seen \cup WholeIn(medium')
  /\ UNCHANGED <<given, latest, says, plugged, alive, reader, cleared, soiled, mixed>>

\* The enclosure drops off the bus, and what was not written never will be.
Unplug ==
  /\ plugged
  /\ pc # "done"
  /\ plugged' = FALSE
  /\ alive' = FALSE
  /\ pending' = {}
  /\ UNCHANGED <<given, latest, says, medium, reader, ghost>>

Replug ==
  /\ ~plugged
  /\ pc # "done"
  /\ plugged' = TRUE
  /\ UNCHANGED <<given, latest, says, medium, pending, alive, reader, ghost>>

\* The record is whole when the command starts: the bus can tear it later, and
\* the command names several targets. Its age is the generation it is in.
Init ==
  /\ \E v \in Volumes : boot = v.boot /\ shape = v.shape /\ latest = v.age
  /\ report \in BOOLEAN
  /\ says \in {[g \in Gens |-> g = latest /\ d] : d \in BOOLEAN}
  /\ medium = [i \in Sector |-> latest]
  /\ pending = {} /\ plugged = TRUE
  /\ pc = "open" /\ turn = 0
  /\ alive = FALSE
  /\ copy = [i \in Sector |-> 0]
  /\ off = 0 /\ info = "none"
  /\ answer = "none"
  /\ worst = 0 /\ exit = Running
  /\ seen = {} /\ cleared = {} /\ soiled = {} /\ mixed = FALSE

Next ==
  \/ Step
  \/ Write
  \/ \E i \in Sector : WriteSector(i)
  \/ Unplug
  \/ Replug

Spec == Init /\ [][Next]_vars

\* The reader is one process whose reads return.
FairSpec == Spec /\ WF_vars(Step)

-----------------------------------------------------------------------------
\* The types of the variables: the walk stays inside the record.
TypeOK ==
  /\ boot \in BootType /\ shape \in ShapeType /\ report \in BOOLEAN
  /\ latest \in Gens /\ says \in [Gens -> BOOLEAN]
  /\ medium \in [Sector -> Gens] /\ pending \subseteq Sector
  /\ plugged \in BOOLEAN /\ alive \in BOOLEAN
  /\ pc \in {"open", "boot", "record", "walk", "done"}
  /\ turn \in 0 .. Targets
  /\ copy \in [Sector -> Gens \cup {0}]
  /\ off \in Nat /\ (info # "none" => off <= End)
  /\ info \in {"none", "clean", "dirty"}
  /\ answer \in {"none", "clean", "dirty"}
  /\ worst \in {0, 4} /\ exit \in {0, 1, 4, 8, Running}
  /\ seen \subseteq Gens /\ cleared \subseteq 0 .. Targets - 1
  /\ soiled \subseteq 0 .. Targets - 1 /\ mixed \in BOOLEAN

\* The sectors read are close enough for their numbers to tell them apart.
Close == \A i, j \in Read : copy[i] - copy[j] < Usns

\* What a read answers was the state of the volume, whole, at some moment of
\* that read: no mixture of two writes is ever taken for either, whether it was
\* torn by the bus or is being overwritten under the reader.
AnswerWasTrue ==
  answer # "none" /\ Close =>
    \E g \in seen : says[g] <=> answer = "dirty"

\* Exit 0 says of every target that it was whole and clean when it was read,
\* and exit 4 of one that it was dirty; a target that cannot be read leaves the
\* question open, with another code.
ExitTells ==
  ~mixed /\ ~report =>
    /\ exit = 0 => cleared = 0 .. Targets - 1
    /\ exit = 4 => soiled # {}

\* A set of attributes that holds the first, and with each the one it leads to.
Closed(P) ==
  /\ shape.first \in P
  /\ \A o \in P :
       LET h == shape.attr[o]
       IN  /\ h.type \notin {"cut", "end"} /\ h.length \in 1 .. End - o
           /\ \/ o + h.length \in P \/ o + h.length >= End
              \/ shape.attr[o + h.length].type = "end"

\* The offsets the walk has to pass, by definition: those and no others.
Path(P) == Closed(P) /\ \A Q \in SUBSET P : Closed(Q) => Q = P

\* What it does not recognize it calls unreadable rather than guessing (the
\* promise at the top of volume.rs): an answer comes of a chain of attributes
\* that is sound to its end, and the resident flag is in that chain.
NeverGuesses ==
  answer # "none" =>
    /\ Legible(boot)
    /\ \E P \in SUBSET Offset :
         Path(P) /\ \E o \in P :
           LET h == shape.attr[o]
           IN  h.type = "info" /\ h.resident /\ h.inside /\ ~h.short

\* The command ends: no record, however corrupt, keeps the walk in one place.
Ends == <>(pc = "done")
=============================================================================
