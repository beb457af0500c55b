------------------------------ MODULE MCVolume ------------------------------
(***************************************************************************)
(* Boot sectors and records, sound and corrupt, for the run of Volume.     *)
(***************************************************************************)
EXTENDS Volume, TLC

\* 512-byte sectors, 4 KiB clusters, a record of 2^10 bytes.
Boot == [ntfs |-> TRUE, sector |-> 512, cluster |-> 8, record |-> 246,
         far |-> FALSE]

\* The limits of the size fields: counts, logarithms, 0 and 128.
AllBoots ==
  {Boot, [Boot EXCEPT !.ntfs = FALSE], [Boot EXCEPT !.far = TRUE],
   [Boot EXCEPT !.sector = 777], [Boot EXCEPT !.sector = 128],
   [Boot EXCEPT !.sector = 1024, !.record = 245], [Boot EXCEPT !.record = 247],
   [Boot EXCEPT !.cluster = 1, !.record = 2],
   [Boot EXCEPT !.cluster = 128], [Boot EXCEPT !.cluster = 234],
   [Boot EXCEPT !.cluster = 3], [Boot EXCEPT !.record = 0],
   [Boot EXCEPT !.record = 249], [Boot EXCEPT !.record = 239]}

Info == [type |-> "info", length |-> 1, resident |-> TRUE, inside |-> TRUE,
         short |-> FALSE]
Name == [Info EXCEPT !.type = "name"]
EndMark == [Info EXCEPT !.type = "end"]

\* The label first, the flags under the stamp of the first sector.
Plain == [file |-> TRUE, count |-> 3, usa |-> TRUE, first |-> 0, used |-> 3,
          attr |-> (0 :> Name @@ 1 :> Info @@ 2 :> EndMark @@ 3 :> EndMark)]

Flags(h) == [Plain EXCEPT !.attr[1] = h]

\* The flags in the second sector.
Straddling == [Plain EXCEPT !.attr[0].length = 2, !.attr[2] = Info, !.used = 4]

\* ... in a record used to its end, twice, after something unknown.
SoundShapes ==
  {Plain, Straddling,
   [Plain EXCEPT !.used = 9, !.attr[1].length = 3],
   [Plain EXCEPT !.attr[2] = Info],
   [Plain EXCEPT !.attr[0].type = "other", !.attr[0].inside = FALSE],
   [Plain EXCEPT !.count = 2]}

CorruptShapes ==
  {[Plain EXCEPT !.file = FALSE], [Plain EXCEPT !.usa = FALSE],
   [Plain EXCEPT !.count = 0], [Plain EXCEPT !.first = 4],
   [Plain EXCEPT !.used = 1], [Plain EXCEPT !.attr[0].inside = FALSE],
   Flags(EndMark), Flags([Info EXCEPT !.length = 0]),
   Flags([Info EXCEPT !.length = 3]), Flags([Info EXCEPT !.resident = FALSE]),
   Flags([Info EXCEPT !.inside = FALSE]), Flags([Info EXCEPT !.short = TRUE]),
   Flags([Info EXCEPT !.type = "cut"])}

Old == MaxWrites + 1

\* Each boot sector with a plain record, and each record under a plain boot
\* sector; those that are answered also while the driver is writing.
AllVolumes ==
  {[boot |-> b, shape |-> Plain, age |-> Old] : b \in AllBoots}
  \cup {[boot |-> Boot, shape |-> s, age |-> Old] :
          s \in SoundShapes \cup CorruptShapes}
  \cup {[boot |-> Boot, shape |-> s, age |-> 1] : s \in {Plain, Straddling}}
=============================================================================
