----------------------------- MODULE Disk_proofs -----------------------------
(***************************************************************************)
(* The geometry fits every disk, and no chain of commands, of any length   *)
(* and on any files, loses data of the guest or makes a footer to data.    *)
(***************************************************************************)
EXTENDS Disk, TLAPS

USE DEF Sector

\* A quotient, in terms of products.
LEMMA Quotient ==
  ASSUME NEW a \in Nat, NEW b \in Nat \ {0}
  PROVE  a \div b \in Nat /\ b * (a \div b) <= a /\ a < b * (a \div b) + b
OBVIOUS

\* A sum that was checked does not wrap.
LEMMA CheckedSum ==
  ASSUME NEW len \in Nat, HasRoom(len)
  PROVE  WithFooter(len) = len + Sector
<1>1. len + Sector \in Nat /\ len + Sector < Limit + 1 /\ Limit + 1 \in Nat \ {0}
  BY LimitAssumption DEF HasRoom
<1>2. \A m, n \in Nat : m < n => m % n = m
  OBVIOUS
<1> QED BY <1>1, <1>2 DEF WithFooter

\* What the geometry chooses from.
HeadCounts == 4 .. 16
TrackSizes == {17, 31, 63, 255}

\* The quotient of a quotient.
LEMMA QuotientOfQuotient ==
  ASSUME NEW total \in Nat, NEW heads \in HeadCounts, NEW spt \in TrackSizes,
         NEW t \in Nat, spt * t <= total, total < spt * t + spt,
         NEW c \in Nat, heads * c <= t, t < heads * c + heads
  PROVE  c * heads * spt <= total /\ total - c * heads * spt < heads * spt
<1>1. heads = 4 \/ heads = 5 \/ heads = 6 \/ heads = 7 \/ heads = 8 \/ heads = 9
      \/ heads = 10 \/ heads = 11 \/ heads = 12 \/ heads = 13 \/ heads = 14
      \/ heads = 15 \/ heads = 16
  BY DEF HeadCounts
<1>2. CASE spt = 17 BY <1>1, <1>2
<1>3. CASE spt = 31 BY <1>1, <1>3
<1>4. CASE spt = 63 BY <1>1, <1>4
<1>5. CASE spt = 255 BY <1>1, <1>5
<1> QED BY <1>2, <1>3, <1>4, <1>5 DEF TrackSizes

\* The cylinders that the geometry has, before they are cut to their width.
Cylinders(total, heads, spt) == (total \div spt) \div heads

\* A geometry names no sector that is not there and leaves less than one
\* cylinder out, unless its cylinders are cut to their width.
LEMMA GeometryOf ==
  ASSUME NEW total \in Nat, NEW heads \in HeadCounts, NEW spt \in TrackSizes,
         Cylinders(total, heads, spt) <= MaxCylinders
  PROVE  \E c \in 0 .. MaxCylinders :
           /\ Geometry(total, heads, spt)
                = [cylinders |-> c, heads |-> heads, sectors |-> spt]
           /\ c * heads * spt <= total
           /\ total - c * heads * spt < heads * spt
<1>1. heads \in Nat \ {0} /\ spt \in Nat \ {0}
  BY DEF HeadCounts, TrackSizes
<1>2. PICK t : /\ t = total \div spt /\ t \in Nat
               /\ spt * t <= total /\ total < spt * t + spt
  BY <1>1, Quotient, Zenon
<1>3. PICK c : /\ c = t \div heads /\ c \in Nat
               /\ heads * c <= t /\ t < heads * c + heads
  BY <1>1, <1>2, Quotient, Zenon
<1>4. c = Cylinders(total, heads, spt)
  BY <1>2, <1>3, Zenon DEF Cylinders
<1>5. c <= MaxCylinders
  BY <1>4, Zenon
<1>6. Least(c, MaxCylinders) = c
  BY <1>3, <1>5 DEF Least, MaxCylinders
<1>7. Geometry(total, heads, spt)
        = [cylinders |-> c, heads |-> heads, sectors |-> spt]
  BY <1>4, <1>6, Zenon DEF Geometry, Cylinders
<1>8. c * heads * spt <= total /\ total - c * heads * spt < heads * spt
  <2>1. t \in Nat /\ spt * t <= total /\ total < spt * t + spt
    BY <1>2, Zenon
  <2>2. c \in Nat /\ heads * c <= t /\ t < heads * c + heads
    BY <1>3, Zenon
  <2> QED BY <2>1, <2>2, QuotientOfQuotient, Zenon
<1>9. c \in Nat
  BY <1>3, Zenon
<1>10. c \in 0 .. MaxCylinders
  <2>1. MaxCylinders \in Nat
    BY DEF MaxCylinders
  <2> QED BY <1>5, <1>9, <2>1
<1> QED BY <1>7, <1>8, <1>10, Zenon

\* The geometry of chs fits a disk of any number of sectors: whichever branch
\* it takes, no field overflows.
LEMMA ChsFits ==
  ASSUME NEW count \in Nat
  PROVE  /\ Fits(Chs(count), count)
         /\ Chs(count) \in [cylinders : Nat, heads : Nat, sectors : Nat]
<1>1. PICK total : /\ total = Least(count, MaxChs)
                   /\ total \in Nat /\ total <= count /\ total <= MaxChs
                   /\ count <= MaxChs => total = count
  BY DEF Least, MaxChs
<1>2. ASSUME NEW heads \in HeadCounts, NEW spt \in TrackSizes,
             Cylinders(total, heads, spt) <= MaxCylinders,
             Chs(count) = Geometry(total, heads, spt)
      PROVE  /\ Fits(Chs(count), count)
             /\ Chs(count) \in [cylinders : Nat, heads : Nat, sectors : Nat]
  <2>1. total \in Nat
    BY <1>1
  <2>2. PICK c \in 0 .. MaxCylinders :
           /\ Geometry(total, heads, spt)
                = [cylinders |-> c, heads |-> heads, sectors |-> spt]
           /\ c * heads * spt <= total
           /\ total - c * heads * spt < heads * spt
    BY <1>2, <2>1, GeometryOf, Zenon
  <2>3. Chs(count) = [cylinders |-> c, heads |-> heads, sectors |-> spt]
    BY <1>2, <2>2, Zenon
  <2>4. Product(Chs(count)) = c * heads * spt
    BY <2>3 DEF Product
  <2>5. heads \in 4 .. 16 /\ spt \in 1 .. 255
    BY DEF HeadCounts, TrackSizes
  <2>6. c \in Nat /\ heads \in Nat /\ spt \in Nat
    <3>1. c \in Nat
      OBVIOUS
    <3>2. heads \in Nat /\ spt \in Nat
      BY <2>5
    <3> QED BY <3>1, <3>2
  <2>7. PICK p \in Int : p = c * heads * spt
    BY <2>6
  <2>8. PICK q \in Int : q = heads * spt
    BY <2>6
  <2>9. p <= total /\ total - p < q
    BY <2>2, <2>7, <2>8, Zenon
  <2>10. p <= count /\ (count <= MaxChs => count - p < q)
    BY <1>1, <2>9
  <2>11. /\ Chs(count).cylinders = c /\ Chs(count).heads = heads
        /\ Chs(count).sectors = spt
    BY <2>3
  <2>12. Product(Chs(count)) = p /\ Chs(count).heads * Chs(count).sectors = q
    BY <2>4, <2>7, <2>8, <2>11, Zenon
  <2>13. Fits(Chs(count), count)
    BY <2>10, <2>11, <2>5, <2>12, Zenon DEF Fits
  <2> QED BY <2>3, <2>13, <2>6
<1>3. total = Least(count, MaxChs) /\ total \in Nat /\ total <= MaxChs
  BY <1>1
<1>4. CASE total >= Threshold
  <2>1. Chs(count) = Geometry(total, 16, 255)
    BY <1>3, <1>4, Zenon DEF Chs
  <2>2. Cylinders(total, 16, 255) <= MaxCylinders
    BY <1>3 DEF MaxChs, Cylinders, MaxCylinders
  <2> QED BY <1>2, <2>1, <2>2 DEF HeadCounts, TrackSizes
<1>5. CASE ~(total >= Threshold) /\ ~TooMany(total \div 17)
  <2>1. Chs(count) = Geometry(total, HeadsFor(total \div 17), 17)
    BY <1>3, <1>5, Zenon DEF Chs
  <2>2. PICK t \in Nat : t = total \div 17
    BY <1>3
  <2>3. PICK h : h = HeadsFor(t)
    OBVIOUS
  <2>4. h \in 4 .. 16 /\ t < h * 1024
    BY <1>5, <2>2, <2>3 DEF TooMany, HeadsFor, Greatest, DivCeil
  <2>5. PICK c : c = t \div h /\ c \in Nat /\ h * c <= t
    <3>1. h \in Nat \ {0}
      BY <2>4
    <3> QED BY <3>1, <2>2, Quotient, Zenon
  <2>6. c <= MaxCylinders
    <3>1. c \in Nat /\ h * c < h * 1024
      BY <2>2, <2>4, <2>5, SMT
    <3>2. c < 1024
      BY <3>1, <2>4
    <3> QED BY <3>1, <3>2 DEF MaxCylinders
  <2>7. Cylinders(total, h, 17) <= MaxCylinders
    BY <2>2, <2>5, <2>6, Zenon DEF Cylinders
  <2>8. Chs(count) = Geometry(total, h, 17)
    BY <2>1, <2>2, <2>3, Zenon
  <2> QED BY <1>2, <2>4, <2>7, <2>8 DEF HeadCounts, TrackSizes
<1>6. CASE ~(total >= Threshold) /\ TooMany(total \div 17)
  <2>1. PICK spt : spt = SectorsFor(total)
    OBVIOUS
  <2>2. Chs(count) = Geometry(total, 16, spt)
    BY <1>3, <1>6, <2>1, Zenon DEF Chs
  <2>3. spt \in TrackSizes
    BY <2>1 DEF SectorsFor, TrackSizes
  <2>4. Cylinders(total, 16, spt) <= MaxCylinders
    <3>1. CASE spt = 63
      BY <1>3, <1>6, <3>1 DEF Threshold, Cylinders, MaxCylinders
    <3>2. CASE spt = 31
      BY <1>3, <1>6, <3>2, <2>1 DEF SectorsFor, Cylinders, MaxCylinders
    <3> QED BY <2>1, <3>1, <3>2 DEF SectorsFor
  <2> QED BY <1>2, <2>2, <2>3, <2>4 DEF HeadCounts
<1> QED BY <1>4, <1>5, <1>6

-----------------------------------------------------------------------------
\* Between commands: the types; what no command took from the guest, footers
\* not counted; the footer that create and convert leave; and footers that were
\* taken for data.
Types ==
  /\ file \in FileType /\ Len(file.foot) * Sector <= file.len
  /\ disk \in Nat /\ sound \in BOOLEAN /\ forced \in BOOLEAN /\ misread \in BOOLEAN

Kept ==
  file.kind = "image" /\ ~forced =>
    disk <= Visible(file) /\ disk + Len(file.foot) * Sector <= file.len

Own ==
  sound =>
    /\ file.ext = "vhd" => file.foot # <<>>
    /\ file.foot # <<>> =>
         /\ (file.len - Sector) % Sector = 0
         /\ file.foot[Len(file.foot)] = New(file.len - Sector)

Buried == ~misread => \A i \in 1 .. Len(file.foot) - 1 : ~file.foot[i].cookie

Inv == Types /\ Kept /\ Own /\ Buried

\* The fields of a new footer.
LEMMA NewFooter ==
  ASSUME NEW len \in Nat
  PROVE  /\ New(len) \in FooterType
         /\ New(len).cookie /\ New(len).wrong = {}
         /\ New(len).original = len /\ New(len).current = len
         /\ New(len).chs = Chs(len \div Sector)
<1>1. len \div Sector \in Nat
  OBVIOUS
<1>2. Chs(len \div Sector) \in [cylinders : Nat, heads : Nat, sectors : Nat]
  BY <1>1, ChsFits, Zenon
<1> QED BY <1>2 DEF New, FooterType

\* The invariant holds of every file that comes from elsewhere.
LEMMA InitInv == Init => Inv
<1> SUFFICES ASSUME Init PROVE Inv
  OBVIOUS
<1>1. NoFile \in FileType /\ Len(NoFile.foot) = 0
  BY DEF NoFile, FileType, Exts
<1>2. /\ file \in FileType /\ Len(file.foot) <= 1
      /\ Len(file.foot) * Sector <= file.len
  BY <1>1, DiskAssumption DEF Init, NoFile
<1>3. Len(file.foot) \in Nat /\ file.foot = <<>> <=> Len(file.foot) = 0
  BY <1>2 DEF FileType
<1>4. Sizes \subseteq Nat
  BY DiskAssumption DEF Sizes, Bytes
<1>5. disk \in Nat
  BY <1>2, <1>3, <1>4 DEF Init, Visible, FileType
<1>6. Kept
  BY <1>2, <1>3 DEF Init, Kept, Visible, FileType
<1>7. Own
  BY DEF Init, Own
<1>8. Buried
  BY <1>2, <1>3 DEF Buried
<1>9. Types
  BY <1>2, <1>5 DEF Init, Types
<1> QED BY <1>6, <1>7, <1>8, <1>9 DEF Inv

\* create starts anew.
LEMMA CreateKeeps ==
  ASSUME Inv, NEW ext \in Exts, NEW size \in Requests, Create(ext, size)
  PROVE  Inv'
<1> DEFINE len == Bytes(size)
<1>1. len \in Nat /\ len % Sector = 0
  BY DiskAssumption, SMTT(30) DEF Create, Bytes, Aligned
<1>2. New(len) \in FooterType
  BY <1>1, NewFooter
<1>3. disk' = 0 /\ sound' = TRUE /\ forced' = FALSE /\ misread' = FALSE
  BY DEF Create
<1> HIDE DEF len
<1>4. CASE ext = "rmd"
  <2>1. file' = [ext |-> ext, kind |-> "image", len |-> len, foot |-> <<>>]
    BY <1>4 DEF Create, len
  <2>2. file' \in FileType
    BY <1>1, <2>1 DEF FileType, Exts
  <2>3. Len(file'.foot) = 0 /\ file'.foot = <<>> /\ file'.len = len /\ file'.ext = "rmd"
    BY <1>4, <2>1
  <2>4. Types'
    <3>1. Len(file'.foot) * Sector <= file'.len
      BY <1>1, <2>3
    <3>2. disk' \in Nat
      BY <1>3
    <3> QED BY <1>3, <2>2, <3>1, <3>2, Zenon DEF Types
  <2>5. Kept'
    BY <1>1, <1>3, <2>3 DEF Kept, Visible
  <2>6. Own'
    BY <2>3 DEF Own
  <2>7. Buried'
    BY <2>3 DEF Buried
  <2> QED BY <2>4, <2>5, <2>6, <2>7 DEF Inv
<1>5. CASE ext # "rmd"
  <2>1. file' = [ext |-> ext, kind |-> "image", len |-> len + Sector,
                 foot |-> <<New(len)>>]
    <3>1. HasRoom(len)
      BY <1>5 DEF Create, len
    <3> QED BY <1>1, <1>5, <3>1, CheckedSum DEF Create, len
  <2>2. file' \in FileType
    BY <1>1, <1>2, <2>1 DEF FileType, Exts
  <2>3. Len(file'.foot) = 1 /\ file'.foot[1] = New(len) /\ file'.foot # <<>>
        /\ file'.len = len + Sector /\ file'.ext # "rmd"
    BY <1>5, <2>1
  <2>4. file'.len - Sector = len
    BY <1>1, <2>3
  <2>5. Types'
    <3>1. Len(file'.foot) * Sector <= file'.len
      BY <1>1, <2>3
    <3>2. disk' \in Nat
      BY <1>3
    <3> QED BY <1>3, <2>2, <3>1, <3>2, Zenon DEF Types
  <2>6. Kept'
    BY <1>1, <1>3, <2>3 DEF Kept, Visible
  <2>7. Own'
    BY <1>1, <2>3, <2>4 DEF Own
  <2>8. Buried'
    BY <2>3 DEF Buried
  <2> QED BY <2>5, <2>6, <2>7, <2>8 DEF Inv
<1> QED BY <1>4, <1>5

\* What convert takes for an image without a readable footer has none.
LEMMA RawHasNoFooter ==
  ASSUME Types, NEW head \in BOOLEAN, NEW tail \in BOOLEAN,
         KindRead(head, tail) = "Raw", head, tail, file.foot # <<>>
  PROVE  ~file.foot[Len(file.foot)].cookie
<1>1. file.foot \in Seq(FooterType) /\ file.len \in Nat
      /\ Len(file.foot) * Sector <= file.len
  BY DEF Types, FileType
<1>2. Len(file.foot) \in Nat /\ Len(file.foot) # 0
  BY <1>1
<1>3. file.len >= Sector
  BY <1>1, <1>2
<1> QED BY <1>3 DEF KindRead, Classify

\* What convert takes for a fixed VHD ends in a footer.
LEMMA VhdHasFooter ==
  ASSUME Types, NEW head \in BOOLEAN, NEW tail \in BOOLEAN,
         KindRead(head, tail) = "FixedVhd"
  PROVE  file.foot # <<>> /\ Len(file.foot) \in Nat \ {0} /\ file.len >= Sector
<1>1. file.foot # <<>>
  BY DEF KindRead, Classify
<1>2. file.foot \in Seq(FooterType) /\ file.len \in Nat
      /\ Len(file.foot) * Sector <= file.len
  BY DEF Types, FileType
<1>3. Len(file.foot) \in Nat \ {0}
  BY <1>1, <1>2
<1> QED BY <1>1, <1>2, <1>3

\* A copy under the other name keeps what there is: the footer is no data under
\* either name.
LEMMA VerbatimKeeps ==
  ASSUME Inv, NEW ext \in Exts, NEW head \in BOOLEAN, NEW tail \in BOOLEAN,
         KindRead(head, tail) = "FixedVhd", Verbatim(ext),
         misread' = (misread \/ ~head \/ ~tail), UNCHANGED <<disk, forced>>
  PROVE  Inv'
<1>1. file.foot # <<>> /\ Len(file.foot) \in Nat \ {0} /\ file.len >= Sector
  BY VhdHasFooter DEF Inv
<1>2. /\ file \in FileType /\ file.len \in Nat /\ disk \in Nat
      /\ Len(file.foot) * Sector <= file.len
  BY DEF Inv, Types, FileType
<1>3. /\ file' \in FileType /\ file'.len = file.len /\ file'.foot = file.foot
      /\ file'.kind = file.kind
  BY <1>2 DEF Verbatim, FileType
<1>4. Types'
  <2>1. sound' \in BOOLEAN /\ misread' \in BOOLEAN
    BY DEF Inv, Types, Verbatim
  <2> QED BY <1>2, <1>3, <2>1 DEF Inv, Types
<1>5. Kept'
  <2> SUFFICES ASSUME file'.kind = "image", ~forced'
               PROVE  disk' <= Visible(file)' /\ disk' + Len(file'.foot) * Sector <= file'.len
    BY DEF Kept
  <2>1. disk + Len(file.foot) * Sector <= file.len
    BY <1>3 DEF Inv, Kept
  <2> QED BY <1>1, <1>2, <1>3, <2>1 DEF Visible
<1>6. Own'
  BY <1>1, <1>3 DEF Inv, Own, Verbatim
<1>7. Buried'
  BY <1>3 DEF Inv, Buried
<1> QED BY <1>4, <1>5, <1>6, <1>7 DEF Inv

\* A new file holds all of the old one's data, and no footer of it that is still
\* known for one.
LEMMA RebuildKeeps ==
  ASSUME Inv, NEW ext \in Exts, NEW head \in BOOLEAN, NEW tail \in BOOLEAN,
         NEW kind, kind = KindRead(head, tail),
         kind = "Container" => file.kind = "container",
         NEW len \in Nat, kind = "FixedVhd" => len # Source(kind),
         Rebuild(ext, kind, len),
         misread' = (misread \/ ~head \/ ~tail), UNCHANGED <<disk, forced>>
  PROVE  Inv'
<1>1. kind \in {"Container", "FixedVhd", "Raw"}
  BY DEF KindRead, Classify
<1>2. /\ file \in FileType /\ file.len \in Nat /\ disk \in Nat
      /\ file.foot \in Seq(FooterType) /\ Len(file.foot) \in Nat
      /\ Len(file.foot) * Sector <= file.len
  BY DEF Inv, Types, FileType
<1>3. len % Sector = 0 /\ len >= Source(kind)
  BY DEF Rebuild, Aligned
<1> DEFINE old == Copied(kind, len)
<1>4. old \in Seq(FooterType)
  BY <1>2 DEF Copied
<1>5. New(len) \in FooterType
  BY NewFooter
<1>6. /\ file'.len = len + Sector /\ file'.foot = Append(old, New(len))
      /\ file'.kind = IF kind = "Container" THEN "image" ELSE file.kind
      /\ file'.ext = ext
      /\ file' \in FileType
  <2>1. WithFooter(len) = len + Sector
    BY CheckedSum DEF Rebuild
  <2> QED BY <1>2, <1>4, <1>5, <2>1 DEF Rebuild, FileType, Exts
<1>7. /\ Len(old) \in Nat /\ Len(file'.foot) = Len(old) + 1
      /\ file'.foot[Len(old) + 1] = New(len)
      /\ \A i \in 1 .. Len(old) : file'.foot[i] = old[i]
      /\ file'.foot # <<>>
  BY <1>4, <1>5, <1>6
<1>8. old = <<>> \/ (kind = "Raw" /\ len = file.len /\ old = file.foot)
  BY DEF Copied
<1> HIDE DEF old
<1>9. Len(old) * Sector <= len
  BY <1>2, <1>3, <1>7, <1>8
<1>10. Types'
  <2>1. sound' \in BOOLEAN /\ misread' \in BOOLEAN
    BY DEF Inv, Types, Rebuild
  <2>2. Len(file'.foot) * Sector <= file'.len
    BY <1>6, <1>7, <1>9
  <2> QED BY <1>2, <1>6, <2>1, <2>2, Zenon DEF Inv, Types
<1>11. Kept'
  <2> SUFFICES ASSUME file'.kind = "image", ~forced'
               PROVE  disk' <= Visible(file)' /\ disk' + Len(file'.foot) * Sector <= file'.len
    BY DEF Kept
  <2>1. disk + Len(old) * Sector <= len
    <3>1. CASE kind = "Container"
      BY <1>2, <1>3, <1>8, <3>1 DEF Source
    <3>2. CASE kind = "FixedVhd"
      <4>1. file.foot # <<>> /\ Len(file.foot) \in Nat \ {0} /\ file.len >= Sector
        BY <3>2, VhdHasFooter DEF Inv
      <4>2. disk + Len(file.foot) * Sector <= file.len
        BY <1>6, <3>2 DEF Inv, Kept
      <4> QED BY <1>2, <1>3, <1>8, <3>2, <4>1, <4>2 DEF Source
    <3>3. CASE kind = "Raw"
      <4>1. disk + Len(file.foot) * Sector <= file.len
        BY <1>6, <3>3 DEF Inv, Kept
      <4> QED BY <1>2, <1>3, <1>7, <1>8, <3>3, <4>1 DEF Source
    <3> QED BY <1>1, <3>1, <3>2, <3>3
  <2> QED BY <1>2, <1>6, <1>7, <2>1 DEF Visible
<1>12. Own'
  BY <1>3, <1>6, <1>7 DEF Own
<1>13. Buried'
  <2> SUFFICES ASSUME ~misread', NEW i \in 1 .. Len(old)
               PROVE  ~file'.foot[i].cookie
    BY <1>7 DEF Buried
  <2>1. head /\ tail /\ ~misread
    OBVIOUS
  <2>2. kind = "Raw" /\ old = file.foot /\ old # <<>>
    BY <1>7, <1>8
  <2>3. ~file.foot[Len(file.foot)].cookie
    BY <2>1, <2>2, RawHasNoFooter DEF Inv
  <2>4. \A j \in 1 .. Len(file.foot) - 1 : ~file.foot[j].cookie
    BY <2>1 DEF Inv, Buried
  <2> QED BY <1>2, <1>7, <2>2, <2>3, <2>4
<1> QED BY <1>10, <1>11, <1>12, <1>13 DEF Inv

\* Either of convert's ways, with a size or without.
LEMMA ConvertKeeps ==
  ASSUME Inv, NEW ext \in Exts, NEW head \in BOOLEAN, NEW tail \in BOOLEAN,
         Convert(ext, head, tail)
  PROVE  Inv'
<1> DEFINE kind == KindRead(head, tail)
<1>1. /\ kind = "Container" => file.kind = "container"
      /\ misread' = (misread \/ ~head \/ ~tail) /\ UNCHANGED <<disk, forced>>
  BY DEF Convert
<1>2. kind \in {"Container", "FixedVhd", "Raw"}
  BY DEF KindRead, Classify
<1>3. Source(kind) \in Nat
  <2>1. file.len \in Nat /\ disk \in Nat
    BY DEF Inv, Types, FileType
  <2>2. kind = "FixedVhd" => file.len >= Sector
    BY VhdHasFooter DEF Inv
  <2> HIDE DEF kind
  <2> QED BY <1>2, <2>1, <2>2 DEF Source
<1>4. CASE kind = "FixedVhd" /\ Verbatim(ext)
  BY <1>1, <1>4, VerbatimKeeps
<1>5. CASE kind # "FixedVhd" /\ Rebuild(ext, kind, Source(kind))
  BY <1>1, <1>3, <1>5, RebuildKeeps
<1>6. ASSUME NEW size \in Requests,
             IF kind = "FixedVhd" /\ Bytes(size) = Source(kind)
               THEN Verbatim(ext) ELSE Rebuild(ext, kind, Bytes(size))
      PROVE  Inv'
  <2>1. Bytes(size) \in Nat
    BY DiskAssumption DEF Bytes
  <2>2. CASE kind = "FixedVhd" /\ Bytes(size) = Source(kind)
    BY <1>1, <1>6, <2>2, VerbatimKeeps
  <2>3. CASE ~(kind = "FixedVhd" /\ Bytes(size) = Source(kind))
    BY <1>1, <1>6, <2>1, <2>3, RebuildKeeps
  <2> QED BY <2>2, <2>3
<1> QED BY <1>4, <1>5, <1>6 DEF Convert

\* The shown disk stays as large as it was, or the command was told otherwise.
LEMMA RetypeKeeps ==
  ASSUME Inv, NEW to \in Exts, NEW force \in BOOLEAN, Retype(to, force)
  PROVE  Inv'
<1>1. /\ file \in FileType /\ file.len \in Nat /\ disk \in Nat
      /\ file.foot \in Seq(FooterType) /\ Len(file.foot) \in Nat
      /\ Len(file.foot) * Sector <= file.len
  BY DEF Inv, Types, FileType
<1>2. /\ sound' = FALSE /\ UNCHANGED <<disk, misread>>
      /\ forced' = (forced \/ (to = "vhd" /\ force))
  BY DEF Retype
<1>3. Own'
  BY <1>2 DEF Own
<1>4. forced' \in BOOLEAN /\ sound' \in BOOLEAN /\ misread' \in BOOLEAN /\ disk' \in Nat
  BY <1>2 DEF Inv, Types
<1>5. CASE to = "rmd"
  <2> DEFINE foot == IF file.foot = <<>> THEN <<>>
                     ELSE SubSeq(file.foot, 1, Len(file.foot) - 1)
  <2>1. /\ file.ext = "vhd" /\ file.len >= Sector
        /\ file' = [ext |-> to, len |-> file.len - Sector,
                    kind |-> IF file.kind = "container" THEN "cut" ELSE file.kind,
                    foot |-> foot]
    BY <1>1, <1>5 DEF Retype, FileType, Exts
  <2>2. /\ foot \in Seq(FooterType) /\ Len(foot) \in Nat
        /\ Len(foot) = IF Len(file.foot) = 0 THEN 0 ELSE Len(file.foot) - 1
        /\ \A i \in 1 .. Len(foot) : foot[i] = file.foot[i]
    BY <1>1
  <2> HIDE DEF foot
  <2>3. /\ file' \in FileType /\ file'.foot = foot /\ file'.len = file.len - Sector
        /\ file'.ext = "rmd" /\ (file'.kind = "image" => file.kind = "image")
    BY <1>1, <1>5, <2>1, <2>2 DEF FileType, Exts
  <2>4. Types'
    <3>1. Len(file'.foot) * Sector <= file'.len
      BY <1>1, <2>1, <2>2, <2>3
    <3> QED BY <1>4, <2>3, <3>1, Zenon DEF Types
  <2>5. Kept'
    <3> SUFFICES ASSUME file'.kind = "image", ~forced'
                 PROVE  disk' <= Visible(file)' /\ disk' + Len(file'.foot) * Sector <= file'.len
      BY DEF Kept
    <3>1. disk <= Visible(file) /\ disk + Len(file.foot) * Sector <= file.len
      BY <1>2, <2>3 DEF Inv, Kept
    <3> QED BY <1>1, <1>2, <2>1, <2>2, <2>3, <3>1 DEF Visible
  <2>6. Buried'
    BY <1>1, <1>2, <2>2, <2>3 DEF Inv, Buried
  <2> QED BY <1>3, <2>4, <2>5, <2>6 DEF Inv
<1>6. CASE to = "vhd"
  <2>1. forced' = TRUE
    BY <1>2, <1>6 DEF Retype, NeedsForce
  <2>2. file' = [file EXCEPT !.ext = to]
    BY <1>6 DEF Retype
  <2>3. file' \in FileType /\ file'.foot = file.foot /\ file'.len = file.len
    BY <1>1, <2>2 DEF FileType
  <2>4. Types'
    BY <1>1, <1>4, <2>3 DEF Types
  <2>5. Kept'
    BY <2>1 DEF Kept
  <2>6. Buried'
    BY <1>2, <2>3 DEF Inv, Buried
  <2> QED BY <1>3, <2>4, <2>5, <2>6 DEF Inv
<1> QED BY <1>5, <1>6 DEF Exts

\* The guest may use what it is shown.
LEMMA GuestKeeps ==
  ASSUME Inv, GuestWrites
  PROVE  Inv'
<1>1. /\ file \in FileType /\ file.len \in Nat /\ file.ext \in Exts
      /\ file.foot \in Seq(FooterType) /\ Len(file.foot) \in Nat
      /\ Len(file.foot) * Sector <= file.len
  BY DEF Inv, Types, FileType
<1>2. disk' = Visible(file) /\ forced' = FALSE /\ UNCHANGED <<sound, misread>>
  BY DEF GuestWrites
<1>3. Visible(file) \in Nat
  BY <1>1 DEF Visible
<1> DEFINE foot == IF file.ext = "rmd" \/ file.foot = <<>> THEN <<>>
                   ELSE <<file.foot[Len(file.foot)]>>
<1>4. file' = [file EXCEPT !.foot = foot]
  BY DEF GuestWrites
<1>5. foot \in Seq(FooterType)
  BY <1>1
<1>6. file' \in FileType /\ file'.foot = foot /\ file'.len = file.len /\ file'.ext = file.ext
  BY <1>1, <1>4, <1>5 DEF FileType
<1>7. CASE file.ext = "rmd" \/ file.foot = <<>>
  <2>1. file'.foot = <<>> /\ Len(file'.foot) = 0
    BY <1>6, <1>7
  <2>2. Types'
    <3>1. disk' \in Nat /\ Len(file'.foot) * Sector <= file'.len
      BY <1>1, <1>2, <1>3, <1>6, <2>1
    <3>2. forced' \in BOOLEAN /\ sound' \in BOOLEAN /\ misread' \in BOOLEAN
      BY <1>2 DEF Inv, Types
    <3> QED BY <1>6, <3>1, <3>2, Zenon DEF Types
  <2>3. Kept'
    BY <1>1, <1>2, <1>6, <2>1 DEF Kept, Visible
  <2>4. Own'
    BY <1>2, <1>6, <1>7, <2>1 DEF Inv, Own
  <2>5. Buried'
    BY <2>1 DEF Buried
  <2> QED BY <2>2, <2>3, <2>4, <2>5 DEF Inv
<1>8. CASE file.ext # "rmd" /\ file.foot # <<>>
  <2>1. /\ file'.foot = <<file.foot[Len(file.foot)]>> /\ Len(file'.foot) = 1
        /\ file'.foot[1] = file.foot[Len(file.foot)] /\ file'.foot # <<>>
    BY <1>6, <1>8
  <2>2. Len(file.foot) \in Nat \ {0} /\ file.len >= Sector
    <3>1. Len(file.foot) \in Nat \ {0}
      BY <1>1, <1>8
    <3> QED BY <1>1, <3>1
  <2>3. Types'
    <3>1. disk' \in Nat /\ Len(file'.foot) * Sector <= file'.len
      BY <1>1, <1>2, <1>3, <1>6, <2>1, <2>2
    <3>2. forced' \in BOOLEAN /\ sound' \in BOOLEAN /\ misread' \in BOOLEAN
      BY <1>2 DEF Inv, Types
    <3> QED BY <1>6, <3>1, <3>2, Zenon DEF Types
  <2>4. Kept'
    BY <1>1, <1>2, <1>6, <1>8, <2>1, <2>2 DEF Kept, Visible
  <2>5. Own'
    BY <1>2, <1>6, <1>8, <2>1 DEF Inv, Own
  <2>6. Buried'
    BY <2>1 DEF Buried
  <2> QED BY <2>3, <2>4, <2>5, <2>6 DEF Inv
<1> QED BY <1>7, <1>8

\* A damaged footer is in the same place.
LEMMA DamageKeeps ==
  ASSUME Inv, Damage
  PROVE  Inv'
<1>1. /\ file \in FileType /\ file.len \in Nat
      /\ file.foot \in Seq(FooterType) /\ Len(file.foot) \in Nat /\ file.foot # <<>>
  BY DEF Inv, Types, FileType, Damage
<1>2. Len(file.foot) \in Nat \ {0} /\ file.foot[Len(file.foot)] \in FooterType
  BY <1>1
<1>3. PICK f \in Damaged(file.foot[Len(file.foot)]) :
        file' = [file EXCEPT !.foot[Len(file.foot)] = f]
  BY DEF Damage
<1>4. f \in FooterType
  <2> DEFINE g == file.foot[Len(file.foot)]
  <2>1. g \in FooterType
    BY <1>2
  <2>2. f \in Damaged(g)
    BY <1>3
  <2> HIDE DEF g
  <2>3. \/ f = [g EXCEPT !.cookie = FALSE]
        \/ f = [g EXCEPT !.current = @ + 1, !.wrong = @ \cup {"BadChecksum"}]
        \/ f = [g EXCEPT !.wrong = @ \cup {"NotFixed", "BadChecksum"}]
    BY <2>2 DEF Damaged
  <2>4. {"BadChecksum"} \subseteq Fields /\ {"NotFixed", "BadChecksum"} \subseteq Fields
    BY DEF Fields
  <2>5. g.wrong \cup {"BadChecksum"} \in SUBSET Fields
        /\ g.wrong \cup {"NotFixed", "BadChecksum"} \in SUBSET Fields
    BY <2>1, <2>4 DEF FooterType
  <2>6. CASE f = [g EXCEPT !.cookie = FALSE]
    BY <2>1, <2>6 DEF FooterType
  <2>7. CASE f = [g EXCEPT !.current = @ + 1, !.wrong = @ \cup {"BadChecksum"}]
    <3>1. PICK w \in SUBSET Fields : w = g.wrong \cup {"BadChecksum"}
      BY <2>5
    <3>2. PICK n \in Nat : n = g.current + 1
      BY <2>1 DEF FooterType
    <3>3. f = [g EXCEPT !.current = n, !.wrong = w]
      BY <2>7, <3>1, <3>2, Zenon
    <3> QED BY <2>1, <3>3 DEF FooterType
  <2>8. CASE f = [g EXCEPT !.wrong = @ \cup {"NotFixed", "BadChecksum"}]
    BY <2>1, <2>5, <2>8 DEF FooterType
  <2> QED BY <2>3, <2>6, <2>7, <2>8
<1>5. [file.foot EXCEPT ![Len(file.foot)] = f] \in Seq(FooterType)
      /\ Len([file.foot EXCEPT ![Len(file.foot)] = f]) = Len(file.foot)
      /\ \A i \in 1 .. Len(file.foot) - 1 :
           [file.foot EXCEPT ![Len(file.foot)] = f][i] = file.foot[i]
  BY <1>1, <1>2, <1>4
<1>6. /\ file' \in FileType /\ file'.len = file.len /\ file'.kind = file.kind
      /\ file'.ext = file.ext /\ file'.foot = [file.foot EXCEPT ![Len(file.foot)] = f]
  BY <1>1, <1>3, <1>5 DEF FileType
<1>7. sound' = FALSE /\ UNCHANGED <<disk, forced, misread>>
  BY DEF Damage
<1>8. Types'
  BY <1>5, <1>6, <1>7 DEF Inv, Types
<1>9. Kept'
  BY <1>5, <1>6, <1>7 DEF Inv, Kept, Visible
<1>10. Own'
  BY <1>7 DEF Own
<1>11. Buried'
  BY <1>5, <1>6, <1>7 DEF Inv, Buried
<1> QED BY <1>8, <1>9, <1>10, <1>11 DEF Inv

\* Every step keeps the invariant.
LEMMA NextInv == Inv /\ [Next]_vars => Inv'
<1> SUFFICES ASSUME Inv, [Next]_vars PROVE Inv'
  OBVIOUS
<1>1. ASSUME NEW ext \in Exts, NEW size \in Requests, Create(ext, size) PROVE Inv'
  BY <1>1, CreateKeeps
<1>2. ASSUME NEW ext \in Exts, NEW head \in BOOLEAN, NEW tail \in BOOLEAN,
             Convert(ext, head, tail)
      PROVE  Inv'
  BY <1>2, ConvertKeeps
<1>3. ASSUME NEW to \in Exts, NEW force \in BOOLEAN, Retype(to, force) PROVE Inv'
  BY <1>3, RetypeKeeps
<1>4. CASE GuestWrites
  BY <1>4, GuestKeeps
<1>5. CASE Damage
  BY <1>5, DamageKeeps
<1>6. CASE UNCHANGED vars
  BY <1>6 DEF vars, Inv, Types, Kept, Own, Buried, Visible
<1> QED BY <1>1, <1>2, <1>3, <1>4, <1>5, <1>6 DEF Next, Command

LEMMA DiskInv == Spec => []Inv
BY InitInv, NextInv, PTL DEF Spec

-----------------------------------------------------------------------------
\* No chain of create, convert and retype, however long and of whatever files,
\* hides from a guest what it has written, unless a command was told to.
THEOREM DiskNothingLost == Spec => []NothingLost
<1>1. Inv => NothingLost
  <2> SUFFICES ASSUME Inv, file.kind = "image", ~forced PROVE Visible(file) >= disk
    BY DEF NothingLost
  <2>1. disk <= Visible(file) /\ disk \in Nat /\ Visible(file) \in Nat
    BY DEF Inv, Types, Kept, FileType, Visible
  <2> QED BY <2>1
<1> QED BY <1>1, DiskInv, PTL

\* A footer never becomes data under a second one, and a .vhd that the commands
\* made ends in a footer without fault.
THEOREM DiskFooterTells == Spec => []FooterTells
<1>1. Inv => FooterTells
  <2> SUFFICES ASSUME Inv, sound, file.ext = "vhd"
               PROVE  /\ file.foot # <<>>
                      /\ Problems(file.foot[Len(file.foot)], Visible(file)) = {}
    BY DEF FooterTells, Inv, Buried
  <2>1. /\ file.len \in Nat /\ file.foot # <<>> /\ file.foot \in Seq(FooterType)
        /\ Len(file.foot) * Sector <= file.len
        /\ (file.len - Sector) % Sector = 0
        /\ file.foot[Len(file.foot)] = New(file.len - Sector)
    BY DEF Inv, Types, Own, FileType
  <2>2. Len(file.foot) \in Nat \ {0}
    BY <2>1
  <2>3. Visible(file) = file.len - Sector /\ file.len - Sector \in Nat
    BY <2>1, <2>2 DEF Visible
  <2> DEFINE f == New(file.len - Sector)
  <2>4. f.cookie /\ f.wrong = {} /\ f.original = f.current /\ f.current = file.len - Sector
    BY <2>3, NewFooter
  <2>5. Problems(f, Visible(file)) = {}
    <3> HIDE DEF f
    <3> QED BY <2>1, <2>3, <2>4 DEF Problems
  <2> QED BY <2>1, <2>5
<1> QED BY <1>1, DiskInv, PTL

\* The geometry in the footer of a disk of any size fits it.
THEOREM DiskGeometryFits == Spec => []GeometryFits
<1>1. Inv => GeometryFits
  <2> SUFFICES ASSUME Inv, sound, file.foot # <<>>
               PROVE  Fits(file.foot[Len(file.foot)].chs, (file.len - Sector) \div Sector)
    BY DEF GeometryFits
  <2>1. /\ file.len \in Nat /\ file.foot \in Seq(FooterType)
        /\ Len(file.foot) * Sector <= file.len
        /\ file.foot[Len(file.foot)] = New(file.len - Sector)
    BY DEF Inv, Types, Own, FileType
  <2>2. Len(file.foot) \in Nat \ {0}
    BY <2>1
  <2>3. file.len - Sector \in Nat /\ (file.len - Sector) \div Sector \in Nat
    BY <2>1, <2>2
  <2>4. New(file.len - Sector).chs = Chs((file.len - Sector) \div Sector)
    BY <2>3, NewFooter
  <2> QED BY <2>1, <2>3, <2>4, ChsFits
<1> QED BY <1>1, DiskInv, PTL
=============================================================================
