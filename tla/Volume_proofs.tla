---------------------------- MODULE Volume_proofs ----------------------------
(***************************************************************************)
(* What the commands about the dirty flag promise, for every boot sector   *)
(* and record, any number of sectors, targets and writes, and every range  *)
(* of update sequence numbers.  Which boot sectors and records are sound   *)
(* (Legible, and the rest of FixupsHold) plays no part in the argument.    *)
(***************************************************************************)
EXTENDS Volume, TLAPS, FiniteSetTheorems

LEMMA RunningIs == Running \notin {0, 1, 4, 8}
  BY DEF Running

\* A number is its quotient and its remainder.
LEMMA Division ==
  ASSUME NEW a \in Int, NEW u \in Int, u > 0
  PROVE  /\ a \div u \in Int
         /\ a % u \in Int
         /\ a = u * (a \div u) + (a % u)
<1>1. a \div u \in Int
  OBVIOUS
<1>2. a % u \in Int
  OBVIOUS
<1>3. a = u * (a \div u) + (a % u)
  OBVIOUS
<1> QED  BY <1>1, <1>2, <1>3

\* One of two numbers with one remainder, if it is the greater, is so by u.
LEMMA FarApart ==
  ASSUME NEW u \in Nat \ {0}, NEW p \in Int, NEW q \in Int, NEW r \in Int,
         p > q
  PROVE  (u * p + r) - (u * q + r) >= u
<1>1. u * (p - q) >= u
  OBVIOUS
<1>2. u * (p - q) = u * p - u * q
  OBVIOUS
<1> QED  BY <1>1, <1>2

\* Numbers that are equal modulo u and less than u apart are equal.
LEMMA ModuloTells ==
  ASSUME NEW u \in Nat \ {0}, NEW a \in Nat, NEW b \in Nat,
         a % u = b % u, a - b < u, b - a < u
  PROVE  a = b
<1>0. a \in Int /\ b \in Int /\ u \in Int /\ u > 0
  OBVIOUS
<1>1. PICK p \in Int, q \in Int, r \in Int : a = u * p + r /\ b = u * q + r
  <2>1. a \div u \in Int /\ a % u \in Int /\ a = u * (a \div u) + (a % u)
    BY <1>0, Division, Zenon
  <2>2. b \div u \in Int /\ b = u * (b \div u) + (a % u)
    BY <1>0, Division, Zenon
  <2> WITNESS a \div u \in Int, b \div u \in Int, a % u \in Int
  <2> QED  BY <2>1, <2>2, Zenon
<1>2. ~(p > q)
  BY <1>1, FarApart
<1>3. ~(q > p)
  BY <1>1, FarApart
<1>4. p = q
  BY <1>2, <1>3
<1> QED  BY <1>1, <1>4, Zenon

\* A cell before the end of s sectors of c cells is in one of them.
LEMMA CellIsInside ==
  ASSUME NEW c \in Nat \ {0}, NEW s \in Nat, NEW o \in Nat, o < s * c
  PROVE  o \div c \in 0 .. s - 1
<1> DEFINE q == o \div c
<1>1. q \in Nat /\ c * q <= o
  OBVIOUS
<1> HIDE DEF q
<1>2. ASSUME q >= s  PROVE FALSE
  <2>1. c * q >= c * s
    BY <1>1, <1>2
  <2> QED  BY <1>1, <2>1
<1>3. q <= s - 1
  BY <1>1, <1>2
<1> QED  BY <1>1, <1>3 DEF q

-----------------------------------------------------------------------------
\* The steps of the reader, one by one: it fails, opens the device, accepts
\* the boot sector, accepts the fixups, answers, or passes an attribute.
Failed ==
  /\ exit' \in {1, 8} /\ pc' = "done" /\ answer' = "none"
  /\ UNCHANGED <<given, device, alive, turn, copy, off, info, worst, ghost>>

Opened ==
  /\ pc = "open" /\ pc' = "boot"
  /\ alive' = TRUE
  /\ copy' = [i \in Sector |-> 0]
  /\ answer' = "none"
  /\ seen' = WholeIn(medium)
  /\ UNCHANGED <<given, device, turn, off, info, worst, exit, cleared, soiled, mixed>>

BootAccepted ==
  /\ pc = "boot" /\ pc' = "record"
  /\ Legible(boot)
  /\ UNCHANGED <<given, device, alive, turn, copy, off, info, answer, worst, exit,
                 ghost>>

FixupsAccepted ==
  /\ pc = "record" /\ pc' = "walk"
  /\ \A i \in Read : copy[i] # 0
  /\ FixupsHold(copy)
  /\ off' = shape.first /\ info' = "none"
  /\ UNCHANGED <<given, device, alive, turn, copy, answer, worst, exit, ghost>>

Answers ==
  /\ pc = "walk" /\ AtEnd /\ info # "none"
  /\ Answer(info = "dirty")
  /\ UNCHANGED <<given, device, alive, copy, off, info, seen>>

Passes(h) ==
  /\ pc = "walk" /\ ~AtEnd /\ ~Malformed(h) /\ h = shape.attr[off]
  /\ off' = off + h.length
  /\ info' = IF Wants(h) /\ h.type = "info"
               THEN IF FlagAt(off) THEN "dirty" ELSE "clean"
               ELSE info
  /\ UNCHANGED <<given, device, alive, pc, turn, copy, answer, worst, exit, ghost>>

\* Nothing happens to the record, to the reader or to what it saw.
Idle == UNCHANGED <<given, latest, says, medium, reader, ghost>>

LEMMA StepCases ==
  ASSUME Step
  PROVE  \/ Failed \/ Opened \/ BootAccepted \/ FixupsAccepted \/ Answers
         \/ \E h : Passes(h)
         \/ \E i \in Read : ReadSector(i)
<1>1. CASE Open
  BY <1>1 DEF Open, Fail, ExitCode, Failed, Opened, ghost
<1>2. CASE ReadFails
  BY <1>2 DEF ReadFails, Fail, ExitCode, Failed
<1>3. CASE ReadBoot
  BY <1>3 DEF ReadBoot, Fail, ExitCode, Failed, BootAccepted
<1>4. CASE ApplyFixups
  BY <1>4 DEF ApplyFixups, Fail, ExitCode, Failed, FixupsAccepted
<1>5. CASE Walk
  BY <1>5 DEF Walk, Fail, ExitCode, Failed, Answers, Passes, ghost
<1> QED  BY <1>1, <1>2, <1>3, <1>4, <1>5 DEF Step

LEMMA NextCases ==
  ASSUME [Next]_vars
  PROVE  \/ Failed \/ Opened \/ BootAccepted \/ FixupsAccepted \/ Answers
         \/ \E h : Passes(h)
         \/ \E i \in Read : ReadSector(i)
         \/ Write
         \/ \E i \in Sector : WriteSector(i)
         \/ Idle /\ pending' \in {{}, pending}
              /\ plugged' \in {TRUE, FALSE, plugged} /\ alive' \in {FALSE, alive}
<1>1. CASE Unplug
  BY <1>1 DEF Unplug, Idle
<1>2. CASE Replug
  BY <1>2 DEF Replug, Idle
<1>3. CASE UNCHANGED vars
  BY <1>3 DEF vars, device, Idle
<1> QED  BY <1>1, <1>2, <1>3, StepCases DEF Next

\* The volume does not change, so the extent of its record does not.
LEMMA NextGiven ==
  ASSUME [Next]_vars
  PROVE  UNCHANGED given
<1>1. CASE Failed BY <1>1 DEF Failed
<1>2. CASE Opened BY <1>2 DEF Opened
<1>3. CASE BootAccepted BY <1>3 DEF BootAccepted
<1>4. CASE FixupsAccepted BY <1>4 DEF FixupsAccepted
<1>5. CASE Answers BY <1>5 DEF Answers
<1>6. CASE \E h : Passes(h) BY <1>6 DEF Passes
<1>7. CASE \E i \in Read : ReadSector(i) BY <1>7 DEF ReadSector
<1>8. CASE Write BY <1>8 DEF Write
<1>9. CASE \E i \in Sector : WriteSector(i) BY <1>9 DEF WriteSector
<1>10. CASE Idle BY <1>10 DEF Idle
<1> QED  BY <1>1, <1>2, <1>3, <1>4, <1>5, <1>6, <1>7, <1>8, <1>9, <1>10, NextCases

LEMMA Frame ==
  ASSUME UNCHANGED given
  PROVE  /\ Span' = Span /\ Read' = Read /\ End' = End
         /\ boot' = boot /\ shape' = shape /\ report' = report
         /\ Legible(boot)' = Legible(boot)
BY DEF given, Span, Read, End

-----------------------------------------------------------------------------
\* What is read lies on the device.
Spanned == Span \in 0 .. Sectors

\* A sector read is no newer than that on the medium.
Order ==
  /\ \A i \in Sector : copy[i] <= medium[i] /\ medium[i] <= latest
  /\ Read # {} => \A g \in seen : g <= latest

\* A generation that was not whole during this read never will be a whole copy.
Missed ==
  pc \in {"boot", "record", "walk"} =>
    \A g \in Gens \ seen : \E j \in Read : copy[j] # g /\ medium[j] # g

\* The fixups have been checked.
Held ==
  pc = "walk" => \A i \in Read : copy[i] # 0 /\ Usn(copy[i]) = Usn(copy[1])

Parsed == pc \in {"record", "walk"} => Legible(boot)

\* What the walk found is what the copy says.
Found ==
  pc = "walk" /\ info # "none" =>
    1 \in Read /\ (Close => (says[copy[1]] <=> info = "dirty"))

Answered ==
  answer # "none" =>
    /\ pc \in {"open", "done"} /\ Read # {}
    /\ Close => \E g \in seen : says[g] <=> answer = "dirty"

\* The exit code is that of all the answers.
Sums ==
  /\ pc # "done" => turn < Targets /\ exit = Running
  /\ ~mixed /\ ~report =>
       /\ worst = 4 => soiled # {}
       /\ worst = 0 => 0 .. turn - 1 \subseteq cleared
  /\ exit \in {0, 4} => turn = Targets /\ exit = worst

\* The attributes behind the walk, which stands at o.
Trail(P, o) ==
  /\ shape.first \in P \/ (P = {} /\ o = shape.first)
  /\ \A p \in P :
       /\ shape.attr[p].type \notin {"cut", "end"}
       /\ shape.attr[p].length \in 1 .. End - p
       /\ p + shape.attr[p].length \in P \/ p + shape.attr[p].length = o
  /\ \A Q \in SUBSET Offset : Closed(Q) =>
       P \subseteq Q /\ (o < End /\ shape.attr[o].type # "end" => o \in Q)

Flagged(P) ==
  \E o \in P : LET h == shape.attr[o]
               IN  h.type = "info" /\ h.resident /\ h.inside /\ ~h.short

Walked ==
  pc = "walk" =>
    \E P \in SUBSET Offset : Trail(P, off) /\ (info # "none" => Flagged(P))

Inv ==
  /\ TypeOK /\ Spanned /\ Order /\ Missed /\ Held /\ Parsed /\ Found
  /\ Answered /\ Sums /\ Walked /\ NeverGuesses

-----------------------------------------------------------------------------
LEMMA Sizes ==
  /\ Sectors \in Nat /\ Sectors > 0 /\ Cells \in Nat /\ Cells > 0
  /\ Usns \in Nat /\ Usns > 0 /\ MaxWrites \in Nat
  /\ Targets \in Nat /\ Targets > 0
BY VolumeAssumption

LEMMA EndIsInside ==
  ASSUME Spanned, shape.used \in Nat
  PROVE  /\ Read \subseteq Sector /\ Span * Cells \in Nat
         /\ End \in Nat /\ End <= Span * Cells /\ End <= Sectors * Cells
<1>1. Span \in Nat /\ Span <= Sectors /\ Span * Cells \in Nat
  BY Sizes DEF Spanned
<1>2. Span * Cells <= Sectors * Cells
  BY <1>1, Sizes
<1>3. Sectors * Cells \in Nat
  BY Sizes
<1>4. End \in Nat /\ End <= Span * Cells
  BY <1>1 DEF End
<1> QED  BY <1>1, <1>2, <1>3, <1>4 DEF Read

LEMMA InitInv == Init => Inv
<1> SUFFICES ASSUME Init  PROVE Inv
  OBVIOUS
<1> USE Sizes
<1>1. PICK v \in Volumes : boot = v.boot /\ shape = v.shape /\ latest = v.age
  BY DEF Init
<1>2. /\ boot \in BootType /\ shape \in ShapeType /\ latest \in Gens
      /\ SpanOf(boot) \in 0 .. Sectors
  BY <1>1, InputAssumption, DeviceAssumption
<1>3. says \in [Gens -> BOOLEAN]
  BY <1>2 DEF Init
<1>4. TypeOK
  <2>1. medium \in [Sector -> Gens] /\ copy \in [Sector -> Gens \cup {0}]
    BY <1>2 DEF Init
  <2>2. /\ turn \in 0 .. Targets /\ off \in Nat /\ worst \in {0, 4}
        /\ exit \in {0, 1, 4, 8, Running} /\ (info # "none" => off <= End)
    BY DEF Init
  <2>3. /\ pending \subseteq Sector /\ seen \subseteq Gens
        /\ cleared \subseteq 0 .. Targets - 1 /\ soiled \subseteq 0 .. Targets - 1
    BY DEF Init
  <2>4. /\ report \in BOOLEAN /\ plugged \in BOOLEAN /\ alive \in BOOLEAN
        /\ mixed \in BOOLEAN
    BY Zenon DEF Init
  <2> QED  BY <1>2, <1>3, <2>1, <2>2, <2>3, <2>4, Zenon DEF Init, TypeOK
<1>5. Spanned
  BY <1>2 DEF Spanned, Span
<1>6. Order
  BY <1>2 DEF Init, Order, Gens
<1>7. Sums
  BY RunningIs DEF Init, Sums
<1>8. Missed /\ Held /\ Parsed /\ Found /\ Answered /\ Walked /\ NeverGuesses
  BY DEF Init, Missed, Held, Parsed, Found, Answered, Walked, NeverGuesses
<1> QED  BY <1>4, <1>5, <1>6, <1>7, <1>8 DEF Inv

-----------------------------------------------------------------------------
\* An attribute that the walk passes lies before the end and is sound.
LEMMA PassesIsSound ==
  ASSUME TypeOK, Spanned, NEW h, Passes(h)
  PROVE  /\ off \in Offset /\ off < End /\ off \div Cells + 1 \in Read
         /\ h.type \notin {"cut", "end"} /\ h.length \in 1 .. End - off
         /\ Wants(h) => h.inside /\ (h.type = "info" => ~h.short)
<1> USE Sizes
<1>1. off < End /\ h.type # "end" /\ off \in Nat /\ shape.used \in Nat
  BY DEF Passes, AtEnd, TypeOK, ShapeType
<1>2. End \in Nat /\ End <= Span * Cells /\ End <= Sectors * Cells
  BY <1>1, EndIsInside
<1>3. off \in Offset
  <2>1. Sectors * Cells \in Nat
    OBVIOUS
  <2> QED  BY <1>1, <1>2, <2>1 DEF Offset
<1>4. h \in Header
  BY <1>3 DEF Passes, TypeOK, ShapeType
<1>5. off \div Cells + 1 \in Read
  <2>1. Span \in Nat /\ Span <= Sectors
    BY DEF Spanned
  <2>2. Span * Cells \in Nat
    BY <2>1
  <2>3. off < Span * Cells
    BY <1>1, <1>2, <2>2
  <2>4. off \div Cells \in 0 .. Span - 1
    BY <1>1, <2>1, <2>3, CellIsInside
  <2> QED  BY <2>1, <2>4 DEF Read, Sector
<1>6. h.length \in 1 .. End - off
  <2>1. h.length \in Nat
    BY <1>4 DEF Header
  <2> QED  BY <1>1, <1>2, <2>1 DEF Passes, Malformed, Implausible
<1>7. h.type # "cut" /\ (Wants(h) => h.inside /\ (h.type = "info" => ~h.short))
  BY DEF Passes, Malformed
<1> QED  BY <1>1, <1>3, <1>5, <1>6, <1>7

LEMMA TypeInvariance ==
  ASSUME TypeOK, Spanned, Sums, [Next]_vars
  PROVE  TypeOK'
<1> USE Sizes
<1>0. /\ Span' = Span /\ Read' = Read /\ End' = End /\ boot' = boot /\ shape' = shape
      /\ report' = report
  BY NextGiven, Frame
<1>1. CASE Failed
  BY <1>0, <1>1 DEF Failed, TypeOK, device, ghost
<1>2. CASE Opened
  <2>1. seen' \subseteq Gens
    BY <1>2 DEF Opened, WholeIn
  <2>2. copy' \in [Sector -> Gens \cup {0}]
    BY <1>2 DEF Opened
  <2> QED  BY <1>0, <1>2, <2>1, <2>2 DEF Opened, TypeOK, device
<1>3. CASE BootAccepted
  BY <1>0, <1>3 DEF BootAccepted, TypeOK, device, ghost
<1>4. CASE FixupsAccepted
  <2>1. shape.first \in Nat
    BY DEF TypeOK, ShapeType
  <2> QED  BY <1>0, <1>4, <2>1 DEF FixupsAccepted, TypeOK, device, ghost
<1>5. CASE Answers
  <2>1. turn \in 0 .. Targets - 1 /\ turn + 1 \in 0 .. Targets
    BY <1>5 DEF Answers, Sums, TypeOK
  <2>2. worst' \in {0, 4}
    BY <1>5 DEF Answers, Answer, Worse, TypeOK
  <2>3. cleared' \subseteq 0 .. Targets - 1 /\ soiled' \subseteq 0 .. Targets - 1
    BY <1>5, <2>1 DEF Answers, Answer, TypeOK
  <2>4. mixed' \in BOOLEAN
    BY <1>5 DEF Answers, Answer, TypeOK
  <2>5. pc' \in {"open", "done"} /\ exit' \in {0, 1, 4, 8, Running}
        /\ turn' \in 0 .. Targets /\ answer' \in {"clean", "dirty"}
    BY <1>5, <2>1, <2>2 DEF Answers, Answer, TypeOK
  <2> QED
    BY <1>0, <1>5, <2>2, <2>3, <2>4, <2>5 DEF Answers, TypeOK, device
<1>6. CASE \E h : Passes(h)
  <2>1. PICK h : Passes(h)
    BY <1>6
  <2>2. off \in Nat /\ End \in Nat /\ h.length \in 1 .. End - off
    BY <2>1, PassesIsSound, EndIsInside DEF TypeOK, ShapeType
  <2>3. off' \in Nat /\ off' <= End
    BY <2>1, <2>2 DEF Passes
  <2>4. info' \in {"none", "clean", "dirty"}
    BY <2>1 DEF Passes, TypeOK
  <2> QED  BY <1>0, <2>1, <2>3, <2>4 DEF Passes, TypeOK, device, ghost
<1>7. CASE \E i \in Read : ReadSector(i)
  <2>1. copy' \in [Sector -> Gens \cup {0}]
    BY <1>7 DEF ReadSector, TypeOK, Read
  <2> QED  BY <1>0, <1>7, <2>1 DEF ReadSector, TypeOK, device, ghost
<1>8. CASE Write
  <2>1. latest' \in Gens
    BY <1>8 DEF Write, TypeOK, Gens
  <2>2. says' \in [Gens -> BOOLEAN]
    BY <1>8 DEF Write, TypeOK
  <2> QED  BY <1>0, <1>8, <2>1, <2>2 DEF Write, TypeOK, reader, ghost
<1>9. CASE \E i \in Sector : WriteSector(i)
  <2>1. medium' \in [Sector -> Gens] /\ pending' \subseteq Sector
    BY <1>9 DEF WriteSector, TypeOK
  <2>2. seen' \subseteq Gens
    BY <1>9 DEF WriteSector, TypeOK, WholeIn
  <2>3. UNCHANGED <<latest, says, plugged, alive, pc, turn, copy, off, info, answer,
                    worst, exit, cleared, soiled, mixed>>
    BY <1>9 DEF WriteSector, reader
  <2>4. /\ boot' \in BootType /\ shape' \in ShapeType /\ report' \in BOOLEAN
        /\ latest' \in Gens /\ says' \in [Gens -> BOOLEAN]
        /\ plugged' \in BOOLEAN /\ alive' \in BOOLEAN /\ mixed' \in BOOLEAN
    BY <1>0, <2>3, Zenon DEF TypeOK
  <2>5. /\ pc' \in {"open", "boot", "record", "walk", "done"}
        /\ turn' \in 0 .. Targets
        /\ copy' \in [Sector -> Gens \cup {0}]
        /\ off' \in Nat /\ (info' # "none" => off' <= End')
        /\ info' \in {"none", "clean", "dirty"}
        /\ answer' \in {"none", "clean", "dirty"}
    BY <1>0, <2>3, Zenon DEF TypeOK
  <2>6. /\ worst' \in {0, 4} /\ exit' \in {0, 1, 4, 8, Running}
        /\ cleared' \subseteq 0 .. Targets - 1 /\ soiled' \subseteq 0 .. Targets - 1
    BY <2>3, Zenon DEF TypeOK
  <2> QED  BY <2>1, <2>2, <2>4, <2>5, <2>6, Zenon DEF TypeOK
<1>10. CASE Idle /\ pending' \in {{}, pending}
              /\ plugged' \in {TRUE, FALSE, plugged} /\ alive' \in {FALSE, alive}
  <2>1. pending' \subseteq Sector
    BY <1>10 DEF TypeOK
  <2>2. plugged' \in BOOLEAN /\ alive' \in BOOLEAN
    BY <1>10, Zenon DEF TypeOK
  <2>3. UNCHANGED <<given, latest, says, medium, reader, ghost>>
    BY <1>10, Zenon DEF Idle
  <2> QED  BY <1>0, <2>1, <2>2, <2>3, ZenonT(40) DEF TypeOK, reader, ghost
<1> QED  BY <1>1, <1>2, <1>3, <1>4, <1>5, <1>6, <1>7, <1>8, <1>9, <1>10, NextCases

\* What the types say of the sectors.
LEMMA Numbers ==
  ASSUME TypeOK, Spanned
  PROVE  /\ Read \subseteq Sector /\ latest \in Nat
         /\ \A i \in Sector : copy[i] \in Nat /\ medium[i] \in Gens
         /\ \A i \in Sector : copy[i] # 0 => copy[i] \in Gens
         /\ seen \subseteq Gens /\ Gens \subseteq Nat \ {0}
BY Sizes DEF TypeOK, Read, Gens

LEMMA OrderInvariance ==
  ASSUME TypeOK, Spanned, Order, [Next]_vars
  PROVE  Order'
<1>0. Read' = Read
  BY NextGiven, Frame
<1>1. CASE Opened
  <2>1. \A i \in Sector : copy'[i] <= medium'[i] /\ medium'[i] <= latest'
    BY <1>1, Numbers DEF Opened, Order, device
  <2>2. Read # {} => \A g \in seen' : g <= latest'
    BY <1>1, Numbers DEF Opened, Order, device, WholeIn, Whole
  <2> QED  BY <1>0, <2>1, <2>2 DEF Order
<1>2. CASE \E i \in Read : ReadSector(i)
  <2>1. PICK i \in Read : ReadSector(i)
    BY <1>2
  <2>2. UNCHANGED <<medium, latest, seen>> /\ copy' = [copy EXCEPT ![i] = medium[i]]
    BY <2>1 DEF ReadSector, device, ghost
  <2>3. \A j \in Sector : copy'[j] <= medium[j]
    BY <2>2, Numbers DEF Order, TypeOK
  <2> QED  BY <1>0, <2>2, <2>3 DEF Order
<1>3. CASE Write
  BY <1>0, <1>3, Numbers DEF Write, Order, reader, ghost
<1>4. CASE \E i \in Sector : WriteSector(i)
  <2>1. PICK i \in Sector : WriteSector(i)
    BY <1>4
  <2>2. UNCHANGED <<latest, copy>> /\ medium' = [medium EXCEPT ![i] = latest]
        /\ seen' = seen \cup WholeIn(medium')
    BY <2>1 DEF WriteSector, reader
  <2>3. \A j \in Sector : copy[j] <= medium'[j] /\ medium'[j] <= latest
    BY <2>2, Numbers DEF Order, TypeOK
  <2>4. Read # {} => \A g \in seen' : g <= latest
    BY <2>2, <2>3, Numbers DEF Order, WholeIn, Whole
  <2> QED  BY <1>0, <2>2, <2>3, <2>4 DEF Order
<1>5. CASE UNCHANGED <<medium, latest, copy, seen>>
  BY <1>0, <1>5 DEF Order
<1> QED
  BY <1>1, <1>2, <1>3, <1>4, <1>5, NextCases
  DEF Failed, BootAccepted, FixupsAccepted, Answers, Passes, Idle, device, reader, ghost

\* The driver cannot make whole, under the reader, what the reader has begun to
\* miss: a sector once read is never older on the medium than in the copy.
LEMMA MissedInvariance ==
  ASSUME TypeOK, Spanned, Order, Missed, [Next]_vars
  PROVE  Missed'
<1>0. Read' = Read
  BY NextGiven, Frame
<1>1. CASE Opened
  BY <1>0, <1>1, Numbers DEF Opened, Missed, device, WholeIn, Whole
<1>2. CASE \E i \in Read : ReadSector(i)
  <2>1. PICK i \in Read : ReadSector(i)
    BY <1>2
  <2>2. UNCHANGED <<medium, seen>> /\ copy' = [copy EXCEPT ![i] = medium[i]]
        /\ pc = "record"
    BY <2>1 DEF ReadSector, device, ghost
  <2> QED  BY <1>0, <2>2, Numbers DEF Missed, TypeOK
<1>3. CASE \E i \in Sector : WriteSector(i)
  <2>1. PICK i \in Sector : WriteSector(i)
    BY <1>3
  <2>2. UNCHANGED <<copy, pc>> /\ medium' = [medium EXCEPT ![i] = latest]
        /\ seen' = seen \cup WholeIn(medium')
    BY <2>1 DEF WriteSector, reader
  <2>3. SUFFICES ASSUME pc \in {"boot", "record", "walk"}, NEW g \in Gens \ seen'
                 PROVE  \E j \in Read : copy[j] # g /\ medium'[j] # g
    BY <1>0, <2>2 DEF Missed
  <2>4. PICK j \in Read : copy[j] # g /\ medium[j] # g
    BY <2>2, <2>3 DEF Missed
  <2>5. PICK k \in Read : medium'[k] # g
    BY <2>2, <2>3 DEF WholeIn, Whole
  <2>6. CASE medium'[j] # g
    BY <2>4, <2>6
  <2>7. CASE medium'[j] = g
    <3>1. latest = g
      BY <2>2, <2>4, <2>7, Numbers DEF TypeOK
    <3>2. medium[k] # g /\ medium[k] <= g /\ copy[k] <= medium[k]
      BY <2>2, <2>5, <3>1, Numbers DEF Order, TypeOK
    <3>3. copy[k] # g
      BY <3>2, Numbers
    <3> QED  BY <2>5, <3>3
  <2> QED  BY <2>6, <2>7
<1>4. CASE UNCHANGED <<medium, copy, seen>>
           /\ (pc' \in {"boot", "record", "walk"} => pc \in {"boot", "record", "walk"})
  BY <1>0, <1>4 DEF Missed
<1> QED
  BY <1>1, <1>2, <1>3, <1>4, NextCases
  DEF Failed, BootAccepted, FixupsAccepted, Answers, Answer, Passes, Write, Idle,
      device, reader, ghost

LEMMA HeldInvariance ==
  ASSUME Held, Parsed, [Next]_vars
  PROVE  Held' /\ Parsed'
<1>0. Read' = Read /\ (Legible(boot)' <=> Legible(boot))
  BY NextGiven, Frame
<1>1. CASE FixupsAccepted
  BY <1>0, <1>1 DEF FixupsAccepted, FixupsHold, Held, Parsed
<1>2. CASE pc' # "walk" /\ (pc' = "record" => pc = "record" \/ Legible(boot))
  BY <1>0, <1>2 DEF Held, Parsed
<1>3. CASE UNCHANGED <<pc, copy>>
  BY <1>0, <1>3 DEF Held, Parsed
<1> QED
  BY <1>1, <1>2, <1>3, NextCases
  DEF Failed, Opened, BootAccepted, Answers, Answer, Passes, ReadSector, Write,
      WriteSector, Idle, reader

\* When the numbers can tell, what has been read is one generation, and it was
\* whole during the read.
LEMMA OneGeneration ==
  ASSUME TypeOK, Spanned, Missed, Held, pc = "walk", 1 \in Read, Close
  PROVE  /\ \A i \in Read : copy[i] = copy[1]
         /\ copy[1] \in Gens /\ copy[1] \in seen
<1>1. ASSUME NEW i \in Read  PROVE copy[i] = copy[1]
  <2>1. copy[i] - copy[1] < Usns /\ copy[1] - copy[i] < Usns
    BY <1>1 DEF Close
  <2>2. copy[i] % Usns = copy[1] % Usns
    BY <1>1 DEF Held, Usn
  <2>3. copy[i] \in Nat /\ copy[1] \in Nat /\ Usns \in Nat \ {0}
    BY <1>1, Numbers, Sizes
  <2> QED  BY <2>1, <2>2, <2>3, ModuloTells
<1>2. copy[1] \in Gens
  BY Numbers DEF Held
<1>3. copy[1] \in seen
  BY <1>1, <1>2 DEF Missed
<1> QED  BY <1>1, <1>2, <1>3

LEMMA FoundInvariance ==
  ASSUME TypeOK, Spanned, Order, Missed, Held, Found, [Next]_vars
  PROVE  Found'
<1>0. Read' = Read
  BY NextGiven, Frame
<1>1. CASE \E h : Passes(h)
  <2>1. PICK h : Passes(h)
    BY <1>1
  <2>2. UNCHANGED <<copy, says, pc>> /\ pc = "walk"
    BY <2>1 DEF Passes, device
  <2>3. CASE Wants(h) /\ h.type = "info"
    <3>1. off \div Cells + 1 \in Read
      BY <2>1, PassesIsSound
    <3>2. 1 \in Read
      <4>1. off \div Cells \in Nat
        BY Sizes DEF TypeOK
      <4> QED  BY <3>1, <4>1, Sizes DEF Read, Sector, Spanned
    <3>3. info' = IF FlagAt(off) THEN "dirty" ELSE "clean"
      BY <2>1, <2>3, Zenon DEF Passes
    <3>4. ASSUME Close  PROVE FlagAt(off) <=> says[copy[1]]
      <4>1. copy[off \div Cells + 1] = copy[1]
        BY <2>2, <3>1, <3>2, <3>4, OneGeneration
      <4> QED  BY <4>1, Zenon DEF FlagAt
    <3>5. Close => (says[copy[1]] <=> info' = "dirty")
      BY <3>3, <3>4
    <3> QED  BY <1>0, <2>2, <3>2, <3>5 DEF Found, Close
  <2>4. CASE ~(Wants(h) /\ h.type = "info")
    <3>1. info' = info
      BY <2>1, <2>4 DEF Passes
    <3> QED  BY <1>0, <2>2, <3>1 DEF Found, Close
  <2> QED  BY <2>3, <2>4
<1>2. CASE Write
  <2>1. UNCHANGED <<pc, info, copy>> /\ latest' = latest + 1
        /\ \E d \in BOOLEAN : says' = [says EXCEPT ![latest + 1] = d]
    BY <1>2 DEF Write, reader
  <2>2. ASSUME 1 \in Read, pc = "walk"  PROVE says'[copy[1]] = says[copy[1]]
    <3>1. copy[1] <= latest /\ copy[1] \in Nat /\ latest \in Nat
      <4>1. /\ 1 \in Sector /\ copy[1] <= medium[1] /\ medium[1] <= latest
        BY <2>2, Numbers DEF Order
      <4>2. copy[1] \in Nat /\ medium[1] \in Nat /\ latest \in Nat
        BY <4>1, Numbers
      <4> QED  BY <4>1, <4>2
    <3>2. copy[1] # latest + 1 /\ copy[1] \in Gens
      BY <2>2, <3>1, Numbers DEF Held
    <3> QED  BY <2>1, <3>2, Zenon DEF TypeOK
  <2> QED  BY <1>0, <2>1, <2>2 DEF Found, Close
<1>3. CASE pc' # "walk" \/ info' = "none"
  BY <1>3 DEF Found
<1>4. CASE UNCHANGED <<pc, info, copy, says>>
  BY <1>0, <1>4 DEF Found, Close
<1> QED
  BY <1>1, <1>2, <1>3, <1>4, NextCases
  DEF Failed, Opened, BootAccepted, FixupsAccepted, Answers, Answer, ReadSector,
      WriteSector, Idle, device, reader

\* What the walk answers was true of a whole generation, if the numbers can tell.
LEMMA AnswerIsTrue ==
  ASSUME TypeOK, Spanned, Missed, Held, Found, Answers, Close
  PROVE  \E g \in seen : says[g] <=> info = "dirty"
<1>1. pc = "walk" /\ info # "none"
  BY DEF Answers
<1>2. 1 \in Read /\ (says[copy[1]] <=> info = "dirty")
  BY <1>1 DEF Found
<1>3. copy[1] \in seen
  BY <1>1, <1>2, OneGeneration
<1> QED  BY <1>2, <1>3

LEMMA AnsweredInvariance ==
  ASSUME TypeOK, Spanned, Order, Missed, Held, Found, Answered, [Next]_vars
  PROVE  Answered'
<1>0. Read' = Read
  BY NextGiven, Frame
<1>1. CASE Answers
  <2>1. pc' \in {"open", "done"} /\ UNCHANGED <<copy, says, seen>> /\ Read # {}
    BY <1>1 DEF Answers, Answer, Found, device
  <2>2. answer' = "dirty" <=> info = "dirty"
    BY <1>1 DEF Answers, Answer
  <2>3. Close' => Close
    BY <1>0, <2>1 DEF Close
  <2> QED  BY <1>0, <1>1, <2>1, <2>2, <2>3, AnswerIsTrue DEF Answered
<1>2. CASE Write
  <2>1. UNCHANGED <<pc, answer, copy, seen>> /\ latest' = latest + 1
        /\ \E d \in BOOLEAN : says' = [says EXCEPT ![latest + 1] = d]
    BY <1>2 DEF Write, reader, ghost
  <2>2. ASSUME Read # {}, NEW g \in seen  PROVE says'[g] = says[g]
    <3>1. g # latest + 1
      BY <2>2, Numbers DEF Order
    <3> QED  BY <2>1, <2>2, <3>1, Zenon DEF TypeOK
  <2> QED  BY <1>0, <2>1, <2>2 DEF Answered, Close
<1>3. CASE answer' = "none"
  BY <1>3 DEF Answered
<1>4. CASE UNCHANGED <<pc, answer, copy, says>> /\ seen \subseteq seen'
  BY <1>0, <1>4 DEF Answered, Close
<1>5. CASE pc \notin {"open", "done"} /\ answer' = answer
  BY <1>5 DEF Answered
<1> QED
  BY <1>1, <1>2, <1>3, <1>4, <1>5, NextCases
  DEF Failed, Opened, BootAccepted, FixupsAccepted, Passes, ReadSector,
      WriteSector, Idle, device, reader, ghost

LEMMA SumsInvariance ==
  ASSUME TypeOK, Spanned, Missed, Held, Found, Sums, [Next]_vars
  PROVE  Sums'
<1>0. report' = report
  BY NextGiven, Frame
<1>1. CASE Answers
  <2>1. turn \in Nat /\ turn < Targets /\ exit = Running /\ turn' = turn + 1
    BY <1>1, Sizes DEF Answers, Answer, Sums, TypeOK
  <2>2. pc' # "done" => turn' < Targets /\ exit' = Running
    BY <1>1, <2>1, Sizes DEF Answers, Answer
  <2>3. exit' \in {0, 4} => turn' = Targets /\ exit' = worst'
    BY <1>1, <2>1, RunningIs DEF Answers, Answer
  <2>4. ASSUME ~mixed', ~report
        PROVE  (worst' = 4 => soiled' # {}) /\ (worst' = 0 => 0 .. turn \subseteq cleared')
    <3>1. ~mixed /\ Close
      <4>1. ~mixed /\ ~ \E i, j \in Read : copy[i] - copy[j] >= Usns
        BY <1>1, <2>4, Zenon DEF Answers, Answer
      <4> QED  BY <4>1, Numbers, Sizes DEF Close
    <3>2. PICK g \in seen : says[g] <=> info = "dirty"
      BY <1>1, <3>1, AnswerIsTrue
    <3>3. worst' = IF info = "dirty" THEN 4 ELSE worst
      BY <1>1, <2>4 DEF Answers, Answer, Worse
    <3>4. CASE info = "dirty"
      <4>1. turn \in soiled'
        BY <1>1, <3>2, <3>4 DEF Answers, Answer
      <4> QED  BY <3>3, <3>4, <4>1
    <3>5. CASE info # "dirty"
      <4>1. turn \in cleared' /\ cleared \subseteq cleared' /\ soiled \subseteq soiled'
        BY <1>1, <3>2, <3>5 DEF Answers, Answer
      <4>2. worst = 0 => 0 .. turn - 1 \subseteq cleared
        BY <2>4, <3>1 DEF Sums
      <4>3. worst = 0 => 0 .. turn \subseteq cleared'
        BY <2>1, <4>1, <4>2
      <4>4. worst = 4 => soiled # {}
        BY <2>4, <3>1 DEF Sums
      <4> QED  BY <3>3, <3>5, <4>1, <4>3, <4>4
    <3> QED  BY <3>4, <3>5
  <2> QED  BY <1>0, <2>1, <2>2, <2>3, <2>4 DEF Sums
<1>2. CASE exit' \in {1, 8} /\ pc' = "done" /\ UNCHANGED <<turn, worst, soiled, cleared, mixed>>
  BY <1>0, <1>2 DEF Sums
<1>3. CASE UNCHANGED <<turn, worst, exit, soiled, cleared, mixed>>
           /\ (pc = "done" => pc' = "done")
  BY <1>0, <1>3 DEF Sums
<1> QED
  BY <1>1, <1>2, <1>3, NextCases
  DEF Failed, Opened, BootAccepted, FixupsAccepted, Passes, ReadSector, Write,
      WriteSector, Idle, reader, ghost

\* The trail leads from the first attribute to where the walk stands.
LEMMA WalkedInvariance ==
  ASSUME TypeOK, Spanned, Walked, [Next]_vars
  PROVE  Walked'
<1>0. shape' = shape /\ End' = End
  BY NextGiven, Frame
<1>1. CASE FixupsAccepted
  <2>1. Trail({}, off)' /\ info' = "none"
    BY <1>0, <1>1 DEF FixupsAccepted, Trail, Closed
  <2> QED  BY <2>1 DEF Walked
<1>2. CASE \E h : Passes(h)
  <2>1. PICK h : Passes(h)
    BY <1>2
  <2>2. /\ off \in Offset /\ h.type \notin {"cut", "end"} /\ h.length \in 1 .. End - off
        /\ Wants(h) => h.inside /\ (h.type = "info" => ~h.short)
    BY <2>1, PassesIsSound
  <2>3. pc = "walk" /\ h = shape.attr[off] /\ off' = off + h.length
    BY <2>1 DEF Passes
  <2>4. PICK P \in SUBSET Offset : Trail(P, off) /\ (info # "none" => Flagged(P))
    BY <2>3 DEF Walked
  <2>5. PICK Q \in SUBSET Offset : Q = P \cup {off}
    BY <2>2
  <2>6. Trail(Q, off + h.length)
    <3>0. shape.used \in Nat /\ Sectors * Cells \in Nat
      BY Sizes DEF TypeOK, ShapeType
    <3>1. ASSUME NEW R \in SUBSET Offset, Closed(R)
          PROVE  /\ Q \subseteq R
                 /\ off + h.length < End /\ shape.attr[off + h.length].type # "end"
                      => off + h.length \in R
      <4>0. off \in Nat /\ End \in Nat
        BY <2>2, <3>0, EndIsInside DEF Offset
      <4>1. off < End
        BY <2>2, <4>0
      <4>2. off \in R /\ P \subseteq R
        BY <2>2, <2>3, <2>4, <3>1, <4>1 DEF Trail
      <4>3. \/ off + h.length \in R \/ off + h.length >= End
            \/ shape.attr[off + h.length].type = "end"
        BY <2>3, <3>1, <4>2 DEF Closed
      <4>4. off + h.length \in Nat
        BY <2>2, <4>0
      <4> QED  BY <2>5, <4>0, <4>2, <4>3, <4>4
    <3> QED  BY <2>2, <2>3, <2>4, <2>5, <3>1 DEF Trail
  <2>7. info' # "none" => Flagged(Q)
    <3>1. CASE Wants(h) /\ h.type = "info"
      <4>1. h.resident /\ h.inside /\ ~h.short
        BY <2>2, <3>1 DEF Wants
      <4> QED  BY <2>3, <2>5, <3>1, <4>1 DEF Flagged
    <3>2. CASE ~(Wants(h) /\ h.type = "info")
      <4>1. info' = info
        BY <2>1, <3>2 DEF Passes
      <4> QED  BY <2>4, <2>5, <4>1 DEF Flagged
    <3> QED  BY <3>1, <3>2
  <2>8. Trail(Q, off)' /\ (info' # "none" => Flagged(Q)')
    BY <1>0, <2>3, <2>6, <2>7 DEF Trail, Flagged, Closed
  <2> QED  BY <2>8 DEF Walked
<1>3. CASE pc' # "walk"
  BY <1>3 DEF Walked
<1>4. CASE UNCHANGED <<pc, off, info>>
  BY <1>0, <1>4 DEF Walked, Trail, Flagged, Closed
<1> QED
  BY <1>1, <1>2, <1>3, <1>4, NextCases
  DEF Failed, Opened, BootAccepted, Answers, Answer, ReadSector, Write,
      WriteSector, Idle, reader

\* A trail on which the flag was found, and whose end is reached, is a path.
LEMMA TrailIsPath ==
  ASSUME AtEnd, NEW P \in SUBSET Offset, Trail(P, off), Flagged(P), TypeOK, Spanned
  PROVE  Path(P)
<1>1. shape.first \in P
  BY DEF Trail, Flagged
<1>2. off \in Nat /\ End \in Nat
  BY EndIsInside DEF TypeOK, ShapeType
<1>3. off < End => shape.attr[off].type = "end"
  BY DEF AtEnd
<1>4. ASSUME NEW o \in P
      PROVE  /\ shape.attr[o].type \notin {"cut", "end"}
             /\ shape.attr[o].length \in 1 .. End - o
             /\ \/ o + shape.attr[o].length \in P \/ o + shape.attr[o].length >= End
                \/ shape.attr[o + shape.attr[o].length].type = "end"
  <2>1. CASE o + shape.attr[o].length = off
    BY <1>2, <1>3, <1>4, <2>1 DEF Trail
  <2>2. CASE o + shape.attr[o].length \in P
    BY <1>4, <2>2 DEF Trail
  <2> QED  BY <1>4, <2>1, <2>2 DEF Trail
<1>5. Closed(P)
  BY <1>1, <1>4 DEF Closed
<1>6. ASSUME NEW Q \in SUBSET P, Closed(Q) PROVE Q = P
  BY <1>6 DEF Trail
<1> QED  BY <1>5, <1>6 DEF Path

LEMMA GuessInvariance ==
  ASSUME TypeOK, Spanned, Parsed, Walked, NeverGuesses, [Next]_vars
  PROVE  NeverGuesses'
<1>0. shape' = shape /\ End' = End /\ (Legible(boot)' <=> Legible(boot))
  BY NextGiven, Frame
<1>1. CASE Answers
  <2>1. pc = "walk" /\ info # "none" /\ AtEnd
    BY <1>1 DEF Answers
  <2>2. PICK P \in SUBSET Offset : Trail(P, off) /\ Flagged(P)
    BY <2>1 DEF Walked
  <2>3. Path(P)
    BY <2>1, <2>2, TrailIsPath
  <2>4. Legible(boot)
    BY <2>1 DEF Parsed
  <2> QED  BY <1>0, <2>2, <2>3, <2>4 DEF NeverGuesses, Flagged, Path, Closed
<1>2. CASE answer' = "none"
  BY <1>2 DEF NeverGuesses
<1>3. CASE answer' = answer
  BY <1>0, <1>3 DEF NeverGuesses, Path, Closed
<1> QED
  BY <1>1, <1>2, <1>3, NextCases
  DEF Failed, Opened, BootAccepted, FixupsAccepted, Passes, ReadSector, Write,
      WriteSector, Idle, reader

-----------------------------------------------------------------------------
\* Each part of the invariant survives each step.
THEOREM Invariance == Inv /\ [Next]_vars => Inv'
<1> SUFFICES ASSUME Inv, [Next]_vars  PROVE Inv'
  OBVIOUS
<1>1. TypeOK'
  BY TypeInvariance DEF Inv
<1>2. Spanned'
  BY NextGiven, Frame DEF Inv, Spanned
<1>3. Order' /\ Missed' /\ Held' /\ Parsed'
  BY OrderInvariance, MissedInvariance, HeldInvariance DEF Inv
<1>4. Found' /\ Answered' /\ Sums'
  BY FoundInvariance, AnsweredInvariance, SumsInvariance DEF Inv
<1>5. Walked' /\ NeverGuesses'
  BY WalkedInvariance, GuessInvariance DEF Inv
<1> QED  BY <1>1, <1>2, <1>3, <1>4, <1>5 DEF Inv

LEMMA SpecInv == Spec => []Inv
BY InitInv, Invariance, PTL DEF Spec

\* The exit code of a command that has met no two sectors too far apart.
LEMMA CodeTells == Inv => ExitTells
<1> SUFFICES ASSUME Inv, ~mixed, ~report
             PROVE  (exit = 0 => cleared = 0 .. Targets - 1) /\ (exit = 4 => soiled # {})
  BY DEF ExitTells
<1>1. exit = 0 => 0 .. Targets - 1 \subseteq cleared
  BY DEF Inv, Sums
<1>2. cleared \subseteq 0 .. Targets - 1
  BY DEF Inv, TypeOK
<1>3. exit = 4 => soiled # {}
  BY DEF Inv, Sums
<1> QED  BY <1>1, <1>2, <1>3

\* The walk stays inside the record, whatever lengths it is told.
THEOREM VolumeTypes == Spec => []TypeOK
BY SpecInv, PTL DEF Inv

\* An answer was the state of the volume, whole, at some moment of the read,
\* for any number of sectors read in any order while any of them is written.
THEOREM VolumeAnswerWasTrue == Spec => []AnswerWasTrue
<1>1. Inv => AnswerWasTrue
  BY DEF Inv, Answered, AnswerWasTrue
<1> QED  BY <1>1, SpecInv, PTL

\* Exit 0 vouches for every target and exit 4 points at one, of any number.
THEOREM VolumeExitTells == Spec => []ExitTells
BY CodeTells, SpecInv, PTL

\* No answer comes of a boot sector or of a chain of attributes that is not
\* sound to its end, whatever the record holds.
THEOREM VolumeNeverGuesses == Spec => []NeverGuesses
<1>1. Inv => NeverGuesses
  BY DEF Inv
<1> QED  BY <1>1, SpecInv, PTL
-----------------------------------------------------------------------------
(***************************************************************************)
(* The command is bounded: it owes a number of steps that every step of    *)
(* the reader lowers and that neither the driver nor the bus can raise.    *)
(***************************************************************************)
Unread == {i \in Read : copy[i] = 0}

Ahead == IF off < End THEN End - off ELSE 0

CellsOfAll == Sectors * Cells

\* More than one target can ask for: its two opening steps, a read for each
\* sector, the fixups, an attribute in each cell, and the answer.
PerTarget == Sectors + CellsOfAll + 5

\* What is left of the target being read.
Left ==
  CASE pc = "open"   -> Sectors + CellsOfAll + 4
    [] pc = "boot"   -> Sectors + CellsOfAll + 3
    [] pc = "record" -> Cardinality(Unread) + CellsOfAll + 2
    [] pc = "walk"   -> Ahead + 1
    [] pc = "done"   -> 0

Owed == IF pc = "done" THEN 0 ELSE (Targets - turn) * PerTarget + Left

Shrinks ==
  /\ Owed \in Nat /\ Owed' \in Nat
  /\ Step => Owed' < Owed
  /\ Owed' <= Owed

\* The turn of a target pays for whatever is left of it.
LEMMA TargetCounts ==
  ASSUME NEW n \in Nat, NEW k \in Nat, n >= 1
  PROVE  /\ n * k \in Nat /\ (n - 1) * k \in Nat
         /\ (n - 1) * k = n * k - k
  OBVIOUS

LEMMA NextTargetPays ==
  ASSUME NEW n \in Nat, NEW k \in Nat, NEW l \in Nat, NEW m \in Nat,
         n >= 1, m < k
  PROVE  (n - 1) * k + m < n * k + l
<1>1. n * k \in Nat /\ (n - 1) * k \in Nat /\ (n - 1) * k = n * k - k
  BY TargetCounts
<1> QED  BY <1>1

LEMMA MoreByOne ==
  ASSUME NEW a \in Nat, NEW b \in Nat, a < b
  PROVE  a + 1 < b + 1
  OBVIOUS

LEMMA UnreadCounts ==
  ASSUME TypeOK, Spanned
  PROVE  /\ IsFiniteSet(Unread)
         /\ Cardinality(Unread) \in Nat /\ Cardinality(Unread) <= Sectors
<1>1. IsFiniteSet(Sector) /\ Cardinality(Sector) = Sectors
  BY Sizes, FS_Interval DEF Sector
<1>2. Unread \subseteq Sector
  BY DEF Unread, Read
<1> QED  BY <1>1, <1>2, FS_Subset, FS_CardinalityType, Sizes

\* What is left of a target is less than a whole one.
LEMMA LeftCounts ==
  TypeOK /\ Spanned =>
    /\ CellsOfAll \in Nat /\ PerTarget \in Nat
    /\ Ahead \in Nat /\ Ahead <= CellsOfAll
    /\ Left \in Nat /\ Left < PerTarget
<1> SUFFICES ASSUME TypeOK, Spanned
             PROVE  /\ CellsOfAll \in Nat /\ PerTarget \in Nat
                    /\ Ahead \in Nat /\ Ahead <= CellsOfAll
                    /\ Left \in Nat /\ Left < PerTarget
  OBVIOUS
<1>1. CellsOfAll \in Nat
  BY Sizes DEF CellsOfAll
<1>2. Ahead \in Nat /\ Ahead <= CellsOfAll
  <2>1. End \in Nat /\ End <= CellsOfAll
    BY EndIsInside DEF TypeOK, ShapeType, CellsOfAll
  <2>2. off \in Nat
    BY DEF TypeOK
  <2> QED  BY <1>1, <2>1, <2>2 DEF Ahead
<1>3. PerTarget \in Nat
  BY <1>1, Sizes DEF PerTarget
<1>4. Left \in Nat /\ Left < PerTarget
  BY <1>1, <1>2, Sizes, UnreadCounts DEF Left, PerTarget, TypeOK
<1> QED  BY <1>1, <1>2, <1>3, <1>4

LEMMA LeftCountsNext ==
  (TypeOK /\ Spanned)' =>
    /\ Ahead' \in Nat /\ Ahead' <= CellsOfAll
    /\ Left' \in Nat /\ Left' < PerTarget
<1>1. (TypeOK /\ Spanned)' =>
         (/\ CellsOfAll \in Nat /\ PerTarget \in Nat
          /\ Ahead \in Nat /\ Ahead <= CellsOfAll
          /\ Left \in Nat /\ Left < PerTarget)'
  BY LeftCounts, PTL
<1>2. CellsOfAll' = CellsOfAll /\ PerTarget' = PerTarget
  BY DEF CellsOfAll, PerTarget
<1> QED  BY <1>1, <1>2

LEMMA OwedCounts == TypeOK /\ Spanned => Owed \in Nat
<1> SUFFICES ASSUME TypeOK, Spanned  PROVE Owed \in Nat
  OBVIOUS
<1>1. Targets - turn \in Nat
  BY Sizes DEF TypeOK
<1>2. (Targets - turn) * PerTarget \in Nat
  BY <1>1, LeftCounts
<1> QED  BY <1>2, LeftCounts DEF Owed

\* On the same target, what is owed goes with what is left.
LEMMA SameTarget ==
  ASSUME TypeOK, Spanned, pc # "done", pc' # "done", turn' = turn,
         Left \in Nat, Left' \in Nat
  PROVE  /\ Left' < Left => Owed' < Owed
         /\ Left' = Left => Owed' = Owed
<1>1. (Targets - turn) * PerTarget \in Nat
  <2>1. Targets - turn \in Nat
    BY Sizes DEF TypeOK
  <2> QED  BY <2>1, LeftCounts
<1>2. PerTarget' = PerTarget
  BY DEF PerTarget, CellsOfAll
<1>3. Owed = (Targets - turn) * PerTarget + Left
  BY DEF Owed
<1>4. Owed' = (Targets - turn) * PerTarget + Left'
  BY <1>2 DEF Owed
<1> QED  BY <1>1, <1>3, <1>4

\* A step that ends the command pays everything.
LEMMA EndPays ==
  ASSUME TypeOK, Spanned, pc # "done", pc' = "done", turn < Targets
  PROVE  Owed' < Owed
<1>1. Targets - turn \in Nat /\ Targets - turn >= 1
  BY Sizes DEF TypeOK
<1>2. (Targets - turn) * PerTarget >= PerTarget
  <2> DEFINE n == Targets - turn
             k == PerTarget
  <2>1. n \in Nat /\ n >= 1 /\ k \in Nat
    BY <1>1, LeftCounts
  <2> HIDE DEF n, k
  <2>2. (n - 1) * k \in Nat /\ (n - 1) * k = n * k - k /\ n * k \in Nat
    BY <2>1, TargetCounts
  <2>3. n * k >= k
    BY <2>1, <2>2
  <2> QED  BY <2>3 DEF n, k
<1>3. PerTarget >= 1
  BY LeftCounts
<1>4. (Targets - turn) * PerTarget \in Nat
  BY <1>1, LeftCounts
<1>5. Owed = (Targets - turn) * PerTarget + Left /\ Owed' = 0
  BY DEF Owed
<1> QED  BY <1>2, <1>3, <1>4, <1>5, LeftCounts

\* The reader pays with each of its steps.
LEMMA StepPays ==
  ASSUME Inv, Inv', Step
  PROVE  Owed' < Owed
<1>0. /\ TypeOK /\ Spanned /\ TypeOK' /\ Spanned' /\ turn \in Nat
      /\ End' = End /\ Read' = Read /\ shape' = shape
      /\ (pc # "done" => turn < Targets)
  BY NextGiven, Frame DEF Inv, Sums, TypeOK, Next
<1>1. /\ Left \in Nat /\ Left' \in Nat /\ CellsOfAll \in Nat /\ Sectors \in Nat
      /\ CellsOfAll' = CellsOfAll
  BY <1>0, LeftCounts, LeftCountsNext, Sizes DEF CellsOfAll
<1>2. CASE Failed
  <2>1. pc # "done"
    BY DEF Step, Open, ReadFails, Reading, ReadBoot, ReadSector, ApplyFixups, Walk
  <2> QED  BY <1>0, <1>2, <2>1, EndPays DEF Failed
<1>3. CASE Opened
  BY <1>0, <1>1, <1>3, SameTarget DEF Opened, Left
<1>4. CASE BootAccepted
  <2>1. Cardinality(Unread') \in Nat /\ Cardinality(Unread') <= Sectors
    <3>1. copy' = copy
      BY <1>4 DEF BootAccepted
    <3>2. Unread' = Unread
      BY <1>0, <3>1 DEF Unread
    <3> QED  BY <1>0, <3>2, UnreadCounts
  <2>2. /\ Left = Sectors + CellsOfAll + 3
        /\ Left' = Cardinality(Unread') + CellsOfAll + 2
    BY <1>1, <1>4 DEF BootAccepted, Left
  <2>3. Left' < Left
    BY <1>1, <2>1, <2>2
  <2> QED  BY <1>0, <1>1, <1>4, <2>3, SameTarget DEF BootAccepted
<1>5. CASE \E i \in Read : ReadSector(i)
  <2>1. PICK i \in Read : ReadSector(i)
    BY <1>5
  <2>2. copy[i] = 0 /\ copy'[i] # 0 /\ i \in Sector
    <3>1. i \in Sector /\ medium[i] # 0 /\ copy' = [copy EXCEPT ![i] = medium[i]]
      BY <1>0, <2>1 DEF Read, TypeOK, Gens, ReadSector
    <3>2. copy'[i] = medium[i]
      BY <1>0, <3>1 DEF TypeOK
    <3> QED  BY <2>1, <3>1, <3>2 DEF ReadSector
  <2>3. Unread' = Unread \ {i}
    <3>1. \A j \in Sector : j # i => copy'[j] = copy[j]
      BY <1>0, <2>1, <2>2 DEF ReadSector, TypeOK
    <3> QED  BY <1>0, <2>2, <3>1 DEF Unread, Read
  <2>4. i \in Unread /\ IsFiniteSet(Unread) /\ Cardinality(Unread) \in Nat
    BY <1>0, <2>1, <2>2, UnreadCounts DEF Unread
  <2>5. Cardinality(Unread') = Cardinality(Unread) - 1
    BY <2>3, <2>4, FS_RemoveElement
  <2>6. /\ Left = Cardinality(Unread) + CellsOfAll + 2
        /\ Left' = Cardinality(Unread') + CellsOfAll + 2
        /\ pc = "record" /\ pc' = "record" /\ turn' = turn
    BY <1>1, <2>1 DEF ReadSector, Left
  <2>7. Left' < Left
    BY <1>1, <2>4, <2>5, <2>6
  <2> QED  BY <1>0, <1>1, <2>6, <2>7, SameTarget
<1>6. CASE FixupsAccepted
  <2>1. Ahead' \in Nat /\ Ahead' <= CellsOfAll
    BY <1>0, LeftCountsNext
  <2>2. Cardinality(Unread) \in Nat
    BY <1>0, UnreadCounts
  <2>3. /\ Left = Cardinality(Unread) + CellsOfAll + 2
        /\ Left' = Ahead' + 1
        /\ pc = "record" /\ pc' = "walk" /\ turn' = turn
    BY <1>6 DEF FixupsAccepted, Left
  <2>4. Left' < Left
    BY <1>1, <2>1, <2>2, <2>3
  <2> QED  BY <1>0, <1>1, <2>3, <2>4, SameTarget
<1>7. CASE \E h : Passes(h)
  <2>1. PICK h : Passes(h)
    BY <1>7
  <2>2. off \in Nat /\ End \in Nat /\ off < End /\ h.length \in 1 .. End - off
    BY <1>0, <2>1, PassesIsSound, EndIsInside DEF TypeOK, ShapeType
  <2>3. off' = off + h.length /\ pc = "walk" /\ pc' = "walk" /\ turn' = turn
    BY <2>1 DEF Passes
  <2>4. Ahead \in Nat /\ Ahead' \in Nat /\ Ahead' < Ahead
    BY <1>0, <2>2, <2>3 DEF Ahead
  <2>5. Left = Ahead + 1 /\ Left' = Ahead' + 1
    BY <2>3 DEF Left
  <2>6. Left' < Left
    BY <2>4, <2>5, MoreByOne
  <2> QED  BY <1>0, <1>1, <2>3, <2>6, SameTarget
<1>8. CASE Answers
  <2>1. pc = "walk" /\ turn' = turn + 1 /\ pc' \in {"open", "done"}
    BY <1>8 DEF Answers, Answer
  <2>2. CASE pc' = "done"
    BY <1>0, <2>1, <2>2, EndPays
  <2>3. CASE pc' = "open"
    <3> DEFINE n == Targets - turn
               k == PerTarget
    <3>1. n \in Nat /\ n >= 1 /\ k \in Nat /\ Left' \in Nat /\ Left' < k
      <4>1. Left' < PerTarget /\ PerTarget \in Nat
        BY <1>0, LeftCounts, LeftCountsNext
      <4> QED  BY <1>0, <1>1, <2>1, <4>1, Sizes
    <3>2. Owed = n * k + Left
      BY <2>1 DEF Owed
    <3>3. Owed' = (n - 1) * k + Left'
      <4>1. Targets - turn' = n - 1 /\ PerTarget' = k
        BY <1>0, <2>1, Sizes DEF PerTarget, CellsOfAll
      <4> QED  BY <2>3, <4>1 DEF Owed
    <3> HIDE DEF n, k
    <3> QED  BY <1>1, <3>1, <3>2, <3>3, NextTargetPays
  <2> QED  BY <2>1, <2>2, <2>3
<1> QED  BY <1>2, <1>3, <1>4, <1>5, <1>6, <1>7, <1>8, StepCases

\* What the driver and the bus do is not in what the reader owes.
LEMMA OthersOweNothing ==
  ASSUME UNCHANGED <<given, reader>>
  PROVE  Owed' = Owed
<1>1. End' = End /\ Read' = Read
  BY Frame
<1>2. pc' = pc /\ turn' = turn /\ copy' = copy /\ off' = off
  BY DEF reader
<1>3. Unread' = Unread /\ Ahead' = Ahead
  BY <1>1, <1>2 DEF Unread, Ahead
<1>4. Left' = Left
  BY <1>2, <1>3 DEF Left, CellsOfAll
<1> QED  BY <1>2, <1>4 DEF Owed, PerTarget, CellsOfAll

LEMMA NextShrinks == Inv /\ Inv' /\ [Next]_vars => Shrinks
<1> SUFFICES ASSUME Inv, Inv', [Next]_vars  PROVE Shrinks
  OBVIOUS
<1>1. Owed \in Nat /\ Owed' \in Nat
  <2>1. (TypeOK /\ Spanned)' => (Owed \in Nat)'
    BY OwedCounts, PTL
  <2> QED  BY <2>1, OwedCounts DEF Inv
<1>2. CASE Step
  <2>1. Owed' < Owed
    BY <1>2, StepPays
  <2> QED  BY <1>1, <2>1 DEF Shrinks
<1>3. CASE ~Step
  <2>1. UNCHANGED <<given, reader>>
    BY <1>3 DEF Next, Write, WriteSector, Unplug, Replug, vars
  <2> QED  BY <1>1, <1>3, <2>1, OthersOweNothing DEF Shrinks
<1> QED  BY <1>2, <1>3

\* The command owes a number of steps that each of its own lowers and that no
\* rewriting of the record, and nothing on the bus, can raise: a driver that
\* writes for ever cannot keep it, which with the fairness of FairSpec is Ends.
THEOREM VolumeIsBounded == Spec => [][Shrinks]_vars
<1>1. Inv /\ Inv' /\ [Next]_vars => [Shrinks]_vars
  BY NextShrinks
<1> QED  BY <1>1, SpecInv, Invariance, PTL DEF Spec
=============================================================================
