---------------------------- MODULE Doctor_proofs ----------------------------
(***************************************************************************)
(* What doctor reports, for every tree, every file and every limit.        *)
(***************************************************************************)
EXTENDS Doctor, FiniteSetTheorems, TLAPS

Verdicts == {"Mountable", "Warn", "WillNotMount", "WillNotMountMaybeUnlisted"}

\* An image of a type asked for, in a directory that can be listed.
Wanted(f) == Accepts(facts[f].ext) /\ {place[f], "top"} \cap barred = {}

\* A record is the file's own grade, or says that it could not be read.
Judged(f) ==
  \/ records[f] = "none"
  \/ Wanted(f) /\ records[f] = "unreadable"
  \/ Wanted(f) /\ records[f] = Grade(facts[f]) /\ f \notin barred

\* The directories named hold an image, and those reported held too much.
Traced ==
  /\ \A d \in imaged : \E f \in Files : place[f] = d /\ Wanted(f)
  /\ \A d \in full : Crowded(d)

\* What the walk has left behind has a record.
Recorded(f) ==
  f \notin todo /\ Walked(f) /\ Accepts(facts[f].ext) => records[f] # "none"

\* The end of the command: of one refused, of a device, of a walk.
Ended ==
  \/ (Unknown \/ root = "file") /\ exit = 1
  \/ ~Unknown /\ root = "device" /\ exit = VolumeCode
  \/ ~Unknown /\ root = "directory" /\ exit = ExitCode /\ todo = {} /\ seen = Finding

\* The three steps after the walk, each over what the one before it found.
Stage ==
  /\ pc \in {"start", "walk", "volume", "sum", "done"}
  /\ pc \in {"walk", "volume", "sum"} => ~Unknown /\ root = "directory"
  /\ pc \in {"volume", "sum"} => todo = {}
  /\ pc = "sum" => seen = Finding
  /\ IF pc = "done" THEN Ended ELSE exit = Running

Inv == TypeOK /\ Stage /\ Traced /\ \A f \in Files : Judged(f) /\ Recorded(f)

-----------------------------------------------------------------------------
\* A grade is one of the four verdicts.
LEMMA GradeType ==
  ASSUME NEW f \in Facts
  PROVE  Grade(f) \in Verdicts
  BY DEF Grade, GradeIso, GradeRaw, GradeVhdFamily, Soft, Verdicts

\* The exit code is one of three.
LEMMA ExitCodeType == ExitCode \in {0, 1, 4}
  BY DEF ExitCode

\* ... and of a device, one of four.
LEMMA VolumeCodeType == VolumeCode \in {0, 1, 4, 8}
  BY DEF VolumeCode

\* For a disk image with a map, doctor and verify reject the same files.
LEMMA SameGates ==
  ASSUME NEW f \in Facts, f.ext \in {"vhd", "vmdk", "rmd"}, f.runs > 0
  PROVE  IsFailure(Grade(f)) <=> VerifyCode(f, FALSE) \in {4, 5}
<1>1. /\ f.sparse \in BOOLEAN /\ f.empty \in BOOLEAN /\ f.runs \in Nat
      /\ f.empty => f.runs = 0
  BY FragmentsAssumption DEF Facts
<1>2. CASE f.ext = "rmd"
  BY <1>1, <1>2 DEF Grade, GradeRaw, RawGate, Soft, IsFailure, VerifyCode
<1>3. CASE f.ext \in {"vhd", "vmdk"}
  BY <1>1, <1>3 DEF Grade, GradeVhdFamily, DiskGate, Soft, IsFailure, VerifyCode
<1> QED
  BY <1>2, <1>3

\* ... and find the same fault with the same files, containers aside.
LEMMA SameFindings ==
  ASSUME NEW f \in Facts, f.ext \in {"vhd", "vmdk"}, f.runs > 0, ~f.container
  PROVE  Grade(f) = "Mountable" <=> VerifyCode(f, TRUE) = 0
<1>1. /\ f.sparse \in BOOLEAN /\ f.empty \in BOOLEAN /\ f.runs \in Nat
      /\ f.empty => f.runs = 0
  BY FragmentsAssumption DEF Facts
<1> QED
  BY <1>1 DEF Grade, GradeVhdFamily, DiskGate, Soft, VerifyCode, Findings

\* The engine's verify and iodd's give one code to a file with a map and no
\* uninitialized extents.
LEMMA SameCodes ==
  ASSUME NEW f \in Facts, f.runs > 0, ~f.unwritten
  PROVE  EngineCode(f) = VerifyCode(f, FALSE)
<1>1. /\ f.sparse \in BOOLEAN /\ f.empty \in BOOLEAN /\ f.runs \in Nat
      /\ f.empty => f.runs = 0
  BY FragmentsAssumption DEF Facts
<1> QED
  BY <1>1 DEF EngineCode, VerifyCode

-----------------------------------------------------------------------------
\* The invariant holds before the walk.
LEMMA InitInv == Init => Inv
<1> SUFFICES ASSUME Init PROVE Inv
  OBVIOUS
<1>1. TypeOK
  BY DoctorAssumption DEF Init, TypeOK, Policies, Running
<1>2. Stage
  BY DEF Init, Stage, Running
<1>3. \A f \in Files : Judged(f) /\ Recorded(f)
  BY DEF Init, Judged, Recorded
<1>4. Traced
  BY DEF Init, Traced
<1> QED
  BY <1>1, <1>2, <1>3, <1>4 DEF Inv

\* What the tree says does not change with what is left of it.
LEMMA TracedKeeps ==
  ASSUME Traced, UNCHANGED <<tree, imaged, full>>
  PROVE  Traced'
<1>1. \A f : Wanted(f)' <=> Wanted(f)
  BY DEF Wanted, Accepts, tree
<1>2. \A d : Crowded(d)' <=> Crowded(d)
  BY DEF Crowded, Accepts, tree
<1> QED
  BY <1>1, <1>2 DEF Traced, tree

\* A directory holds no more than it did when the walk began.
LEMMA FullIsCrowded ==
  ASSUME Inv, NEW d \in Overfull
  PROVE  Crowded(d)
<1> DEFINE now   == {f \in there : place[f] = d}
           first == {f \in Files : place[f] = d}
           dirs  == IF d = "top" THEN 1 ELSE 0
<1>1. now \subseteq first /\ IsFiniteSet(first)
  BY DoctorAssumption, FS_Subset DEF Inv, TypeOK
<1>2. Cardinality(now) <= Cardinality(first) /\ Cardinality(first) \in Nat
      /\ Cardinality(now) \in Nat
  BY <1>1, FS_Subset, FS_CardinalityType
<1>3. Cardinality(now) + dirs > MaxItems /\ d \in imaged /\ d \notin barred
  BY DEF Overfull, Items
<1>4. Cardinality(first) + dirs > MaxItems
  BY <1>2, <1>3, DoctorAssumption
<1>5. {d, "top"} \cap barred = {} /\ \E f \in Files : place[f] = d /\ Accepts(facts[f].ext)
  BY <1>3 DEF Inv, Traced, Wanted
<1> QED
  BY <1>4, <1>5 DEF Crowded

\* A step that sets the record of one file, and no other.
LEMMA RecordKeeps ==
  ASSUME Inv, NEW f \in Files, NEW v \in Verdicts \cup {"unreadable"},
         v = "unreadable" \/ (v = Grade(facts[f]) /\ f \notin barred), Wanted(f),
         pc = "walk", there' \subseteq there, todo' = todo \ {f},
         records' = [records EXCEPT ![f] = v],
         imaged' = imaged \cup {place[f]},
         UNCHANGED <<tree, unlisted, pc, full, seen, exit>>
  PROVE  Inv'
<1>1. TypeOK'
  BY DEF Inv, TypeOK, tree, Verdicts
<1>2. Stage'
  BY DEF Inv, Stage, Unknown, tree
<1>3. ASSUME NEW g \in Files PROVE Judged(g)' /\ Recorded(g)'
  <2>1. records'[g] = IF g = f THEN v ELSE records[g]
    BY DEF Inv, TypeOK
  <2>2. Walked(g)' => Walked(g)
    BY DEF Walked, tree
  <2>3. v # "none"
    BY DEF Verdicts
  <2> QED
    BY <2>1, <2>2, <2>3 DEF Inv, Judged, Recorded, Wanted, tree, Accepts
<1>4. Traced'
  <2>1. \A g : Wanted(g)' <=> Wanted(g)
    BY DEF Wanted, Accepts, tree
  <2>2. \A d : Crowded(d)' <=> Crowded(d)
    BY DEF Crowded, Accepts, tree
  <2> QED
    BY <2>1, <2>2 DEF Inv, Traced, tree
<1> QED
  BY <1>1, <1>2, <1>3, <1>4 DEF Inv

LEMMA WalkedIsWanted ==
  ASSUME Inv, NEW f \in Files, Walked(f), Accepts(facts[f].ext)
  PROVE  Wanted(f)
  BY DEF Inv, TypeOK, Walked, Wanted, Dirs

\* One entry of the walk.
LEMMA VisitInv ==
  ASSUME Inv, NEW f \in Files, Visit(f) \/ VisitGone(f) \/ VisitFails(f)
  PROVE  Inv'
<1>1. CASE Visit(f) /\ Walked(f) /\ Accepts(facts[f].ext)
  <2>1. Grade(facts[f]) \in Verdicts
    BY GradeType DEF Inv, TypeOK
  <2> DEFINE v == IF f \in barred THEN "unreadable" ELSE Grade(facts[f])
  <2>2. /\ v \in Verdicts \cup {"unreadable"}
        /\ v = "unreadable" \/ (v = Grade(facts[f]) /\ f \notin barred)
    BY <2>1
  <2>3. /\ pc = "walk" /\ todo' = todo \ {f} /\ there' \subseteq there
        /\ records' = [records EXCEPT ![f] = v]
        /\ imaged' = imaged \cup {place[f]}
        /\ UNCHANGED <<tree, unlisted, pc, full, seen, exit>>
    BY <1>1 DEF Visit
  <2>4. Wanted(f)
    BY <1>1, WalkedIsWanted
  <2> QED
    BY <2>2, <2>3, <2>4, RecordKeeps
<1>2. CASE Visit(f) /\ ~(Walked(f) /\ Accepts(facts[f].ext))
  <2>1. UNCHANGED <<tree, there, unlisted, pc, full, seen, exit, records, imaged>>
        /\ todo' = todo \ {f}
    BY <1>2 DEF Visit
  <2>2. TypeOK' /\ Stage'
    BY <1>2, <2>1 DEF Inv, TypeOK, Stage, Unknown, tree, Visit
  <2> QED
    BY <1>2, <2>1, <2>2, TracedKeeps DEF Inv, Judged, Recorded, Wanted, Walked, Accepts, tree
<1>3. CASE VisitGone(f)
  <2>1. /\ pc = "walk" /\ todo' = todo \ {f} /\ there' \subseteq there
        /\ records' = [records EXCEPT ![f] = "unreadable"]
        /\ imaged' = imaged \cup {place[f]}
        /\ UNCHANGED <<tree, unlisted, pc, full, seen, exit>>
    BY <1>3 DEF VisitGone
  <2>2. Wanted(f)
    BY <1>3, WalkedIsWanted DEF VisitGone
  <2> QED
    BY <2>1, <2>2, RecordKeeps
<1>4. CASE VisitFails(f)
  <2>1. UNCHANGED <<tree, there, pc, full, seen, exit, records, imaged>>
        /\ todo' = todo \ {f} /\ unlisted' = unlisted \cup {f} /\ pc = "walk"
    BY <1>4 DEF VisitFails
  <2>2. TypeOK' /\ Stage'
    BY <2>1 DEF Inv, TypeOK, Stage, Unknown, tree
  <2>3. ASSUME NEW g \in Files PROVE Judged(g)' /\ Recorded(g)'
    <3>1. Judged(g) /\ Recorded(g)
      BY DEF Inv
    <3>2. Judged(g)'
      BY <2>1, <3>1 DEF Judged, Wanted, Accepts, tree
    <3>3. Walked(g)' => Walked(g) /\ g # f
      BY <2>1 DEF Walked, tree
    <3>4. Recorded(g)'
      BY <2>1, <3>1, <3>3 DEF Recorded, Accepts, tree
    <3> QED
      BY <3>2, <3>4
  <2> QED
    BY <2>1, <2>2, <2>3, TracedKeeps DEF Inv
<1> QED
  BY <1>1, <1>2, <1>3, <1>4

\* The command line decides whether there is a walk at all.
LEMMA StartInv ==
  ASSUME Inv, Start
  PROVE  Inv'
<1>1. TypeOK'
  BY VolumeCodeType DEF Inv, TypeOK, Start, tree, Stage
<1>2. Stage'
  BY DEF Inv, Stage, Ended, Start, Unknown, VolumeCode, tree, TypeOK, Roots
<1>3. Traced'
  BY TracedKeeps DEF Inv, Start
<1> QED
  BY <1>1, <1>2, <1>3 DEF Inv, Judged, Recorded, Wanted, Walked, Accepts, Start, tree

\* The invariant is inductive.
LEMMA NextInv == Inv /\ [Next]_vars => Inv'
<1> SUFFICES ASSUME Inv, [Next]_vars PROVE Inv'
  OBVIOUS
<1>1. ASSUME NEW f \in Files, Visit(f) \/ VisitGone(f) \/ VisitFails(f) PROVE Inv'
  BY <1>1, VisitInv
<1>2. ASSUME NEW f \in Files, Remove(f) PROVE Inv'
  <2>1. TypeOK' /\ Stage'
    BY <1>2 DEF Inv, TypeOK, Stage, Unknown, Finding, Remove, tree
  <2> QED
    BY <1>2, <2>1, TracedKeeps
    DEF Inv, Judged, Recorded, Wanted, Walked, Accepts, Remove, tree
<1>3. CASE CheckDirectories
  <2>1. TypeOK' /\ Stage'
    BY <1>3 DEF Inv, TypeOK, Stage, Unknown, CheckDirectories, Overfull, tree
  <2>2. Traced'
    <3>1. \A d \in full' : Crowded(d)
      BY <1>3, FullIsCrowded DEF CheckDirectories
    <3>2. /\ \A f : Wanted(f)' <=> Wanted(f)
          /\ \A d : Crowded(d)' <=> Crowded(d)
      <4>1. \A f : Wanted(f)' <=> Wanted(f)
        BY <1>3 DEF Wanted, Accepts, CheckDirectories, tree
      <4>2. \A d : Crowded(d)' <=> Crowded(d)
        BY <1>3 DEF Crowded, Accepts, CheckDirectories, tree
      <4> QED
        BY <4>1, <4>2
    <3> QED
      BY <1>3, <3>1, <3>2 DEF Inv, Traced, CheckDirectories, tree
  <2> QED
    BY <1>3, <2>1, <2>2 DEF Inv, Judged, Recorded, Wanted, Walked, Accepts,
                             CheckDirectories, tree
<1>4. CASE GatherVolume
  <2>1. TypeOK' /\ Stage'
    BY <1>4 DEF Inv, TypeOK, Stage, Unknown, Finding, GatherVolume, tree
  <2> QED
    BY <1>4, <2>1, TracedKeeps
    DEF Inv, Judged, Recorded, Wanted, Walked, Accepts, GatherVolume, tree
<1>5. CASE Sum
  <2>1. TypeOK'
    BY <1>5, ExitCodeType DEF Inv, TypeOK, Sum, tree
  <2>2. Stage'
    BY <1>5 DEF Inv, Stage, Ended, Unknown, Finding, Sum, tree, ExitCode, Found
  <2> QED
    BY <1>5, <2>1, <2>2, TracedKeeps
    DEF Inv, Judged, Recorded, Wanted, Walked, Accepts, Sum, tree
<1>6. CASE UNCHANGED vars
  <2>1. TypeOK' /\ Stage'
    BY <1>6 DEF vars, tree, Inv, TypeOK, Stage, Ended, Unknown, Finding, VolumeCode,
                ExitCode, Found
  <2> QED
    BY <1>6, <2>1, TracedKeeps
    DEF vars, tree, Inv, Judged, Recorded, Wanted, Walked, Accepts
<1>7. CASE Start
  BY <1>7, StartInv
<1> QED
  BY <1>1, <1>2, <1>3, <1>4, <1>5, <1>6, <1>7 DEF Next

\* The invariant holds throughout a run of doctor.
THEOREM Invariance == Spec => []Inv
  BY InitInv, NextInv, PTL DEF Spec

-----------------------------------------------------------------------------
\* Every variable keeps its type, and every record is a verdict of the code.
THEOREM DoctorTypes == Spec => []TypeOK
<1>1. Inv => TypeOK
  BY DEF Inv
<1> QED
  BY Invariance, <1>1, PTL

\* Exit 0 clears every image the walk could reach, and a device only if it was
\* read.
THEOREM DoctorZeroIsClean == Spec => []ZeroIsClean
<1>1. ASSUME Inv, exit = 0 PROVE ZeroIsClean
  <2>1. Ended
    BY <1>1 DEF Inv, Stage, Running
  <2>2. CASE root = "device"
    BY <1>1, <2>1, <2>2 DEF Ended, VolumeCode, ZeroIsClean, Inv, TypeOK, Volumes
  <2>3. CASE root = "directory"
    <3>1. ExitCode = 0 /\ seen = Finding /\ todo = {}
      BY <1>1, <2>1, <2>3 DEF Ended
    <3>2. /\ seen # "dirty" /\ ~Found("unreadable")
          /\ policy.strict => ~Found("Warn")
          /\ \A f \in Files : ~IsFailure(records[f])
      BY <3>1 DEF ExitCode
    <3>3. volume # "dirty"
      BY <3>1, <3>2 DEF Finding
    <3>4. ASSUME NEW f \in Files, Walked(f), Accepts(facts[f].ext)
          PROVE  /\ f \notin barred
                 /\ records[f] \in {"Mountable", "Warn"}
                 /\ policy.strict => records[f] = "Mountable"
      <4>1. Judged(f) /\ records[f] # "none" /\ records[f] # "unreadable"
        BY <1>1, <3>1, <3>2, <3>4 DEF Inv, Recorded, Found
      <4>2. records[f] \in Verdicts
        BY <1>1, <4>1, GradeType DEF Inv, TypeOK, Judged
      <4> QED
        BY <3>2, <4>1, <4>2 DEF Judged, Verdicts, IsFailure, Found
    <3> QED
      BY <2>3, <3>3, <3>4 DEF ZeroIsClean
  <2>4. root \in Roots /\ root # "file"
    BY <1>1, <2>1 DEF Inv, TypeOK, Ended
  <2> QED
    BY <2>2, <2>3, <2>4 DEF Roots
<1>2. Inv => ZeroIsClean
  BY <1>1 DEF ZeroIsClean
<1> QED
  BY Invariance, <1>2, PTL

\* Exit 4 is a verdict on the volume, on an image that was opened and graded, or
\* under --strict on a directory that held too much, never on what could not be read.
THEOREM DoctorFourIsEarned == Spec => []FourIsEarned
<1>1. ASSUME Inv, exit = 4 PROVE FourIsEarned
  <2>1. Ended
    BY <1>1 DEF Inv, Stage, Running
  <2>2. CASE volume = "dirty"
    BY <2>2 DEF FourIsEarned
  <2>3. CASE volume # "dirty"
    <3>1. root = "directory" /\ ExitCode = 4 /\ seen # "dirty"
      BY <1>1, <2>1, <2>3 DEF Ended, VolumeCode, Finding
    <3>2. /\ ~Found("unreadable")
          /\ \/ policy.strict /\ (full # {} \/ Found("Warn"))
             \/ \E f \in Files : IsFailure(records[f])
      BY <3>1 DEF ExitCode
    <3>3. ASSUME NEW f \in Files, IsFailure(records[f]) \/ records[f] = "Warn"
          PROVE  Earned(f)
      BY <1>1, <3>3 DEF Inv, Judged, Wanted, Earned, IsFailure
    <3>4. \A d \in full : Crowded(d)
      BY <1>1 DEF Inv, Traced
    <3> QED
      BY <3>1, <3>2, <3>3, <3>4 DEF FourIsEarned, Found
  <2> QED
    BY <2>2, <2>3
<1>2. Inv => FourIsEarned
  BY <1>1 DEF FourIsEarned
<1> QED
  BY Invariance, <1>2, PTL

\* doctor and verify agree on what the device rejects.
THEOREM DoctorGatesAgree == Spec => []GatesAgree
<1>1. ASSUME Inv, NEW f \in Files, records[f] \notin {"none", "unreadable"},
             facts[f].ext \in {"vhd", "vmdk", "rmd"}, facts[f].runs > 0
      PROVE  IsFailure(records[f]) <=> VerifyCode(facts[f], FALSE) \in {4, 5}
  <2>1. facts[f] \in Facts /\ records[f] = Grade(facts[f])
    BY <1>1 DEF Inv, TypeOK, Judged
  <2> QED
    BY <1>1, <2>1, SameGates
<1>2. Inv => GatesAgree
  BY <1>1 DEF GatesAgree
<1> QED
  BY Invariance, <1>2, PTL

\* ... and on what is worth a warning.
THEOREM DoctorWarningsAgree == Spec => []WarningsAgree
<1>1. ASSUME Inv, NEW f \in Files, records[f] \notin {"none", "unreadable"},
             facts[f].ext \in {"vhd", "vmdk"}, facts[f].runs > 0, ~facts[f].container
      PROVE  records[f] = "Mountable" <=> VerifyCode(facts[f], TRUE) = 0
  <2>1. facts[f] \in Facts /\ records[f] = Grade(facts[f])
    BY <1>1 DEF Inv, TypeOK, Judged
  <2> QED
    BY <1>1, <2>1, SameFindings
<1>2. Inv => WarningsAgree
  BY <1>1 DEF WarningsAgree
<1> QED
  BY Invariance, <1>2, PTL

\* The two verify commands give the same codes, where they look at the same.
THEOREM DoctorEnginesAgree == Spec => []EnginesAgree
<1>1. Inv => EnginesAgree
  BY SameCodes DEF Inv, TypeOK, EnginesAgree
<1> QED
  BY Invariance, <1>1, PTL
-----------------------------------------------------------------------------
(***************************************************************************)
(* The order of a walk is that of the directory and nobody's choice.  As   *)
(* long as no file disappears and the walk meets no error, it makes no     *)
(* difference: the report is a function of the tree and the command line.  *)
(***************************************************************************)
Listed(f) == Walked(f) /\ Accepts(facts[f].ext)

\* The record that a file is due.
Due(f) ==
  IF ~Listed(f) THEN "none" ELSE IF f \in barred THEN "unreadable" ELSE Grade(facts[f])

DuePlaces(fs) == {place[f] : f \in {g \in fs : Listed(g)}}

DueFull ==
  {d \in DuePlaces(Files) : d \notin barred /\ Items(d) > MaxItems}

\* The exit code that the tree is due.
DueExit ==
  CASE volume = "dirty" -> 4
    [] volume # "dirty" /\ (\E f \in Files : Due(f) = "unreadable") -> 1
    [] OTHER ->
         IF \/ policy.strict /\ (DueFull # {} \/ \E f \in Files : Due(f) = "Warn")
            \/ \E f \in Files : IsFailure(Due(f))
         THEN 4 ELSE 0

\* Nothing has disappeared, and the walk has met no error.
Still == there = Files /\ unlisted = {}

\* How far the walk of a tree that stands still has come.
Steady ==
  Still =>
    /\ \A f \in Files : records[f] = IF f \in todo THEN "none" ELSE Due(f)
    /\ imaged = DuePlaces(Files \ todo)
    /\ pc \in {"volume", "sum"} => full = DueFull
    /\ pc = "done" /\ root = "directory" /\ ~Unknown => full = DueFull /\ todo = {}

\* What a walk that nothing disturbed has reported.
ReportOfTree ==
  Still /\ pc = "done" /\ root = "directory" /\ ~Unknown =>
    /\ exit = DueExit
    /\ full = DueFull
    /\ \A f \in Files : records[f] = Due(f)

LEMMA InitSteady == Init => Steady
<1> SUFFICES ASSUME Init PROVE Steady
  OBVIOUS
<1>1. \A f \in Files : records[f] = "none" /\ f \in todo
  BY DEF Init
<1>2. imaged = DuePlaces(Files \ todo)
  BY DEF Init, DuePlaces
<1> QED
  BY <1>1, <1>2 DEF Steady, Init

\* What is due does not change while the tree stands still.
LEMMA DueStays ==
  ASSUME UNCHANGED <<tree, there, unlisted>>
  PROVE  /\ \A f : Listed(f)' <=> Listed(f)
         /\ \A f : Due(f)' = Due(f)
         /\ \A fs : DuePlaces(fs)' = DuePlaces(fs)
         /\ DueFull' = DueFull
         /\ Unknown' <=> Unknown
<1>1. \A f : Listed(f)' <=> Listed(f)
  BY DEF tree, Listed, Walked, Accepts
<1>2. \A f : Due(f)' = Due(f)
  BY <1>1 DEF Due, tree
<1>3. \A fs : DuePlaces(fs)' = DuePlaces(fs)
  BY <1>1 DEF DuePlaces, tree
<1>4. DueFull' = DueFull
  BY <1>3 DEF DueFull, Items, tree
<1> QED
  BY <1>1, <1>2, <1>3, <1>4 DEF Unknown, tree

\* One entry of the walk of a tree that stands still.
LEMMA VisitSteady ==
  ASSUME Inv, Steady, NEW f \in Files, Visit(f), Still
  PROVE  Steady'
<1>1. /\ UNCHANGED <<tree, there, unlisted, pc, full>> /\ pc = "walk" /\ f \in todo
      /\ todo' = todo \ {f} /\ todo \subseteq Files
  BY DEF Visit, Inv, TypeOK
<1>2. /\ \A g \in Files : records[g] = IF g \in todo THEN "none" ELSE Due(g)
      /\ imaged = DuePlaces(Files \ todo)
  BY DEF Steady
<1>3. records' = [records EXCEPT ![f] = Due(f)]
  <2>1. records[f] = "none"
    BY <1>1, <1>2
  <2>2. records \in [Files -> {"none", "unreadable", "Mountable", "Warn",
                               "WillNotMount", "WillNotMountMaybeUnlisted"}]
    BY DEF Inv, TypeOK
  <2>3. CASE Listed(f)
    BY <2>3 DEF Visit, Listed, Due
  <2>4. CASE ~Listed(f)
    BY <2>1, <2>2, <2>4 DEF Visit, Listed, Due
  <2> QED
    BY <2>3, <2>4
<1>4. imaged' = DuePlaces(Files \ todo')
  <2>1. imaged' = IF Listed(f) THEN imaged \cup {place[f]} ELSE imaged
    BY DEF Visit, Listed
  <2>2. Files \ todo' = (Files \ todo) \cup {f}
    BY <1>1
  <2>3. DuePlaces(Files \ todo') =
          IF Listed(f) THEN DuePlaces(Files \ todo) \cup {place[f]}
                       ELSE DuePlaces(Files \ todo)
    BY <2>2 DEF DuePlaces
  <2> QED
    BY <1>2, <2>1, <2>3
<1>5. \A g \in Files : records'[g] = IF g \in todo' THEN "none" ELSE Due(g)
  BY <1>1, <1>2, <1>3 DEF Inv, TypeOK
<1>6. imaged' = DuePlaces(Files \ todo)'
  BY <1>1, <1>4, DueStays
<1> QED
  BY <1>1, <1>5, <1>6, DueStays DEF Steady

\* Every other step leaves the records alone.
LEMMA NextSteady == Inv /\ Steady /\ [Next]_vars => Steady'
<1> SUFFICES ASSUME Inv, Steady, [Next]_vars, Still' PROVE Steady'
  BY DEF Steady
<1>1. Still
  <2>1. there' \subseteq there /\ there \subseteq Files /\ unlisted \subseteq unlisted'
    BY DEF Next, Start, Visit, VisitGone, VisitFails, Remove, CheckDirectories,
           GatherVolume, Sum, vars, Inv, TypeOK
  <2> QED
    BY <2>1 DEF Still
<1>2. /\ \A f \in Files : records[f] = IF f \in todo THEN "none" ELSE Due(f)
      /\ imaged = DuePlaces(Files \ todo)
      /\ pc \in {"volume", "sum"} => full = DueFull
      /\ pc = "done" /\ root = "directory" /\ ~Unknown => full = DueFull /\ todo = {}
  BY <1>1 DEF Steady
<1>3. ASSUME NEW f \in Files, VisitGone(f) \/ VisitFails(f) \/ Remove(f) PROVE FALSE
  <2>1. f \notin there' \/ f \in unlisted'
    BY <1>3 DEF VisitGone, VisitFails, Remove, Walked
  <2> QED
    BY <2>1 DEF Still
<1>4. ASSUME NEW f \in Files, Visit(f) PROVE Steady'
  BY <1>1, <1>4, VisitSteady
<1>5. ASSUME UNCHANGED <<tree, there, unlisted, todo, records, imaged>>,
             pc' \in {"volume", "sum"} => full' = DueFull,
             pc' = "done" /\ root = "directory" /\ ~Unknown => full' = DueFull /\ todo = {}
      PROVE  Steady'
  <2>1. root' = root
    BY <1>5 DEF tree
  <2>2. DuePlaces(Files \ todo)' = DuePlaces(Files \ todo)
    BY <1>5, DueStays
  <2> QED
    BY <1>2, <1>5, <2>1, <2>2, DueStays DEF Steady
<1>6. CASE Start
  <2>1. UNCHANGED <<tree, there, unlisted, todo, records, imaged>> /\ pc' \in {"walk", "done"}
        /\ (pc' = "done" => Unknown \/ root # "directory")
    BY <1>6 DEF Start
  <2> QED
    BY <1>5, <2>1
<1>7. CASE CheckDirectories
  <2>1. UNCHANGED <<tree, there, unlisted, todo, records, imaged>> /\ pc' = "volume"
        /\ full' = Overfull /\ todo = {}
    BY <1>7 DEF CheckDirectories
  <2>2. imaged = DuePlaces(Files)
    BY <1>2, <2>1
  <2>3. Overfull = DueFull
    BY <2>2 DEF Overfull, DueFull
  <2> QED
    BY <1>5, <2>1, <2>3
<1>8. CASE GatherVolume
  <2>1. UNCHANGED <<tree, there, unlisted, todo, records, imaged, full>>
        /\ pc = "volume" /\ pc' = "sum"
    BY <1>8 DEF GatherVolume
  <2> QED
    BY <1>2, <1>5, <2>1
<1>9. CASE Sum
  <2>1. UNCHANGED <<tree, there, unlisted, todo, records, imaged, full>>
        /\ pc = "sum" /\ pc' = "done" /\ todo = {}
    BY <1>9 DEF Sum, Inv, Stage
  <2> QED
    BY <1>2, <1>5, <2>1
<1>10. CASE UNCHANGED vars
  <2>1. UNCHANGED <<tree, there, unlisted, todo, records, imaged, full, pc>>
    BY <1>10 DEF vars
  <2> QED
    BY <1>2, <1>5, <2>1
<1> QED
  BY <1>3, <1>4, <1>6, <1>7, <1>8, <1>9, <1>10 DEF Next

\* The report of a tree that nothing disturbs, by a walk that meets no error, does
\* not depend on the order in which the walk yields its entries: every record, every directory and the exit code
\* are what the tree and the command line make them.
THEOREM DoctorReportsTree == Spec => []ReportOfTree
<1>1. ASSUME Inv, Steady PROVE ReportOfTree
  <2> SUFFICES ASSUME Still, pc = "done", root = "directory", ~Unknown
               PROVE  /\ exit = DueExit
                      /\ full = DueFull
                      /\ \A f \in Files : records[f] = Due(f)
    BY DEF ReportOfTree
  <2>1. full = DueFull /\ todo = {} /\ \A f \in Files : records[f] = Due(f)
    BY <1>1 DEF Steady
  <2>2. exit = ExitCode /\ (seen = "dirty" <=> volume = "dirty")
    BY <1>1 DEF Inv, Stage, Ended, Finding
  <2>3. /\ \A v : Found(v) <=> \E f \in Files : Due(f) = v
        /\ (\E f \in Files : IsFailure(records[f])) <=> \E f \in Files : IsFailure(Due(f))
    BY <2>1 DEF Found
  <2>4. exit = DueExit
    BY <2>1, <2>2, <2>3 DEF ExitCode, DueExit
  <2> QED
    BY <2>1, <2>4
<1> QED
  BY InitInv, NextInv, InitSteady, NextSteady, <1>1, PTL DEF Spec

-----------------------------------------------------------------------------
\* The steps that doctor still owes: an entry each, and the stages.
Owed ==
  Cardinality(todo) +
    CASE pc = "start" -> 4 [] pc = "walk" -> 3 [] pc = "volume" -> 2 [] pc = "sum" -> 1
      [] pc = "done"  -> 0

DoctorStep ==
  \/ Start \/ CheckDirectories \/ GatherVolume \/ Sum
  \/ \E f \in Files : Visit(f) \/ VisitGone(f) \/ VisitFails(f)

Shrinks ==
  /\ Owed \in Nat /\ Owed' \in Nat
  /\ DoctorStep => Owed' < Owed
  /\ Owed' <= Owed

Owes == Cardinality(todo) \in Nat /\ Owed \in Nat

LEMMA OwedCounts == Inv => Owes
<1> SUFFICES ASSUME Inv PROVE Owes
  OBVIOUS
<1>1. Cardinality(todo) \in Nat
  BY DoctorAssumption, FS_Subset, FS_CardinalityType DEF Inv, TypeOK
<1> QED
  BY <1>1 DEF Owes, Owed, Inv, Stage

LEMMA NextShrinks == Inv /\ Inv' /\ [Next]_vars => Shrinks
<1> SUFFICES ASSUME Inv, Inv', [Next]_vars PROVE Shrinks
  OBVIOUS
<1> DEFINE n == Cardinality(todo)
<1>1. n \in Nat /\ Owed \in Nat
  BY OwedCounts DEF Owes
<1>2. Owed' \in Nat
  <2>1. Inv' => Owes'
    BY OwedCounts, PTL
  <2> QED
    BY <2>1 DEF Owes
<1>3. ASSUME NEW f \in Files, Visit(f) \/ VisitGone(f) \/ VisitFails(f)
      PROVE  Owed' < Owed
  <2>1. pc = "walk" /\ pc' = "walk" /\ f \in todo /\ todo' = todo \ {f}
    BY <1>3 DEF Visit, VisitGone, VisitFails
  <2>2. IsFiniteSet(todo)
    BY DoctorAssumption, FS_Subset DEF Inv, TypeOK
  <2>3. Cardinality(todo \ {f}) = n - 1
    BY <2>1, <2>2, FS_RemoveElement
  <2>4. Owed = n + 3 /\ Owed' = (n - 1) + 3
    BY <2>1, <2>3 DEF Owed
  <2> QED
    BY <1>1, <2>4
<1>4. ASSUME Start \/ CheckDirectories \/ GatherVolume \/ Sum PROVE Owed' < Owed
  <2>1. todo' = todo
    BY <1>4 DEF Start, CheckDirectories, GatherVolume, Sum
  <2>2. n' = n
    BY <2>1
  <2> HIDE DEF n
  <2>3. Owed = n + CASE pc = "start" -> 4 [] pc = "walk" -> 3 [] pc = "volume" -> 2
                     [] pc = "sum" -> 1 [] pc = "done"  -> 0
    BY DEF Owed, n
  <2>4. Owed' = n + CASE pc' = "start" -> 4 [] pc' = "walk" -> 3 [] pc' = "volume" -> 2
                      [] pc' = "sum" -> 1 [] pc' = "done"  -> 0
    BY <2>1 DEF Owed, n
  <2> QED
    BY <1>1, <1>4, <2>3, <2>4 DEF Start, CheckDirectories, GatherVolume, Sum
<1>5. ASSUME UNCHANGED <<pc, todo>> PROVE Owed' = Owed
  BY <1>5 DEF Owed
<1>6. DoctorStep \/ UNCHANGED <<pc, todo>>
  BY DEF Next, DoctorStep, Remove, vars
<1>7. DoctorStep => Owed' < Owed
  BY <1>3, <1>4 DEF DoctorStep
<1> HIDE DEF n
<1> QED
  BY <1>1, <1>2, <1>5, <1>6, <1>7 DEF Shrinks

\* An audit takes a step for each entry of the tree and four more at most, whatever
\* other programs remove meanwhile.
THEOREM DoctorIsBounded == Spec => [][Shrinks]_vars
<1>1. Inv /\ Inv' /\ [Next]_vars => [Shrinks]_vars
  BY NextShrinks
<1> QED
  BY InitInv, NextInv, <1>1, PTL DEF Spec
=============================================================================
