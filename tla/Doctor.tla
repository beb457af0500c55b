------------------------------- MODULE Doctor -------------------------------
(***************************************************************************)
(* iodd doctor (cmd/doctor.rs run): it walks a tree, grades every image it *)
(* finds, counts the entries of each directory that holds one, asks for    *)
(* the state of the volume, and sums all that up in one exit code.  The    *)
(* tree may change meanwhile, and parts of it cannot be read.  Given a     *)
(* block device instead, it reports the volume on it and nothing else.     *)
(***************************************************************************)
EXTENDS Verdict, FiniteSets

CONSTANTS
  Files,      \* the files of the tree
  FactSet,    \* what they may be
  MaxItems    \* entries of a directory that the device lists (32 in the code)

ASSUME DoctorAssumption ==
  IsFiniteSet(Files) /\ FactSet \subseteq Facts /\ MaxItems \in Nat

Dirs == {"top", "sub"}

VARIABLES
  facts, place,       \* each file, and the directory it is in
  there,              \* the files that exist
  barred,             \* files and directories that cannot be opened
  unlisted,           \* entries that the walk lost to an error
  policy, root,       \* the command line
  volume,             \* its state: "io" to an ordinary user, or "illegible"
  pc, todo,           \* the step, and the entries the walk has yet to yield
  records,            \* what was found of each file graded
  imaged,             \* directories that hold an image
  full,               \* directories found to hold too many entries
  seen,               \* what gather_volume found
  exit

Running == 255   \* the exit code of a run that has not ended

tree == <<facts, place, barred, policy, root, volume>>
vars == <<tree, there, unlisted, pc, todo, records, imaged, full, seen, exit>>

Policies == [strict : BOOLEAN, recursive : BOOLEAN,
             types : SUBSET (Recognized \cup {"txt"})]

Roots   == {"directory", "device", "file"}
Volumes == {"clean", "dirty", "illegible", "io"}

\* No --type means every recognized extension.
Accepts(x) == x \in Recognized /\ (policy.types = {} \/ x \in policy.types)

\* Can the walk see the entry at all?  An error of the walk is passed over, that
\* it cannot even list the root included.
Walked(f) ==
  /\ f \in there \ unlisted
  /\ "top" \notin barred
  /\ place[f] = "sub" => policy.recursive /\ "sub" \notin barred

\* The entries of a directory, its subdirectories included.
Items(d) == Cardinality({f \in there : place[f] = d}) + IF d = "top" THEN 1 ELSE 0

-----------------------------------------------------------------------------
Unknown == ~(policy.types \subseteq Recognized)

\* volume_only.
VolumeCode ==
  CASE volume = "clean" -> 0
    [] volume = "dirty" -> 4
    [] volume = "io"    -> 1
    [] OTHER            -> 8

\* The command line is looked at: the types, then the root.
Start ==
  /\ pc = "start"
  /\ \/ /\ ~Unknown /\ root = "directory"
        /\ pc' = "walk"
        /\ exit' = exit
     \/ /\ ~Unknown /\ root = "device"
        /\ pc' = "done"
        /\ exit' = VolumeCode
     \/ /\ Unknown \/ root = "file"
        /\ pc' = "done"
        /\ exit' = 1
  /\ UNCHANGED <<tree, there, unlisted, todo, records, imaged, full, seen>>

\* One entry of the walk: passed over, graded, or recorded as unreadable.
Visit(f) ==
  /\ pc = "walk"
  /\ f \in todo
  /\ todo' = todo \ {f}
  /\ \/ /\ ~Walked(f) \/ ~Accepts(facts[f].ext)
        /\ UNCHANGED <<records, imaged>>
     \/ /\ Walked(f) /\ Accepts(facts[f].ext)
        /\ imaged' = imaged \cup {place[f]}
        /\ records' = [records EXCEPT ![f] =
             IF f \in barred THEN "unreadable" ELSE Grade(facts[f])]
  /\ UNCHANGED <<tree, there, unlisted, pc, full, seen, exit>>

\* The file is removed between the entry of its directory and its opening.
VisitGone(f) ==
  /\ pc = "walk"
  /\ f \in todo
  /\ Walked(f) /\ Accepts(facts[f].ext)
  /\ todo' = todo \ {f}
  /\ there' = there \ {f}
  /\ imaged' = imaged \cup {place[f]}
  /\ records' = [records EXCEPT ![f] = "unreadable"]
  /\ UNCHANGED <<tree, unlisted, pc, full, seen, exit>>

\* filter_map(Result::ok): an entry that cannot be read from its directory, or
\* whose type cannot be told, leaves no trace.
VisitFails(f) ==
  /\ pc = "walk"
  /\ f \in todo
  /\ Walked(f) /\ Accepts(facts[f].ext)
  /\ todo' = todo \ {f}
  /\ unlisted' = unlisted \cup {f}
  /\ UNCHANGED <<tree, there, pc, records, imaged, full, seen, exit>>

\* Mutant: every directory is held to the limit.
OverfullAnywhere == {d \in Dirs : d \notin barred /\ Items(d) > MaxItems}

\* check_directory, of the directories that hold an image and can be listed.
Overfull == {d \in imaged : d \notin barred /\ Items(d) > MaxItems}

CheckDirectories ==
  /\ pc = "walk"
  /\ todo = {}
  /\ full' = Overfull
  /\ pc' = "volume"
  /\ UNCHANGED <<tree, there, unlisted, todo, records, imaged, seen, exit>>

\* gather_volume: no answer is no finding.
Finding == IF volume \in {"clean", "dirty"} THEN volume ELSE "none"

GatherVolume ==
  /\ pc = "volume"
  /\ seen' = Finding
  /\ pc' = "sum"
  /\ UNCHANGED <<tree, there, unlisted, todo, records, imaged, full, exit>>

Found(v) == \E f \in Files : records[f] = v

\* Mutant: an unreadable file is left out of the sum.
ExitCodeOfGraded ==
  IF seen = "dirty" \/ \E f \in Files : IsFailure(records[f]) THEN 4 ELSE 0

\* Mutant: an unreadable file counts as one that will not mount.
ExitCodeUnreadableIsFour ==
  IF seen = "dirty" \/ Found("unreadable")
     \/ (\E f \in Files : IsFailure(records[f]))
     \/ (policy.strict /\ (full # {} \/ Found("Warn")))
  THEN 4 ELSE 0

ExitCode ==
  CASE seen = "dirty" -> 4
    [] seen # "dirty" /\ Found("unreadable") -> 1
    [] OTHER ->
         IF \/ policy.strict /\ (full # {} \/ Found("Warn"))
            \/ \E f \in Files : IsFailure(records[f])
         THEN 4 ELSE 0

Sum ==
  /\ pc = "sum"
  /\ exit' = ExitCode
  /\ pc' = "done"
  /\ UNCHANGED <<tree, there, unlisted, todo, records, imaged, full, seen>>

\* Another program removes a file.
Remove(f) ==
  /\ pc # "done"
  /\ f \in there
  /\ there' = there \ {f}
  /\ UNCHANGED <<tree, unlisted, pc, todo, records, imaged, full, seen, exit>>

Init ==
  /\ facts \in [Files -> FactSet]
  /\ place \in [Files -> Dirs]
  /\ there = Files
  /\ barred \in SUBSET (Files \cup {"sub"}) \cup {{"top"}}
  /\ unlisted = {}
  /\ policy \in {p \in Policies : p.types \in {{}, {"vhd"}, {"vhd", "txt"}}}
  /\ root \in Roots /\ volume \in Volumes
  /\ pc = "start"
  /\ todo = Files
  /\ records = [f \in Files |-> "none"]
  /\ imaged = {} /\ full = {}
  /\ seen = "none"
  /\ exit = Running

Next ==
  \/ Start
  \/ \E f \in Files : Visit(f) \/ VisitGone(f) \/ VisitFails(f) \/ Remove(f)
  \/ CheckDirectories
  \/ GatherVolume
  \/ Sum

Spec == Init /\ [][Next]_vars

-----------------------------------------------------------------------------
\* The types of the variables: every recorded verdict is one of the code's.
TypeOK ==
  /\ facts \in [Files -> Facts]
  /\ place \in [Files -> Dirs]
  /\ there \subseteq Files /\ todo \subseteq Files /\ unlisted \subseteq Files
  /\ policy \in Policies /\ root \in Roots /\ volume \in Volumes
  /\ records \in [Files -> {"none", "unreadable", "Mountable", "Warn",
                            "WillNotMount", "WillNotMountMaybeUnlisted"}]
  /\ imaged \subseteq Dirs /\ full \subseteq imaged
  /\ exit \in {Running, 0, 1, 4, 8}

\* Exit 0 clears every image that the walk could reach and that is still there:
\* it was opened and graded, nothing of it keeps it from mounting, and the
\* volume, if its state could be read, will mount; of a device it says that it
\* was read.
ZeroIsClean ==
  exit = 0 =>
    /\ root # "file" /\ volume # "dirty"
    /\ root = "device" => volume = "clean"
    /\ \A f \in Files :
         root = "directory" /\ Walked(f) /\ Accepts(facts[f].ext) =>
           /\ f \notin barred
           /\ records[f] \in {"Mountable", "Warn"}
           /\ policy.strict => records[f] = "Mountable"

\* Was the report on f earned: an image of a type asked for, in a directory that
\* can be listed, which was opened and got the grade that is its own?
Earned(f) ==
  /\ Accepts(facts[f].ext)
  /\ {f, place[f], "top"} \cap barred = {}
  /\ records[f] = Grade(facts[f])

\* Did the directory of such an image hold too much, when the walk began?
Crowded(d) ==
  /\ {d, "top"} \cap barred = {}
  /\ \E f \in Files : place[f] = d /\ Accepts(facts[f].ext)
  /\ Cardinality({f \in Files : place[f] = d}) + (IF d = "top" THEN 1 ELSE 0) > MaxItems

\* Exit 4 is a verdict of the device on the volume, or on an image that was opened
\* and graded, or under --strict on a directory too full, and never comes of a
\* file that could not be read.
FourIsEarned ==
  exit = 4 =>
    \/ volume = "dirty"
    \/ /\ root = "directory" /\ ~Found("unreadable")
       /\ \/ \E f \in Files : Earned(f) /\ IsFailure(records[f])
          \/ /\ policy.strict
             /\ \/ \E f \in Files : Earned(f) /\ records[f] = "Warn"
                \/ \E d \in full : Crowded(d)

\* doctor and verify are two readings of the same two hard gates: for a disk
\* image with a readable map they agree on what the device rejects.
GatesAgree ==
  \A f \in Files :
    records[f] \notin {"none", "unreadable"} /\ facts[f].ext \in {"vhd", "vmdk", "rmd"}
      /\ facts[f].runs > 0
    => (IsFailure(records[f]) <=> VerifyCode(facts[f], FALSE) \in {4, 5})

\* ... and for a .vhd under --strict on what is worth a warning, but for the
\* containers, which only doctor looks for.
WarningsAgree ==
  \A f \in Files :
    records[f] \notin {"none", "unreadable"} /\ facts[f].ext \in {"vhd", "vmdk"}
      /\ facts[f].runs > 0 /\ ~facts[f].container
    => (records[f] = "Mountable" <=> VerifyCode(facts[f], TRUE) = 0)

\* The two verify commands give the same code to a file that has a map and no
\* uninitialized extents (main.rs of the engine promises it of all files, see
\* the README).
EnginesAgree ==
  \A f \in Files :
    records[f] \notin {"none", "unreadable"} /\ facts[f].runs > 0 /\ ~facts[f].unwritten
    => EngineCode(facts[f]) = VerifyCode(facts[f], FALSE)
=============================================================================
