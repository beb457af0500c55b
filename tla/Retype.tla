------------------------------- MODULE Retype -------------------------------
(***************************************************************************)
(* iodd retype (cmd/retype.rs): the same stem under .vhd and .rmd.  The    *)
(* device shows the guest a .vhd without its last 512 bytes and a .rmd     *)
(* whole, so going to .rmd cuts the file by one sector, in place, and then *)
(* renames it.  Lengths are counted in sectors of 512 bytes.               *)
(***************************************************************************)
EXTENDS Naturals, FiniteSets

CONSTANTS
  Runs,        \* invocations of retype
  MaxLength,   \* longest image considered
  Weathers     \* what may go wrong together: sets of FaultKinds

\* overlap: the operator starts a retype before the last one has ended.
FaultKinds == {"fail", "kill", "power", "intruder", "overlap"}

\* Not both of the last two: a retype that outlives another one would take the
\* intruder's file for the image, and rename it over the image.
ASSUME RetypeAssumption ==
  /\ IsFiniteSet(Runs)
  /\ MaxLength \in Nat
  /\ Weathers \subseteq SUBSET FaultKinds
  /\ \A w \in Weathers : "intruder" \notin w \/ "overlap" \notin w

Exts  == {"vhd", "rmd"}
Files == {"image", "other"}    \* other: a file some other program puts there
NoFile == "none"

Other(e) == IF e = "vhd" THEN "rmd" ELSE "vhd"

VARIABLES
  line,     \* the command line of each run: path's extension, --to, --force
  pc,       \* the next step of each run
  result,   \* what each run returned
  size,     \* the length each run read
  handle,   \* the file each run opened
  at,       \* which file each of the two names stands for
  len,      \* length of each file, in sectors
  kept, stored,  \* at and len as the medium has them
  promised,      \* history: the guest's disk, as far as --force left it alone
  weather        \* what may go wrong in this behaviour

given  == <<line, weather>>
run    == <<given, pc, result, size, handle>>
vars   == <<run, at, len, kept, stored, promised>>

Active == {"stat", "open", "truncate", "sync", "rename"}

Visible(f, names, lens) ==
  IF names["vhd"] = f THEN IF lens[f] = 0 THEN 0 ELSE lens[f] - 1 ELSE lens[f]

Goto(r, l) == pc' = [pc EXCEPT ![r] = l] /\ UNCHANGED result

Return(r, e) ==
  /\ pc' = [pc EXCEPT ![r] = "done"]
  /\ result' = [result EXCEPT ![r] = e]

\* A system call on the file or its name that does not succeed.
Failed(r) ==
  /\ "fail" \in weather
  /\ Return(r, "Io")

-----------------------------------------------------------------------------
\* Everything up to target.exists().
Check(r) ==
  LET from == line[r].path
      to   == line[r].to
  IN  /\ pc[r] = "start"
      /\ "overlap" \in weather \/ \A q \in Runs : pc[q] \notin Active
      /\ \/ at[from] = NoFile /\ Return(r, "Io")
         \/ at[from] # NoFile /\ from = to /\ Return(r, "Ok")
         \/ at[from] # NoFile /\ from # to /\ at[to] # NoFile
              /\ Return(r, "TargetExists")
         \/ at[from] # NoFile /\ from # to /\ at[to] = NoFile /\ Goto(r, "stat")
      /\ UNCHANGED <<given, size, handle, at, len, kept, stored, promised>>

\* Mutant: no refusal of a file shorter than a footer.
CuttableAlways(n) == TRUE

Cuttable(n) == n > 0

\* metadata(path).len(), and the refusals that follow from it.
Stat(r) ==
  LET f == at[line[r].path]
  IN  /\ pc[r] = "stat"
      /\ \/ f = NoFile /\ Return(r, "Io") /\ UNCHANGED size
         \/ Failed(r) /\ UNCHANGED size
         \/ /\ f # NoFile
            /\ size' = [size EXCEPT ![r] = len[f]]
            /\ \/ line[r].to = "rmd" /\ ~Cuttable(len[f]) /\ Return(r, "Usage")
               \/ line[r].to = "rmd" /\ Cuttable(len[f]) /\ Goto(r, "open")
               \/ line[r].to = "vhd" /\ ~line[r].force /\ Return(r, "Usage")
               \/ line[r].to = "vhd" /\ line[r].force /\ Goto(r, "rename")
      /\ UNCHANGED <<given, handle, at, len, kept, stored, promised>>

Open(r) ==
  LET f == at[line[r].path]
  IN  /\ pc[r] = "open"
      /\ \/ f = NoFile /\ Return(r, "Io") /\ UNCHANGED handle
         \/ Failed(r) /\ UNCHANGED handle
         \/ /\ f # NoFile
            /\ handle' = [handle EXCEPT ![r] = f]
            /\ Goto(r, "truncate")
      /\ UNCHANGED <<given, size, at, len, kept, stored, promised>>

\* Mutant: the footer is taken off twice.
CutTwice(n) == IF n > 1 THEN n - 2 ELSE 0

Cut(n) == n - 1

\* set_len(size - 512), on the length read before.
Truncate(r) ==
  /\ pc[r] = "truncate"
  /\ \/ /\ len' = [len EXCEPT ![handle[r]] = Cut(size[r])]
        /\ Goto(r, "sync")
     \/ Failed(r) /\ UNCHANGED len
  /\ UNCHANGED <<given, size, handle, at, kept, stored, promised>>

SyncAll(r) ==
  /\ pc[r] = "sync"
  /\ \/ /\ stored' = [stored EXCEPT ![handle[r]] = len[handle[r]]]
        /\ Goto(r, "rename")
     \/ Failed(r) /\ UNCHANGED stored
  /\ UNCHANGED <<given, size, handle, at, len, kept, promised>>

\* Mutant: the old name is dropped before the new one is set.
MovedLate(names, from) ==
  LET gone == [names EXCEPT ![from] = NoFile]
  IN  [gone EXCEPT ![Other(from)] = gone[from]]

Moved(names, from) ==
  [names EXCEPT ![Other(from)] = names[from], ![from] = NoFile]

\* rename(2), which replaces whatever has the name by now.  No fsync follows.
Rename(r) ==
  LET from == line[r].path
  IN  /\ pc[r] = "rename"
      /\ \/ /\ at[from] # NoFile
            /\ at' = Moved(at, from)
            /\ promised' = IF line[r].to = "vhd" /\ at[from] = "image"
                             THEN Visible("image", at', len) ELSE promised
            /\ Return(r, "Ok")
         \/ at[from] = NoFile /\ Return(r, "Io") /\ UNCHANGED <<at, promised>>
         \/ Failed(r) /\ UNCHANGED <<at, promised>>
      /\ UNCHANGED <<given, size, handle, len, kept, stored>>

Step(r) ==
  Check(r) \/ Stat(r) \/ Open(r) \/ Truncate(r) \/ SyncAll(r) \/ Rename(r)

-----------------------------------------------------------------------------
Kill(r) ==
  /\ "kill" \in weather
  /\ pc[r] \in Active
  /\ pc' = [pc EXCEPT ![r] = "dead"]
  /\ UNCHANGED <<given, result, size, handle, at, len, kept, stored, promised>>

\* Another program creates a file of its own under a free name.
Appear(e) ==
  /\ "intruder" \in weather
  /\ at[e] = NoFile
  /\ \A d \in Exts : at[d] # "other"
  /\ at' = [at EXCEPT ![e] = "other"]
  /\ UNCHANGED <<run, len, kept, stored, promised>>

\* The kernel writes names, or lengths, back when it likes.
WriteBack ==
  /\ "power" \in weather
  /\ \/ kept' = at /\ UNCHANGED stored
     \/ stored' = len /\ UNCHANGED kept
  /\ UNCHANGED <<run, at, len, promised>>

PowerLoss ==
  /\ "power" \in weather
  /\ at' = kept
  /\ len' = stored
  /\ pc' = [r \in Runs |-> IF pc[r] \in Active THEN "dead" ELSE pc[r]]
  /\ UNCHANGED <<given, result, size, handle, kept, stored, promised>>

Lines == [path : Exts, to : Exts, force : BOOLEAN]

Init ==
  /\ line \in [Runs -> Lines]
  /\ pc = [r \in Runs |-> "start"]
  /\ result = [r \in Runs |-> "none"]
  /\ size = [r \in Runs |-> 0]
  /\ handle = [r \in Runs |-> NoFile]
  /\ \E e \in Exts : at = [d \in Exts |-> IF d = e THEN "image" ELSE NoFile]
  /\ len \in [Files -> 0 .. MaxLength]
  /\ len["other"] = MaxLength
  /\ kept = at
  /\ stored = len
  /\ promised = Visible("image", at, len)
  /\ weather \in Weathers

Next ==
  \/ \E r \in Runs : Step(r) \/ Kill(r)
  \/ \E e \in Exts : Appear(e)
  \/ WriteBack
  \/ PowerLoss

Spec == Init /\ [][Next]_vars

-----------------------------------------------------------------------------
\* The types of the variables: no length is ever below zero.
TypeOK ==
  /\ line \in [Runs -> Lines]
  /\ pc \in [Runs -> Active \cup {"start", "done", "dead"}]
  /\ result \in [Runs -> {"none", "Ok", "Io", "Usage", "TargetExists"}]
  /\ size \in [Runs -> 0 .. MaxLength]
  /\ handle \in [Runs -> Files \cup {NoFile}]
  /\ at \in [Exts -> Files \cup {NoFile}]
  /\ kept \in [Exts -> Files \cup {NoFile}]
  /\ len \in [Files -> 0 .. MaxLength]
  /\ stored \in [Files -> 0 .. MaxLength]
  /\ promised \in 0 .. MaxLength
  /\ weather \in Weathers

Quiet == \A r \in Runs : pc[r] \notin Active

Kept == Quiet => Visible("image", at, len) >= promised

\* When nothing goes wrong, the guest sees its whole disk whenever no retype is
\* under way, but for the sector a forced .rmd -> .vhd hid, over any sequence of
\* retypes (SPEC.md: "preserving the guest-visible size").
GuestKeepsItsDisk == weather = {} => Kept

\* ... and when a system call fails, too.
FailureKeepsTheDisk == Kept

\* However retypes fail, are killed, lose power or are tried again, the image
\* has a name, now and after a power loss: it may be cut, it is never lost.
ImageIsNamed ==
  /\ \E e \in Exts : at[e] = "image"
  /\ \E e \in Exts : kept[e] = "image"

\* ... and each invocation of .vhd -> .rmd costs the guest at most one sector, even
\* one that cuts to a length which another has made out of date.
OneSectorEach ==
  Quiet =>
    Visible("image", at, len)
      + Cardinality({r \in Runs : pc[r] # "start" /\ line[r].to = "rmd"})
    >= promised
=============================================================================
