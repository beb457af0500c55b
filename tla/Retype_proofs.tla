---------------------------- MODULE Retype_proofs ----------------------------
(***************************************************************************)
(* The image keeps its name through any number of retypes, overlapping,    *)
(* failing, killed and cut off by power losses; each of them costs the     *)
(* guest one sector at most; and undisturbed ones cost it nothing.         *)
(***************************************************************************)
EXTENDS Retype, FiniteSetTheorems, TLAPS

\* What a run has found out by the time it is at a step.
Reads ==
  \A r \in Runs :
    /\ pc[r] \in Active => line[r].to = Other(line[r].path)
    /\ pc[r] \in {"open", "truncate", "sync"} => line[r].to = "rmd"
    /\ pc[r] \in {"open", "truncate"} => size[r] > 0
    /\ pc[r] \in {"truncate", "sync"} => handle[r] \in Files

TInv == TypeOK /\ Reads

\* The types hold initially.
LEMMA InitTInv == Init => TInv
<1> SUFFICES ASSUME Init PROVE TInv
  OBVIOUS
<1>1. /\ line \in [Runs -> Lines] /\ weather \in Weathers
      /\ pc \in [Runs -> Active \cup {"start", "done", "dead"}]
      /\ result \in [Runs -> {"none", "Ok", "Io", "Usage", "TargetExists"}]
      /\ size \in [Runs -> 0 .. MaxLength]
      /\ handle \in [Runs -> Files \cup {NoFile}]
  BY RetypeAssumption DEF Init
<1>2. /\ at \in [Exts -> Files \cup {NoFile}]
      /\ kept \in [Exts -> Files \cup {NoFile}]
      /\ len \in [Files -> 0 .. MaxLength]
      /\ stored \in [Files -> 0 .. MaxLength]
  BY DEF Init, Files, Exts
<1>3. promised \in 0 .. MaxLength
  <2>1. len["image"] \in 0 .. MaxLength /\ promised = Visible("image", at, len)
    BY <1>2 DEF Init, Files
  <2> QED BY <2>1, RetypeAssumption DEF Visible
<1>4. Reads
  BY DEF Init, Reads, Active
<1> QED BY <1>1, <1>2, <1>3, <1>4 DEF TInv, TypeOK

\* Every step keeps the types and what a run has found out.
LEMMA NextTInv == TInv /\ [Next]_vars => TInv'
<1> SUFFICES ASSUME TInv, [Next]_vars PROVE TInv'
  OBVIOUS
<1> USE DEF TInv
<1>1. ASSUME NEW r \in Runs, Check(r) PROVE TInv'
  <2>1. /\ UNCHANGED <<given, size, handle, at, len, kept, stored, promised>>
        /\ \/ \E e \in {"Io", "Ok", "TargetExists"} : Return(r, e)
           \/ line[r].to # line[r].path /\ Goto(r, "stat")
    BY <1>1 DEF Check
  <2>2. line[r] \in Lines
    BY DEF TypeOK
  <2>3. CASE Goto(r, "stat") /\ line[r].to # line[r].path
    <3>1. line[r].to = Other(line[r].path)
      BY <2>2, <2>3 DEF Lines, Exts, Other
    <3> QED BY <2>1, <2>3, <3>1 DEF TypeOK, Reads, Goto, given, Active
  <2>4. ASSUME NEW e \in {"Io", "Ok", "TargetExists"}, Return(r, e) PROVE TInv'
    BY <2>1, <2>4 DEF TypeOK, Reads, Return, given, Active
  <2> QED BY <2>1, <2>3, <2>4
<1>2. ASSUME NEW r \in Runs, Stat(r) PROVE TInv'
  <2>1. UNCHANGED <<given, handle, at, len, kept, stored, promised>>
    BY <1>2 DEF Stat
  <2>2. CASE Return(r, "Io") /\ UNCHANGED size
    BY <2>1, <2>2 DEF TypeOK, Reads, Return, given, Active
  <2>3. CASE ~(Return(r, "Io") /\ UNCHANGED size)
    <3>1. PICK n : n = len[at[line[r].path]] /\ size' = [size EXCEPT ![r] = n]
      BY <1>2, <2>3 DEF Stat, Failed
    <3>2. n \in 0 .. MaxLength
      <4>1. at[line[r].path] \in Files
        BY <1>2, <2>3 DEF Stat, Failed, TypeOK, Lines
      <4> QED BY <3>1, <4>1 DEF TypeOK
    <3>3. pc[r] = "stat" /\ line[r].to = Other(line[r].path)
      BY <1>2 DEF Stat, Reads, Active
    <3>4. \/ Return(r, "Usage")
          \/ line[r].to = "rmd" /\ n > 0 /\ Goto(r, "open")
          \/ Goto(r, "rename")
      BY <1>2, <2>3, <3>1 DEF Stat, Cuttable, Failed
    <3>5. CASE Return(r, "Usage")
      BY <2>1, <3>1, <3>2, <3>3, <3>5 DEF TypeOK, Reads, Return, given, Active
    <3>6. CASE line[r].to = "rmd" /\ n > 0 /\ Goto(r, "open")
      BY <2>1, <3>1, <3>2, <3>3, <3>6 DEF TypeOK, Reads, Goto, given, Active
    <3>7. CASE Goto(r, "rename")
      BY <2>1, <3>1, <3>2, <3>3, <3>7 DEF TypeOK, Reads, Goto, given, Active
    <3> QED BY <3>4, <3>5, <3>6, <3>7
  <2> QED BY <2>2, <2>3
<1>3. ASSUME NEW r \in Runs, Open(r) PROVE TInv'
  <2>1. UNCHANGED <<given, size, at, len, kept, stored, promised>>
    BY <1>3 DEF Open
  <2>2. CASE Return(r, "Io") /\ UNCHANGED handle
    BY <2>1, <2>2 DEF TypeOK, Reads, Return, given, Active
  <2>3. CASE ~(Return(r, "Io") /\ UNCHANGED handle)
    <3>1. PICK f : f = at[line[r].path] /\ handle' = [handle EXCEPT ![r] = f]
      BY <1>3, <2>3 DEF Open, Failed
    <3>2. f \in Files
      BY <1>3, <2>3, <3>1 DEF Open, Failed, TypeOK, Lines
    <3>3. pc[r] = "open" /\ Goto(r, "truncate")
      BY <1>3, <2>3 DEF Open, Failed
    <3> QED BY <2>1, <3>1, <3>2, <3>3 DEF TypeOK, Reads, Goto, given, Active
  <2> QED BY <2>2, <2>3
<1>4. ASSUME NEW r \in Runs, Truncate(r) PROVE TInv'
  BY <1>4, RetypeAssumption DEF Truncate, TypeOK, Reads, Return, Goto, given, Active, Failed, Cut
<1>5. ASSUME NEW r \in Runs, SyncAll(r) PROVE TInv'
  BY <1>5 DEF SyncAll, TypeOK, Reads, Return, Goto, given, Active, Failed
<1>6. ASSUME NEW r \in Runs, Rename(r) PROVE TInv'
  <2>1. /\ UNCHANGED <<given, size, handle, len, kept, stored>>
        /\ \E e \in {"Ok", "Io"} : Return(r, e)
    BY <1>6 DEF Rename, Failed
  <2>2. at' \in [Exts -> Files \cup {NoFile}]
    <3>1. at \in [Exts -> Files \cup {NoFile}] /\ line[r].path \in Exts
      BY DEF TypeOK, Lines
    <3>2. Moved(at, line[r].path) \in [Exts -> Files \cup {NoFile}]
      BY <3>1 DEF Moved
    <3> QED BY <1>6, <3>1, <3>2 DEF Rename
  <2>3. promised' \in 0 .. MaxLength
    <3>1. len["image"] \in 0 .. MaxLength
      BY DEF TypeOK, Files
    <3>2. Visible("image", at', len) \in 0 .. MaxLength
      BY <3>1, RetypeAssumption DEF Visible
    <3> QED BY <1>6, <3>2 DEF Rename, TypeOK
  <2> QED BY <2>1, <2>2, <2>3 DEF TypeOK, Reads, Return, given, Active
<1>7. ASSUME NEW r \in Runs, Kill(r) PROVE TInv'
  BY <1>7 DEF Kill, TypeOK, Reads, given, Active
<1>8. ASSUME NEW e \in Exts, Appear(e) PROVE TInv'
  BY <1>8 DEF Appear, TypeOK, Reads, run, given, Files
<1>9. CASE WriteBack
  BY <1>9 DEF WriteBack, TypeOK, Reads, run, given
<1>10. CASE PowerLoss
  BY <1>10 DEF PowerLoss, TypeOK, Reads, run, given, Active
<1>11. CASE UNCHANGED vars
  BY <1>11 DEF vars, run, given, TypeOK, Reads
<1> QED BY <1>1, <1>2, <1>3, <1>4, <1>5, <1>6, <1>7, <1>8, <1>9, <1>10, <1>11 DEF Next, Step

-----------------------------------------------------------------------------
\* The image has one of the two names; a run at work has its hands on it, and is
\* the only one at work unless they may overlap.
OneName(names) == \E e \in Exts : names[e] = "image" /\ names[Other(e)] # "image"

Names ==
  /\ OneName(at) /\ OneName(kept)
  /\ "intruder" \notin weather => \A e \in Exts : at[e] # "other" /\ kept[e] # "other"
  /\ \A r \in Runs :
       /\ pc[r] \in Active => at[line[r].path] # "other"
       /\ pc[r] \in {"truncate", "sync"} => handle[r] = "image"
  /\ "overlap" \notin weather =>
       \A r \in Runs : pc[r] \in Active =>
         /\ at[line[r].path] = "image"
         /\ \A q \in Runs : pc[q] \in Active => q = r

\* A file system with the image in it.
LEMMA InitNames == Init => Names
<1> SUFFICES ASSUME Init PROVE Names
  OBVIOUS
<1>1. PICK e \in Exts : at = [d \in Exts |-> IF d = e THEN "image" ELSE NoFile]
  BY DEF Init
<1>2. Other(e) \in Exts /\ Other(e) # e
  BY DEF Exts, Other
<1>3. OneName(at) /\ \A d \in Exts : at[d] # "other"
  BY <1>1, <1>2 DEF OneName, NoFile
<1>4. kept = at /\ \A r \in Runs : pc[r] = "start"
  BY DEF Init
<1> QED BY <1>3, <1>4 DEF Names, Active

\* Every step keeps the image's name.
LEMMA NextNames == TInv /\ Names /\ [Next]_vars => Names'
<1> SUFFICES ASSUME TInv, Names, [Next]_vars PROVE Names'
  OBVIOUS
<1>1. /\ at \in [Exts -> Files \cup {NoFile}]
      /\ kept \in [Exts -> Files \cup {NoFile}]
      /\ pc \in [Runs -> Active \cup {"start", "done", "dead"}]
      /\ handle \in [Runs -> Files \cup {NoFile}]
      /\ \A r \in Runs : line[r].path \in Exts /\ line[r].to \in Exts
      /\ "intruder" \notin weather \/ "overlap" \notin weather
  BY RetypeAssumption DEF TInv, TypeOK, Lines
<1>2. ASSUME NEW r \in Runs, pc[r] \in Active,
             NEW l \in Active \cup {"done", "dead"}, pc' = [pc EXCEPT ![r] = l],
             UNCHANGED <<line, weather, at, kept>>,
             \A q \in Runs : pc'[q] \in {"truncate", "sync"} => handle'[q] = "image"
      PROVE  Names'
  BY <1>1, <1>2 DEF Names, OneName, Active
<1>3. ASSUME NEW r \in Runs, Check(r) PROVE Names'
  <2>1. /\ pc[r] = "start" /\ UNCHANGED <<line, weather, at, kept, handle>>
        /\ "overlap" \notin weather => \A q \in Runs : pc[q] \notin Active
    BY <1>3 DEF Check, given
  <2>2. CASE pc' = [pc EXCEPT ![r] = "done"]
    BY <1>1, <2>1, <2>2 DEF Names, OneName, Active
  <2>3. CASE pc' = [pc EXCEPT ![r] = "stat"] /\ at[line[r].path] # NoFile
             /\ line[r].path # line[r].to /\ at[line[r].to] = NoFile
    <3>1. at[line[r].path] = "image"
      BY <1>1, <2>3 DEF Names, OneName, Exts, Other, NoFile
    <3> QED BY <1>1, <2>1, <2>3, <3>1 DEF Names, OneName, Active
  <2> QED BY <1>3, <2>2, <2>3 DEF Check, Return, Goto
<1>4. ASSUME NEW r \in Runs, Stat(r) PROVE Names'
  <2>1. /\ pc[r] = "stat" /\ UNCHANGED <<line, weather, at, kept, handle>>
        /\ \E l \in {"open", "rename", "done"} : pc' = [pc EXCEPT ![r] = l]
    BY <1>4 DEF Stat, given, Return, Goto, Failed
  <2> QED BY <1>1, <1>2, <2>1 DEF Active, Names
<1>5. ASSUME NEW r \in Runs, Open(r) PROVE Names'
  <2>1. /\ pc[r] = "open" /\ UNCHANGED <<line, weather, at, kept>>
        /\ \/ pc' = [pc EXCEPT ![r] = "done"] /\ handle' = handle
           \/ /\ pc' = [pc EXCEPT ![r] = "truncate"]
              /\ handle' = [handle EXCEPT ![r] = at[line[r].path]]
              /\ at[line[r].path] # NoFile
    BY <1>5 DEF Open, given, Return, Goto, Failed
  <2>2. at[line[r].path] # "other"
    BY <2>1 DEF Names, Active
  <2>3. \A q \in Runs : pc'[q] \in {"truncate", "sync"} => handle'[q] = "image"
    BY <1>1, <2>1, <2>2 DEF Names, Files
  <2> QED BY <1>1, <1>2, <2>1, <2>3 DEF Active
<1>6. ASSUME NEW r \in Runs, Truncate(r) PROVE Names'
  <2>1. /\ pc[r] = "truncate" /\ UNCHANGED <<line, weather, at, kept, handle>>
        /\ \E l \in {"sync", "done"} : pc' = [pc EXCEPT ![r] = l]
    BY <1>6 DEF Truncate, given, Return, Goto, Failed
  <2> QED BY <1>1, <1>2, <2>1 DEF Active, Names
<1>7. ASSUME NEW r \in Runs, SyncAll(r) PROVE Names'
  <2>1. /\ pc[r] = "sync" /\ UNCHANGED <<line, weather, at, kept, handle>>
        /\ \E l \in {"rename", "done"} : pc' = [pc EXCEPT ![r] = l]
    BY <1>7 DEF SyncAll, given, Return, Goto, Failed
  <2> QED BY <1>1, <1>2, <2>1 DEF Active, Names
<1>8. ASSUME NEW r \in Runs, Rename(r) PROVE Names'
  <2>1. /\ pc[r] = "rename" /\ UNCHANGED <<line, weather, kept, handle>>
        /\ pc' = [pc EXCEPT ![r] = "done"]
    BY <1>8 DEF Rename, given, Return, Failed
  <2>2. CASE UNCHANGED at
    BY <1>1, <1>2, <2>1, <2>2 DEF Active, Names
  <2>3. CASE at[line[r].path] # NoFile /\ at' = Moved(at, line[r].path)
    <3>1. at[line[r].path] = "image"
      BY <1>1, <2>1, <2>3 DEF Names, Active, Files
    <3>2. \A e \in Exts : at'[e] = IF e = line[r].path THEN NoFile ELSE "image"
      BY <1>1, <2>3, <3>1 DEF Moved, Exts, Other
    <3>3. OneName(at)' /\ \A e \in Exts : at'[e] # "other"
      BY <1>1, <3>2 DEF OneName, Exts, Other, NoFile
    <3>4. "overlap" \notin weather => \A q \in Runs : pc'[q] \notin Active
      BY <1>1, <2>1 DEF Names, Active
    <3> QED BY <1>1, <2>1, <3>3, <3>4 DEF Names, OneName, Active
  <2> QED BY <1>8, <2>2, <2>3 DEF Rename
<1>9. ASSUME NEW r \in Runs, Kill(r) PROVE Names'
  <2>1. /\ pc[r] \in Active /\ UNCHANGED <<line, weather, at, kept, handle>>
        /\ pc' = [pc EXCEPT ![r] = "dead"]
    BY <1>9 DEF Kill, given
  <2> QED BY <1>1, <1>2, <2>1 DEF Names
<1>10. ASSUME NEW e \in Exts, Appear(e) PROVE Names'
  <2>1. /\ "intruder" \in weather /\ at[e] = NoFile /\ at' = [at EXCEPT ![e] = "other"]
        /\ UNCHANGED <<line, weather, pc, handle, kept>>
    BY <1>10 DEF Appear, run, given
  <2>2. OneName(at)'
    BY <1>1, <2>1 DEF Names, OneName, Exts, Other, NoFile
  <2>3. \A r \in Runs : pc[r] \in Active => at'[line[r].path] = "image"
    BY <1>1, <2>1 DEF Names, NoFile
  <2> QED BY <1>1, <2>1, <2>2, <2>3 DEF Names, OneName
<1>11. CASE WriteBack
  BY <1>11 DEF WriteBack, Names, OneName, run, given
<1>12. CASE PowerLoss
  <2>1. /\ \A r \in Runs : pc'[r] \notin Active
        /\ at' = kept /\ UNCHANGED <<line, weather, kept>>
    BY <1>1, <1>12 DEF PowerLoss, given, Active
  <2> QED BY <2>1 DEF Names, OneName, Active
<1>13. CASE UNCHANGED vars
  BY <1>13 DEF vars, run, given, Names, OneName
<1> QED BY <1>3, <1>4, <1>5, <1>6, <1>7, <1>8, <1>9, <1>10, <1>11, <1>12, <1>13
        DEF Next, Step

-----------------------------------------------------------------------------
\* The runs that may have cut the image.
Cutters ==
  {r \in Runs : line[r].to = "rmd" /\ pc[r] \notin {"start", "stat", "open", "truncate"}}

\* Every length in the system, on the medium or in the memory of a run, is the
\* first one less a sector for each cutter; and the guest was promised no more
\* than that first length.
Shown(n) == IF n = 0 THEN 0 ELSE n - 1

Near(n, first) == n <= first /\ first <= n + Cardinality(Cutters)

Lengths(first) ==
  /\ Near(len["image"], first) /\ Near(stored["image"], first)
  /\ \A r \in Runs : pc[r] \in {"open", "truncate"} => Near(size[r], first)
  /\ promised <= first
  /\ at["vhd"] = "image" \/ kept["vhd"] = "image" => promised <= Shown(first)

LInv == \E first \in Nat : Lengths(first)

\* Cutters are counted, and none is taken back.
LEMMA CuttersGrow ==
  ASSUME TInv, [Next]_vars
  PROVE  /\ Cardinality(Cutters) \in Nat /\ Cardinality(Cutters') \in Nat
         /\ Cardinality(Cutters) <= Cardinality(Cutters')
<1>1. Cutters \subseteq Runs /\ Cutters' \subseteq Runs
  BY DEF Cutters
<1>2. IsFiniteSet(Cutters) /\ IsFiniteSet(Cutters')
  BY <1>1, RetypeAssumption, FS_Subset
<1>3. line' = line
  BY DEF Next, Step, Check, Stat, Open, Truncate, SyncAll, Rename, Kill, Appear,
         WriteBack, PowerLoss, vars, run, given
<1>4. pc \in [Runs -> Active \cup {"start", "done", "dead"}]
  BY DEF TInv, TypeOK
<1>5. \A r \in Runs : pc[r] \notin {"start", "stat", "open", "truncate"}
        => pc'[r] \notin {"start", "stat", "open", "truncate"}
  <2>1. CASE UNCHANGED pc
    BY <2>1
  <2>2. CASE PowerLoss
    BY <2>2, <1>4 DEF PowerLoss, Active
  <2>3. ASSUME NEW r \in Runs, Step(r) \/ Kill(r)
        PROVE  /\ \A q \in Runs : q # r => pc'[q] = pc[q]
               /\ pc[r] \notin {"start", "stat", "open", "truncate"}
                    => pc'[r] \notin {"start", "stat", "open", "truncate"}
    <3>1. CASE Kill(r)
      BY <1>4, <3>1 DEF Kill
    <3>2. CASE Check(r) BY <1>4, <3>2 DEF Check, Return, Goto
    <3>3. CASE Stat(r) BY <1>4, <3>3 DEF Stat, Return, Goto, Failed
    <3>4. CASE Open(r) BY <1>4, <3>4 DEF Open, Return, Goto, Failed
    <3>5. CASE Truncate(r) BY <1>4, <3>5 DEF Truncate, Return, Goto, Failed
    <3>6. CASE SyncAll(r) BY <1>4, <3>6 DEF SyncAll, Return, Goto, Failed
    <3>7. CASE Rename(r) BY <1>4, <3>7 DEF Rename, Return, Goto, Failed
    <3> QED BY <2>3, <3>1, <3>2, <3>3, <3>4, <3>5, <3>6, <3>7 DEF Step
  <2>4. CASE WriteBack \/ (\E e \in Exts : Appear(e)) \/ UNCHANGED vars
    BY <2>1, <2>4 DEF WriteBack, Appear, vars, run
  <2> QED BY <2>2, <2>3, <2>4 DEF Next
<1>6. Cutters \subseteq Cutters'
  BY <1>3, <1>5 DEF Cutters
<1> QED BY <1>2, <1>6, FS_CardinalityType, FS_Subset

\* A run that cuts becomes a cutter.
LEMMA CutterCounts ==
  ASSUME TInv, NEW r \in Runs, pc[r] = "truncate", pc' = [pc EXCEPT ![r] = "sync"],
         line' = line
  PROVE  Cardinality(Cutters') = Cardinality(Cutters) + 1
<1>1. line[r].to = "rmd"
  BY DEF TInv, Reads
<1>2. pc \in [Runs -> Active \cup {"start", "done", "dead"}]
  BY DEF TInv, TypeOK
<1>3. Cutters' = Cutters \cup {r} /\ r \notin Cutters
  BY <1>1, <1>2 DEF Cutters
<1>4. IsFiniteSet(Cutters)
  BY RetypeAssumption, FS_Subset DEF Cutters
<1> QED BY <1>3, <1>4, FS_AddElement

\* The first length is the first one.
LEMMA InitLInv == Init => LInv
<1> SUFFICES ASSUME Init PROVE LInv
  OBVIOUS
<1>1. /\ len["image"] \in Nat /\ stored = len /\ kept = at
      /\ promised = Visible("image", at, len)
  BY DEF Init, Files
<1>2. Cutters = {} /\ \A r \in Runs : pc[r] = "start"
  BY DEF Init, Cutters
<1>3. Cardinality(Cutters) = 0
  BY <1>2, FS_EmptySet
<1>4. Lengths(len["image"])
  BY <1>1, <1>2, <1>3 DEF Lengths, Near, Shown, Visible
<1> QED BY <1>1, <1>4 DEF LInv

\* Every step keeps the lengths near the first one.
LEMMA NextLInv == TInv /\ Names /\ LInv /\ [Next]_vars => LInv'
<1> SUFFICES ASSUME TInv, Names, [Next]_vars, NEW first \in Nat, Lengths(first)
             PROVE  Lengths(first)'
  BY DEF LInv
<1> DEFINE c == Cardinality(Cutters)
<1>1. /\ len \in [Files -> Nat] /\ stored \in [Files -> Nat] /\ size \in [Runs -> Nat]
      /\ at \in [Exts -> Files \cup {NoFile}] /\ kept \in [Exts -> Files \cup {NoFile}]
      /\ pc \in [Runs -> Active \cup {"start", "done", "dead"}]
      /\ handle \in [Runs -> Files \cup {NoFile}] /\ promised \in Nat
      /\ \A r \in Runs : line[r].path \in Exts /\ line[r].to \in Exts
      /\ len["image"] \in Nat /\ stored["image"] \in Nat
  BY RetypeAssumption DEF TInv, TypeOK, Lines, Files
<1>2. c \in Nat /\ c' \in Nat /\ c <= c'
  BY CuttersGrow
<1>3. \A n \in Nat : n <= first /\ first <= n + c => Near(n, first)'
  BY <1>2 DEF Near
<1> HIDE DEF c
<1>4. /\ len["image"] <= first /\ first <= len["image"] + c
      /\ stored["image"] <= first /\ first <= stored["image"] + c
      /\ \A r \in Runs : pc[r] \in {"open", "truncate"} =>
           size[r] <= first /\ first <= size[r] + c
      /\ promised <= first
      /\ at["vhd"] = "image" \/ kept["vhd"] = "image" => promised <= Shown(first)
  BY DEF Lengths, Near, c
<1>5. ASSUME UNCHANGED <<len, stored, size, promised, at, kept>>,
             \A r \in Runs : pc'[r] \in {"open", "truncate"} =>
               pc[r] \in {"open", "truncate"}
      PROVE  Lengths(first)'
  BY <1>1, <1>3, <1>4, <1>5 DEF Lengths
<1>6. ASSUME NEW r \in Runs, Check(r) PROVE Lengths(first)'
  <2>1. UNCHANGED <<len, stored, size, promised, at, kept>>
    BY <1>6 DEF Check
  <2>2. \E l \in {"stat", "done"} : pc' = [pc EXCEPT ![r] = l]
    BY <1>6 DEF Check, Return, Goto
  <2> QED BY <1>1, <1>5, <2>1, <2>2
<1>7. ASSUME NEW r \in Runs, Stat(r) PROVE Lengths(first)'
  <2>1. UNCHANGED <<len, stored, promised, at, kept>>
    BY <1>7 DEF Stat
  <2>2. \/ \E l \in {"rename", "done"} : pc' = [pc EXCEPT ![r] = l]
        \/ pc' = [pc EXCEPT ![r] = "open"]
    BY <1>7 DEF Stat, Return, Goto, Failed
  <2>3. \/ UNCHANGED size /\ pc' = [pc EXCEPT ![r] = "done"]
        \/ /\ size' = [size EXCEPT ![r] = len[at[line[r].path]]]
           /\ at[line[r].path] # NoFile
    BY <1>7 DEF Stat, Return, Failed
  <2>4. at[line[r].path] # "other"
    BY <1>7 DEF Stat, Names, Active
  <2>5. pc' = [pc EXCEPT ![r] = "open"] => size' = [size EXCEPT ![r] = len["image"]]
    BY <1>1, <1>7, <2>3, <2>4 DEF Stat, TypeOK, Lines, Files, TInv
  <2>6. \A q \in Runs : pc'[q] \in {"open", "truncate"} =>
          \/ pc[q] \in {"open", "truncate"} /\ size'[q] = size[q]
          \/ size'[q] = len["image"]
    BY <1>1, <2>2, <2>3, <2>5
  <2>7. \A q \in Runs : pc'[q] \in {"open", "truncate"} => Near(size[q], first)'
    BY <1>1, <1>3, <1>4, <2>6
  <2> QED BY <1>1, <1>3, <1>4, <2>1, <2>7 DEF Lengths
<1>8. ASSUME NEW r \in Runs, Open(r) PROVE Lengths(first)'
  <2>1. UNCHANGED <<len, stored, size, promised, at, kept>> /\ pc[r] = "open"
    BY <1>8 DEF Open
  <2>2. \E l \in {"truncate", "done"} : pc' = [pc EXCEPT ![r] = l]
    BY <1>8 DEF Open, Return, Goto, Failed
  <2> QED BY <1>1, <1>5, <2>1, <2>2
<1>9. ASSUME NEW r \in Runs, Truncate(r) PROVE Lengths(first)'
  <2>1. UNCHANGED <<stored, size, promised, at, kept, line>> /\ pc[r] = "truncate"
    BY <1>9 DEF Truncate, given
  <2>2. CASE pc' = [pc EXCEPT ![r] = "done"] /\ UNCHANGED len
    BY <1>1, <1>5, <2>1, <2>2
  <2>3. CASE /\ pc' = [pc EXCEPT ![r] = "sync"]
             /\ len' = [len EXCEPT ![handle[r]] = Cut(size[r])]
    <3>1. c' = c + 1
      BY <2>1, <2>3, CutterCounts DEF c
    <3>2. handle[r] = "image" /\ size[r] > 0 /\ size[r] \in Nat
      BY <1>1, <2>1 DEF Names, TInv, Reads
    <3>3. len'["image"] = size[r] - 1
      BY <1>1, <2>3, <3>2 DEF Cut, Files
    <3>4. len'["image"] <= first /\ first <= len'["image"] + c'
      BY <1>2, <1>4, <2>1, <3>1, <3>2, <3>3
    <3>5. Near(len["image"], first)'
      BY <3>4 DEF Near, c
    <3>6. \A q \in Runs : pc'[q] \in {"open", "truncate"} =>
            pc[q] \in {"open", "truncate"}
      BY <1>1, <2>1, <2>3
    <3> QED BY <1>1, <1>3, <1>4, <2>1, <3>5, <3>6 DEF Lengths
  <2> QED BY <1>9, <2>2, <2>3 DEF Truncate, Goto, Return, Failed
<1>10. ASSUME NEW r \in Runs, SyncAll(r) PROVE Lengths(first)'
  <2>1. UNCHANGED <<len, size, promised, at, kept>> /\ pc[r] = "sync"
    BY <1>10 DEF SyncAll
  <2>2. /\ \E l \in {"rename", "done"} : pc' = [pc EXCEPT ![r] = l]
        /\ UNCHANGED stored \/ stored' = [stored EXCEPT ![handle[r]] = len[handle[r]]]
    BY <1>10 DEF SyncAll, Return, Goto, Failed
  <2>3. stored'["image"] = stored["image"] \/ stored'["image"] = len["image"]
    BY <1>1, <2>1, <2>2 DEF Names
  <2>4. Near(stored["image"], first)'
    BY <1>1, <1>2, <1>4, <2>3 DEF Near, c
  <2>5. \A q \in Runs : pc'[q] \in {"open", "truncate"} =>
          pc[q] \in {"open", "truncate"}
    BY <1>1, <2>1, <2>2
  <2> QED BY <1>1, <1>3, <1>4, <2>1, <2>4, <2>5 DEF Lengths
<1>11. ASSUME NEW r \in Runs, Rename(r) PROVE Lengths(first)'
  <2>1. UNCHANGED <<len, stored, size, kept>> /\ pc[r] = "rename"
        /\ pc' = [pc EXCEPT ![r] = "done"]
    BY <1>11 DEF Rename, Return, Failed
  <2>2. CASE UNCHANGED <<at, promised>>
    BY <1>1, <1>5, <2>1, <2>2
  <2>3. CASE /\ at[line[r].path] # NoFile
             /\ at' = Moved(at, line[r].path)
             /\ promised' = IF line[r].to = "vhd" /\ at[line[r].path] = "image"
                              THEN Visible("image", at', len) ELSE promised
    <3>1. at[line[r].path] = "image" /\ line[r].to = Other(line[r].path)
      BY <1>1, <2>1, <2>3 DEF Names, Active, Files, TInv, Reads
    <3>2. CASE line[r].to = "vhd"
      <4>1. at'["vhd"] = "image"
        BY <1>1, <2>3, <3>1, <3>2 DEF Moved, Exts, Other
      <4>2. promised' = Shown(len["image"])
        BY <2>3, <3>1, <3>2, <4>1 DEF Visible, Shown
      <4>3. promised' <= Shown(first) /\ promised' <= first
        BY <1>1, <1>4, <4>2 DEF Shown
      <4> QED BY <1>1, <1>3, <1>4, <2>1, <4>3 DEF Lengths
    <3>3. CASE line[r].to # "vhd"
      <4>1. at'["vhd"] # "image" /\ at["vhd"] = "image" /\ promised' = promised
        BY <1>1, <2>3, <3>1, <3>3 DEF Moved, Exts, Other, NoFile
      <4> QED BY <1>1, <1>3, <1>4, <2>1, <4>1 DEF Lengths
    <3> QED BY <3>2, <3>3
  <2> QED BY <1>11, <2>2, <2>3 DEF Rename, Failed
<1>12. ASSUME NEW r \in Runs, Kill(r) PROVE Lengths(first)'
  <2>1. UNCHANGED <<len, stored, size, promised, at, kept>>
        /\ pc' = [pc EXCEPT ![r] = "dead"]
    BY <1>12 DEF Kill
  <2> QED BY <1>1, <1>5, <2>1
<1>13. ASSUME NEW e \in Exts, Appear(e) PROVE Lengths(first)'
  <2>1. /\ UNCHANGED <<len, stored, size, promised, kept, pc>>
        /\ at' = [at EXCEPT ![e] = "other"]
    BY <1>13 DEF Appear, run
  <2>2. at'["vhd"] = "image" => at["vhd"] = "image"
    BY <1>1, <2>1 DEF Exts
  <2> QED BY <1>1, <1>3, <1>4, <2>1, <2>2 DEF Lengths
<1>14. CASE WriteBack
  <2>1. /\ UNCHANGED <<len, size, promised, at, pc>>
        /\ kept' = at \/ kept' = kept
        /\ stored' = len \/ stored' = stored
    BY <1>14 DEF WriteBack, run
  <2> QED BY <1>1, <1>3, <1>4, <2>1 DEF Lengths
<1>15. CASE PowerLoss
  <2>1. /\ UNCHANGED <<size, promised, kept, stored>>
        /\ at' = kept /\ len' = stored
        /\ \A r \in Runs : pc'[r] \notin {"open", "truncate"}
    BY <1>1, <1>15 DEF PowerLoss, Active
  <2> QED BY <1>1, <1>3, <1>4, <2>1 DEF Lengths
<1>16. CASE UNCHANGED vars
  BY <1>5, <1>16 DEF vars, run
<1> QED BY <1>6, <1>7, <1>8, <1>9, <1>10, <1>11, <1>12, <1>13, <1>14, <1>15, <1>16
        DEF Next, Step

-----------------------------------------------------------------------------
\* A behaviour in which nothing goes wrong: what was read of the file holds, and
\* the image is as large as the guest was promised under the name it is about
\* to get.
Cutting(r) == pc[r] \in {"sync", "rename"} /\ line[r].to = "rmd"

Calm ==
  weather = {} =>
    /\ \A r \in Runs :
         /\ pc[r] \in {"open", "truncate"} => size[r] = len["image"]
         /\ Cutting(r) => len["image"] >= promised
    /\ (\A r \in Runs : ~Cutting(r)) => Visible("image", at, len) >= promised

\* The promise is what is shown at first.
LEMMA InitCalm == Init => Calm
<1> SUFFICES ASSUME Init PROVE Calm
  OBVIOUS
<1>1. len["image"] \in Nat /\ promised = Visible("image", at, len)
  BY DEF Init, Files
<1>2. Visible("image", at, len) \in Nat
  BY <1>1 DEF Visible
<1> QED BY <1>1, <1>2 DEF Init, Calm, Cutting

\* Every step of an undisturbed behaviour keeps the promise.
LEMMA NextCalm == TInv /\ Names /\ Calm /\ [Next]_vars => Calm'
<1> SUFFICES ASSUME TInv, Names, Calm, [Next]_vars, weather' = {} PROVE Calm'
  BY DEF Calm
<1>1. /\ len \in [Files -> Nat] /\ size \in [Runs -> Nat]
      /\ at \in [Exts -> Files \cup {NoFile}]
      /\ pc \in [Runs -> Active \cup {"start", "done", "dead"}]
      /\ handle \in [Runs -> Files \cup {NoFile}] /\ promised \in Nat
      /\ \A r \in Runs : line[r].path \in Exts /\ line[r].to \in Exts
      /\ len["image"] \in Nat
  BY RetypeAssumption DEF TInv, TypeOK, Lines, Files
<1>2. weather = {} /\ line' = line
  BY DEF Next, Step, Check, Stat, Open, Truncate, SyncAll, Rename, Kill, Appear,
         WriteBack, PowerLoss, vars, run, given
<1>3. /\ \A r \in Runs :
           /\ pc[r] \in {"open", "truncate"} => size[r] = len["image"]
           /\ Cutting(r) => len["image"] >= promised
      /\ (\A r \in Runs : ~Cutting(r)) => Visible("image", at, len) >= promised
  BY <1>2 DEF Calm
<1>4. \A r \in Runs : pc[r] \in Active =>
        /\ at[line[r].path] = "image" /\ line[r].to = Other(line[r].path)
        /\ \A q \in Runs : pc[q] \in Active => q = r
  BY <1>2 DEF Names, TInv, Reads
<1>5. ASSUME UNCHANGED <<len, size, promised, at>>,
             \A r \in Runs :
               /\ pc'[r] \in {"open", "truncate"} => pc[r] \in {"open", "truncate"}
               /\ Cutting(r)' <=> Cutting(r)
      PROVE  Calm'
  BY <1>3, <1>5 DEF Calm, Visible
<1>6. ASSUME NEW r \in Runs, Check(r) PROVE Calm'
  <2>1. UNCHANGED <<len, size, promised, at>> /\ pc[r] = "start"
        /\ \E l \in {"stat", "done"} : pc' = [pc EXCEPT ![r] = l]
    BY <1>6 DEF Check, Return, Goto
  <2> QED BY <1>1, <1>2, <1>5, <2>1 DEF Cutting
<1>7. ASSUME NEW r \in Runs, Stat(r) PROVE Calm'
  <2>1. UNCHANGED <<len, promised, at>> /\ pc[r] = "stat"
    BY <1>7 DEF Stat
  <2>2. at[line[r].path] = "image" /\ size' = [size EXCEPT ![r] = len["image"]]
    BY <1>2, <1>4, <1>7, <2>1 DEF Stat, Active, NoFile, Failed
  <2>3. \/ pc' = [pc EXCEPT ![r] = "done"]
        \/ pc' = [pc EXCEPT ![r] = "open"]
        \/ pc' = [pc EXCEPT ![r] = "rename"] /\ line[r].to = "vhd"
    BY <1>2, <1>7, <2>2 DEF Stat, Return, Goto, NoFile, Failed
  <2>4. \A q \in Runs : Cutting(q)' <=> Cutting(q)
    BY <1>1, <1>2, <2>1, <2>3 DEF Cutting
  <2>5. \A q \in Runs : pc'[q] \in {"open", "truncate"} => size'[q] = len["image"]
    BY <1>1, <1>3, <2>2, <2>3
  <2> QED BY <1>3, <2>1, <2>4, <2>5 DEF Calm, Visible
<1>8. ASSUME NEW r \in Runs, Open(r) PROVE Calm'
  <2>1. UNCHANGED <<len, size, promised, at>> /\ pc[r] = "open"
        /\ \E l \in {"truncate", "done"} : pc' = [pc EXCEPT ![r] = l]
    BY <1>8 DEF Open, Return, Goto, Failed
  <2> QED BY <1>1, <1>2, <1>5, <2>1 DEF Cutting
<1>9. ASSUME NEW r \in Runs, Truncate(r) PROVE Calm'
  <2>1. /\ UNCHANGED <<size, promised, at>> /\ pc[r] = "truncate"
        /\ pc' = [pc EXCEPT ![r] = "sync"]
        /\ len' = [len EXCEPT ![handle[r]] = Cut(size[r])]
    BY <1>2, <1>9 DEF Truncate, Goto, Failed
  <2>2. /\ handle[r] = "image" /\ size[r] > 0 /\ line[r].to = "rmd"
        /\ size[r] = len["image"] /\ at[line[r].path] = "image"
    BY <1>3, <1>4, <2>1 DEF Names, TInv, Reads, Active
  <2>3. len'["image"] = len["image"] - 1
    BY <1>1, <2>1, <2>2 DEF Cut, Files
  <2>4. line[r].path = "vhd"
    BY <1>1, <1>4, <2>1, <2>2 DEF Active, Exts, Other
  <2>5. \A q \in Runs : q # r => pc[q] \notin Active /\ pc'[q] = pc[q]
    BY <1>1, <1>4, <2>1 DEF Active
  <2>6. Visible("image", at, len) >= promised
    BY <1>3, <2>1, <2>5 DEF Cutting, Active
  <2>7. len'["image"] >= promised
    BY <1>1, <2>2, <2>3, <2>4, <2>6 DEF Visible
  <2>8. Cutting(r)' /\ pc'[r] = "sync"
    BY <1>1, <1>2, <2>1, <2>2 DEF Cutting
  <2> QED BY <2>1, <2>5, <2>7, <2>8 DEF Calm, Cutting, Active
<1>10. ASSUME NEW r \in Runs, SyncAll(r) PROVE Calm'
  <2>1. UNCHANGED <<len, size, promised, at>> /\ pc[r] = "sync"
        /\ pc' = [pc EXCEPT ![r] = "rename"]
    BY <1>2, <1>10 DEF SyncAll, Goto, Failed
  <2> QED BY <1>1, <1>2, <1>5, <2>1 DEF Cutting
<1>11. ASSUME NEW r \in Runs, Rename(r) PROVE Calm'
  <2>1. /\ pc[r] = "rename" /\ at[line[r].path] = "image"
        /\ line[r].to = Other(line[r].path)
        /\ \A q \in Runs : q # r => pc[q] \notin Active
    BY <1>4, <1>11 DEF Rename, Active
  <2>2. /\ UNCHANGED <<len, size>>
        /\ pc' = [pc EXCEPT ![r] = "done"]
        /\ at' = Moved(at, line[r].path)
        /\ promised' = IF line[r].to = "vhd" THEN Visible("image", at', len) ELSE promised
    BY <1>2, <1>11, <2>1 DEF Rename, Return, Failed, NoFile
  <2>3. \A q \in Runs : pc'[q] \notin Active
    BY <1>1, <2>1, <2>2 DEF Active
  <2>4. Visible("image", at', len') >= promised'
    <3>1. CASE line[r].to = "vhd"
      <4>1. Visible("image", at', len) \in Nat
        BY <1>1 DEF Visible
      <4> QED BY <2>2, <3>1, <4>1
    <3>2. CASE line[r].to # "vhd"
      <4>1. at'["vhd"] # "image"
        BY <1>1, <2>1, <2>2, <3>2 DEF Moved, Exts, Other, NoFile
      <4>2. len["image"] >= promised
        BY <1>1, <1>3, <2>1, <3>2 DEF Cutting, Exts
      <4> QED BY <2>2, <3>2, <4>1, <4>2 DEF Visible
    <3> QED BY <3>1, <3>2
  <2> QED BY <2>3, <2>4 DEF Calm, Cutting, Active, Visible
<1>12. CASE UNCHANGED vars
  BY <1>1, <1>2, <1>5, <1>12 DEF vars, run, Cutting
<1> QED BY <1>2, <1>6, <1>7, <1>8, <1>9, <1>10, <1>11, <1>12
        DEF Next, Step, Kill, Appear, WriteBack, PowerLoss

-----------------------------------------------------------------------------
LEMMA RetypeInv == Spec => [](TInv /\ Names /\ LInv /\ Calm)
BY InitTInv, NextTInv, InitNames, NextNames, InitLInv, NextLInv, InitCalm, NextCalm,
   PTL DEF Spec

\* The variables keep their types: no length goes below zero.
THEOREM RetypeTypes == Spec => []TypeOK
BY RetypeInv, PTL DEF TInv

\* Undisturbed retypes, any number one after another, leave the guest its disk,
\* but for the sector that --force hid.
THEOREM RetypeKeepsDisk == Spec => []GuestKeepsItsDisk
<1>1. Calm => GuestKeepsItsDisk
  BY DEF Calm, GuestKeepsItsDisk, Kept, Quiet, Cutting, Active
<1> QED BY <1>1, RetypeInv, PTL

\* Whatever fails, is killed, overlaps or loses power, the image keeps a name,
\* in the system and on the medium.
THEOREM RetypeKeepsName == Spec => []ImageIsNamed
<1>1. Names => ImageIsNamed
  BY DEF Names, OneName, ImageIsNamed
<1> QED BY <1>1, RetypeInv, PTL

\* ... and each retype to .rmd costs the guest one sector at most.
THEOREM RetypeOneSectorEach == Spec => []OneSectorEach
<1>1. TInv /\ LInv => OneSectorEach
  <2> SUFFICES ASSUME TInv, NEW first \in Nat, Lengths(first) PROVE OneSectorEach
    BY DEF LInv
  <2> DEFINE tried == {r \in Runs : pc[r] # "start" /\ line[r].to = "rmd"}
             c == Cardinality(Cutters)
             n == Cardinality(tried)
  <2>1. Cutters \subseteq tried /\ IsFiniteSet(tried) /\ IsFiniteSet(Cutters)
    <3>1. Cutters \subseteq tried /\ tried \subseteq Runs
      BY DEF Cutters
    <3> QED BY <3>1, RetypeAssumption, FS_Subset
  <2>2. c \in Nat /\ n \in Nat /\ c <= n
    BY <2>1, FS_CardinalityType, FS_Subset
  <2>3. /\ len["image"] \in Nat /\ promised \in Nat
        /\ len["image"] <= first /\ first <= len["image"] + c
        /\ promised <= first
        /\ at["vhd"] = "image" => promised <= Shown(first)
    BY RetypeAssumption DEF Lengths, Near, TInv, TypeOK, Files
  <2> HIDE DEF c, n
  <2>4. Visible("image", at, len) + n >= promised
    BY <2>2, <2>3 DEF Visible, Shown
  <2> QED BY <2>4 DEF OneSectorEach, n
<1> QED BY <1>1, RetypeInv, PTL
-----------------------------------------------------------------------------
Rank(l) ==
  CASE l = "start" -> 6 [] l = "stat" -> 5 [] l = "open"   -> 4 [] l = "truncate" -> 3
    [] l = "sync"  -> 2 [] l = "rename" -> 1 [] l \in {"done", "dead"} -> 0

Shrinks ==
  \A r \in Runs :
    /\ Rank(pc[r]) \in 0 .. 6 /\ Rank(pc'[r]) \in 0 .. 6
    /\ Step(r) => Rank(pc'[r]) < Rank(pc[r])
    /\ Rank(pc'[r]) <= Rank(pc[r])

\* A run's own step takes it down, and leaves the others where they are.
LEMMA StepDescends ==
  ASSUME TypeOK, NEW r \in Runs, Step(r)
  PROVE  /\ Rank(pc'[r]) < Rank(pc[r])
         /\ \A q \in Runs \ {r} : pc'[q] = pc[q]
<1>1. PICK l \in {"stat", "open", "truncate", "sync", "rename", "done"} :
        /\ pc' = [pc EXCEPT ![r] = l]
        /\ Rank(l) < Rank(pc[r])
  <2>1. CASE Check(r)
    <3>1. pc[r] = "start" /\ (Goto(r, "stat") \/ \E e : Return(r, e))
      BY <2>1 DEF Check
    <3> QED  BY <3>1 DEF Goto, Return, Rank
  <2>2. CASE Stat(r)
    <3>1. /\ pc[r] = "stat"
          /\ Goto(r, "open") \/ Goto(r, "rename") \/ \E e : Return(r, e)
      BY <2>2 DEF Stat, Failed
    <3> QED  BY <3>1 DEF Goto, Return, Rank
  <2>3. CASE Open(r)
    <3>1. pc[r] = "open" /\ (Goto(r, "truncate") \/ \E e : Return(r, e))
      BY <2>3 DEF Open, Failed
    <3> QED  BY <3>1 DEF Goto, Return, Rank
  <2>4. CASE Truncate(r)
    <3>1. pc[r] = "truncate" /\ (Goto(r, "sync") \/ \E e : Return(r, e))
      BY <2>4 DEF Truncate, Failed
    <3> QED  BY <3>1 DEF Goto, Return, Rank
  <2>5. CASE SyncAll(r)
    <3>1. pc[r] = "sync" /\ (Goto(r, "rename") \/ \E e : Return(r, e))
      BY <2>5 DEF SyncAll, Failed
    <3> QED  BY <3>1 DEF Goto, Return, Rank
  <2>6. CASE Rename(r)
    <3>1. pc[r] = "rename" /\ \E e : Return(r, e)
      BY <2>6 DEF Rename, Failed
    <3> QED  BY <3>1 DEF Return, Rank
  <2> QED
    BY <2>1, <2>2, <2>3, <2>4, <2>5, <2>6 DEF Step
<1> QED
  BY <1>1 DEF TypeOK

LEMMA NextShrinks == TInv /\ TInv' /\ [Next]_vars => Shrinks
<1> SUFFICES ASSUME TInv, TInv', [Next]_vars, NEW r \in Runs
             PROVE  /\ Rank(pc[r]) \in 0 .. 6 /\ Rank(pc'[r]) \in 0 .. 6
                    /\ Step(r) => Rank(pc'[r]) < Rank(pc[r])
                    /\ Rank(pc'[r]) <= Rank(pc[r])
  BY DEF Shrinks
<1>1. \A l \in Active \cup {"start", "done", "dead"} : Rank(l) \in 0 .. 6
  BY DEF Rank, Active
<1>2. Rank(pc[r]) \in 0 .. 6 /\ Rank(pc'[r]) \in 0 .. 6
  BY <1>1 DEF TInv, TypeOK
<1>3. \/ \E q \in Runs : Step(q)
      \/ pc'[r] = pc[r]
      \/ pc'[r] = "dead"
  BY DEF Next, Kill, Appear, WriteBack, PowerLoss, vars, run, TInv, TypeOK
<1>4. CASE Step(r)
  BY <1>2, <1>4, StepDescends DEF TInv
<1>5. ASSUME NEW q \in Runs \ {r}, Step(q) PROVE pc'[r] = pc[r]
  BY <1>5, StepDescends DEF TInv
<1>6. Step(r) => Rank(pc'[r]) < Rank(pc[r])
  BY StepDescends DEF TInv
<1>7. pc'[r] = "dead" => Rank(pc'[r]) = 0
  BY DEF Rank
<1> QED
  BY <1>2, <1>3, <1>4, <1>5, <1>6, <1>7

\* However often the operator types it in, whatever fails and however retypes
\* overlap, each takes six steps at most and never goes back: it has no loop.
THEOREM RetypeIsBounded == Spec => [][Shrinks]_vars
<1>1. TInv /\ TInv' /\ [Next]_vars => [Shrinks]_vars
  BY NextShrinks
<1> QED
  BY InitTInv, NextTInv, <1>1, PTL DEF Spec
=============================================================================
