--------------------------- MODULE Builder_proofs ---------------------------
(***************************************************************************)
(* Nothing is published until it is good, for any number of runs, targets, *)
(* process identifiers and command lines, and any crash.                   *)
(***************************************************************************)
EXTENDS Builder, TLAPS

-----------------------------------------------------------------------------
(* Facts about image files *)

\* Opening a temporary file gives an image.
LEMMA BlankType ==
  ASSUME NEW c \in BOOLEAN
  PROVE  Blank(c) \in Images
  BY DEF Blank, Images, Content, Layouts

\* Writing over some pieces of a file gives an image, and changes those only.
LEMMA OverwriteType ==
  ASSUME NEW i \in Images, NEW ps \in SUBSET Pieces, NEW c \in Content,
         NEW lay \in Layouts
  PROVE  /\ Overwrite(i, ps, c, lay) \in Images
         /\ Overwrite(i, ps, c, lay).layout = lay
         /\ Overwrite(i, ps, c, lay).compressed = i.compressed
         /\ Overwrite(i, ps, c, lay).reserved = i.reserved
         /\ \A p \in Pieces :
              Overwrite(i, ps, c, lay).piece[p] = IF p \in ps THEN c ELSE i.piece[p]
  BY DEF Overwrite, Images

\* Marking a file as synced, or as reserved, changes nothing else.
LEMMA MarkType ==
  ASSUME NEW i \in Images, NEW b \in BOOLEAN
  PROVE  /\ [i EXCEPT !.synced = b] \in Images
         /\ [i EXCEPT !.synced = b].synced = b
         /\ [i EXCEPT !.synced = b].piece = i.piece
         /\ [i EXCEPT !.synced = b].layout = i.layout
         /\ [i EXCEPT !.synced = b].compressed = i.compressed
         /\ [i EXCEPT !.reserved = b] \in Images
  BY DEF Images

\* What a command allocates is made of pieces.
LEMMA WantedType ==
  ASSUME NEW j \in Jobs
  PROVE  Wanted(j) \in SUBSET Pieces
  BY DEF Wanted, Jobs, Pieces

-----------------------------------------------------------------------------
(* What a step of one run may touch *)

\* A step of r keeps the types, leaves the variables of the other runs alone,
\* and changes the directory only at its own two names.
Frame(r) ==
  /\ TypeOK'
  /\ UNCHANGED <<job, source, losses>>
  /\ \A q \in Runs \ {r} :
       /\ pc'[q] = pc[q]
       /\ attempt'[q] = attempt[q]
       /\ result'[q] = result[q]
       /\ img'[q] = img[q]
  /\ \A n \in Names :
       \/ dir'[n] = dir[n]
       \/ n = Temp(r) /\ dir[n] \in {r, NoFile} /\ dir'[n] \in {r, NoFile}
       \/ n = Out(r) /\ dir'[n] = r /\ pc'[r] = "dirsync"
  /\ disk' \in {dir, disk}

\* The names a run uses are names.
LEMMA NamesType ==
  ASSUME TypeOK, NEW r \in Runs
  PROVE  /\ Temp(r) \in Names /\ Temp(r) \in TempNames
         /\ Out(r) \in Names /\ Out(r) \in Targets
         /\ Temp(r) # Out(r)
  BY NamesAssumption, AttemptsAssumption
     DEF TypeOK, Jobs, Temp, Out, Names, TempNames

\* The errors a command may stop with are results.
LEMMA ErrorsType ==
  ASSUME NEW j \in Jobs
  PROVE  ErrorsBefore(j.cmd) \subseteq Results /\ ErrorsAfter(j.cmd) \subseteq Results
  BY DEF Jobs, Iodd, Copying, ErrorsBefore, ErrorsAfter, Results

\* A step that does not touch the directory.
Local(r) ==
  /\ \E l \in Labels : pc' = [pc EXCEPT ![r] = l]
  /\ result' = result \/ \E e \in Results : result' = [result EXCEPT ![r] = e]
  /\ img' = img \/ \E i \in Images : img' = [img EXCEPT ![r] = i]
  /\ UNCHANGED <<job, attempt, dir, disk>>

\* A step of one run that leaves the directory alone keeps the types and the rest.
LEMMA LocalFrame ==
  ASSUME TypeOK, NEW r \in Runs, Local(r), UNCHANGED <<source, losses>>
  PROVE  Frame(r)
  BY DEF Local, Frame, TypeOK

\* The checks before TempTarget::create change one run only.
LEMMA PrecheckLocal ==
  ASSUME TypeOK, NEW r \in Runs, Precheck(r)
  PROVE  Local(r)
<1>1. ErrorsBefore(job[r].cmd) \subseteq Results /\ ErrorsAfter(job[r].cmd) \subseteq Results
  BY ErrorsType DEF TypeOK
<1>2. /\ {"done", "create"} \subseteq Labels
      /\ {"TargetExists", "Allocation", "Ok"} \subseteq Results
  BY DEF Labels, Results
<1> QED
  BY <1>1, <1>2 DEF Precheck, Return, Goto, Local

\* So does the allocation ...
LEMMA AllocateLocal ==
  ASSUME TypeOK, NEW r \in Runs, AllocateSpace(r)
  PROVE  Local(r)
<1>1. Wanted(job[r]) \in SUBSET Pieces /\ img[r] \in Images
  BY WantedType DEF TypeOK
<1>2. \A lay \in {"one", "split"} :
        [Overwrite(img[r], Wanted(job[r]), "stale", lay) EXCEPT !.reserved = TRUE] \in Images
  <2> TAKE lay \in {"one", "split"}
  <2>1. lay \in Layouts /\ "stale" \in Content
    BY DEF Layouts, Content
  <2>2. \A i \in Images, ps \in SUBSET Pieces, c \in Content, l \in Layouts :
          Overwrite(i, ps, c, l) \in Images
    BY OverwriteType, Zenon
  <2>3. Overwrite(img[r], Wanted(job[r]), "stale", lay) \in Images
    BY <1>1, <2>1, <2>2, ZenonT(40)
  <2> QED
    BY <2>3, MarkType
<1>3. {"early", "populate", "zero", "drop"} \subseteq Labels /\ "Allocation" \in Results
  BY DEF Labels, Results, Holding
<1> QED
  BY <1>2, <1>3 DEF AllocateSpace, AfterAllocate, Allocate, Abort, Goto, Set, Local

\* ... each check of contiguity ...
LEMMA RequireLocal ==
  ASSUME TypeOK, NEW r \in Runs, NEW l, NEW next \in Labels,
         RequireContiguous(r, l, next)
  PROVE  Local(r)
<1>1. "drop" \in Labels /\ {"Fragmented", "Unverifiable"} \subseteq Results
  BY DEF Labels, Results, Holding
<1> QED
  BY <1>1 DEF RequireContiguous, Abort, Goto, Local

\* ... each write pass ...
LEMMA WriteLocal ==
  ASSUME TypeOK, NEW r \in Runs, NEW ps \in SUBSET Pieces, NEW c \in Content,
         NEW b \in BOOLEAN, NEW next \in Labels, Write(r, ps, c, b, next)
  PROVE  Local(r)
<1>1. \A lay \in {"one", "split"} :
        [Overwrite(img[r], ps, c, lay) EXCEPT !.synced = b] \in Images
  <2> TAKE lay \in {"one", "split"}
  <2>1. lay \in Layouts /\ img[r] \in Images
    BY DEF Layouts, TypeOK
  <2>2. Overwrite(img[r], ps, c, lay) \in Images
    BY <2>1, OverwriteType
  <2> QED
    BY <2>2, MarkType
<1>2. "drop" \in Labels /\ "Io" \in Results
  BY DEF Labels, Results, Holding
<1> QED
  BY <1>1, <1>2 DEF Write, Abort, Goto, Set, Local

\* ... a pass that has nothing to write ...
LEMMA SkipLocal ==
  ASSUME NEW r \in Runs, NEW next \in Labels, Skip(r, next)
  PROVE  Local(r)
  BY DEF Skip, Goto, Local

\* ... an error, which leaves the rest to the destructor ...
LEMMA AbortLocal ==
  ASSUME NEW r \in Runs, NEW e \in Results, Abort(r, e),
         UNCHANGED <<job, attempt, img, dir, disk>>
  PROVE  Local(r)
<1>1. "drop" \in Labels
  BY DEF Labels, Holding
<1> QED
  BY <1>1 DEF Abort, Goto, Local

\* ... a sync of the file ...
LEMMA SyncLocal ==
  ASSUME TypeOK, NEW r \in Runs, NEW l, NEW next \in Labels, Sync(r, l, next)
  PROVE  Local(r)
<1>1. [img[r] EXCEPT !.synced = TRUE] \in Images
  BY MarkType DEF TypeOK
<1>2. "drop" \in Labels /\ "Io" \in Results
  BY DEF Labels, Results, Holding
<1> QED
  BY <1>1, <1>2 DEF Sync, Abort, Goto, Set, Local

\* ... and verify_written.
LEMMA VerifyLocal ==
  ASSUME NEW r \in Runs, NEW next \in Labels, VerifyWritten(r, next)
  PROVE  Local(r)
<1>1. /\ "drop" \in Labels
      /\ {"Fragmented", "Io", "Sparse", "Uninitialized", "Unverifiable"}
           \subseteq Results
  BY DEF Labels, Results, Holding
<1> QED
  BY <1>1 DEF VerifyWritten, Abort, Goto, Local

\* Creating the temporary file touches that one free name.
LEMMA CreateFrame ==
  ASSUME TypeOK, NEW r \in Runs, NEW next \in Labels, CreateTemp(r, next),
         UNCHANGED <<source, losses>>
  PROVE  Frame(r)
<1>1. Temp(r) \in Names
  BY NamesType
<1>2. \A c \in BOOLEAN : Blank(c) \in Images
  BY BlankType
<1>3. "done" \in Labels /\ "Io" \in Results
  BY DEF Labels, Results
<1>4. CASE /\ Free(r)
           /\ dir' = [dir EXCEPT ![Temp(r)] = r]
           /\ \E c \in BOOLEAN : Set(r, Blank(c))
           /\ Goto(r, next)
           /\ UNCHANGED <<attempt, result, job, disk>>
  <2>1. TypeOK'
    BY <1>1, <1>2, <1>4 DEF TypeOK, Set, Goto, Holders
  <2> QED
    BY <1>1, <1>4, <2>1 DEF Frame, TypeOK, Set, Goto, Free, Occupied
<1>5. CASE /\ ~LastAttempt(r)
           /\ attempt' = [attempt EXCEPT ![r] = NextAttempt(r)]
           /\ UNCHANGED <<pc, result, img, dir, job, disk>>
  <2>1. NextAttempt(r) \in 0 .. MaxAttempts - 1
    BY <1>5, AttemptsAssumption DEF TypeOK, LastAttempt, NextAttempt
  <2> QED
    BY <1>5, <2>1 DEF Frame, TypeOK
<1>6. CASE /\ Return(r, "Io")
           /\ UNCHANGED <<attempt, img, dir, job, disk>>
  BY <1>3, <1>6 DEF Frame, TypeOK, Return, Goto
<1> QED
  BY <1>4, <1>5, <1>6 DEF CreateTemp

\* The rename touches two names, both of the run.
LEMMA RenameFrame ==
  ASSUME TypeOK, NEW r \in Runs, dir[Temp(r)] = r, Rename(r),
         UNCHANGED <<source, losses>>
  PROVE  Frame(r)
<1>1. Temp(r) \in Names /\ Out(r) \in Names
  BY NamesType
<1>2. "dirsync" \in Labels
  BY DEF Labels
<1>3. TypeOK'
  BY <1>1, <1>2 DEF TypeOK, Rename, Goto, Holders
<1> QED
  BY <1>1, <1>2, <1>3 DEF Frame, TypeOK, Rename, Goto

\* Syncing the directory commits it as it is, or not at all.
LEMMA SyncDirFrame ==
  ASSUME TypeOK, NEW r \in Runs, SyncParentDir(r), UNCHANGED <<source, losses>>
  PROVE  Frame(r)
<1>1. "done" \in Labels /\ "Ok" \in Results
  BY DEF Labels, Results
<1> QED
  BY <1>1 DEF Frame, TypeOK, SyncParentDir, Return, Goto

\* The destructor touches the temporary name only.
LEMMA DropFrame ==
  ASSUME TypeOK, NEW r \in Runs, dir[Temp(r)] = r, DropTemp(r),
         UNCHANGED <<source, losses>>
  PROVE  Frame(r)
<1>1. Temp(r) \in Names /\ "done" \in Labels
  BY NamesType DEF Labels
<1>2. TypeOK'
  BY <1>1 DEF TypeOK, DropTemp, Unlinked, Goto, Holders
<1> QED
  BY <1>1, <1>2 DEF Frame, TypeOK, DropTemp, Unlinked, Goto

\* The steps between the opening of the file and its publication are local.
LEMMA StepLocal ==
  ASSUME TypeOK, NEW r \in Runs,
         \/ Precheck(r)      \/ AllocateSpace(r) \/ EarlyCheck(r)
         \/ Zero(r)          \/ PopulateRaw(r)   \/ PopulateQemu(r)
         \/ PopulateCopy(r)  \/ Flush(r)         \/ Verify(r)
         \/ WriteFooter(r)   \/ Recheck(r)       \/ CheckAttribute(r)
         \/ SyncAll(r)
  PROVE  Local(r)
<1>l. /\ AfterAllocate(r) \in Labels
      /\ {"early", "sync", "allocate", "populate", "written", "flush", "trailer",
          "recheck", "attribute", "publish", "fallback", "drop"} \subseteq Labels
  BY DEF Labels, Holding, AfterAllocate
<1>c. {"zero", "data", "footer"} \subseteq Content /\ {"Io", "QemuImg", "Compressed"} \subseteq Results
  BY DEF Content, Results
<1>p. /\ ToZero(r) \in SUBSET Pieces
      /\ {"head"} \in SUBSET Pieces /\ {"head", "tail"} \in SUBSET Pieces
      /\ {"foot"} \in SUBSET Pieces
  BY WantedType DEF ToZero, TypeOK, Pieces
<1>1. CASE Precheck(r)
  BY <1>1, PrecheckLocal
<1>3. CASE AllocateSpace(r)
  BY <1>3, AllocateLocal
<1>4. CASE EarlyCheck(r)
  BY <1>4, <1>l, RequireLocal DEF EarlyCheck
<1>5. CASE Zero(r)
  <2>1. CASE Write(r, ToZero(r), "zero", TRUE, IF Is(r, {"create"}) THEN "written" ELSE "populate")
    BY <2>1, <1>l, <1>c, <1>p, WriteLocal
  <2>2. CASE Skip(r, IF Is(r, {"create"}) THEN "written" ELSE "populate")
    BY <2>2, <1>l, SkipLocal
  <2> QED
    BY <1>5, <2>1, <2>2 DEF Zero
<1>6. CASE PopulateRaw(r)
  <2>1. CASE Write(r, {"head"}, "data", FALSE, "flush")
    BY <2>1, <1>l, <1>c, <1>p, WriteLocal
  <2>2. CASE Skip(r, "flush")
    BY <2>2, <1>l, SkipLocal
  <2> QED
    BY <1>6, <2>1, <2>2 DEF PopulateRaw
<1>7. CASE PopulateQemu(r)
  <2>1. CASE Write(r, {"head"}, "data", FALSE, "flush")
    BY <2>1, <1>l, <1>c, <1>p, WriteLocal
  <2>2. CASE Abort(r, "QemuImg") /\ UNCHANGED <<job, attempt, img, dir, disk>>
    BY <2>2, <1>c, AbortLocal
  <2> QED
    BY <1>7, <2>1, <2>2 DEF PopulateQemu
<1>8. CASE PopulateCopy(r)
  <2>1. CASE \E ps \in {{"head"}, {"head", "tail"}} : Write(r, ps, "data", FALSE, "flush")
    BY <2>1, <1>l, <1>c, <1>p, WriteLocal
  <2>2. CASE Abort(r, "Io") /\ UNCHANGED <<job, attempt, img, dir, disk>>
    BY <2>2, <1>c, AbortLocal
  <2>3. CASE Skip(r, "flush")
    BY <2>3, <1>l, SkipLocal
  <2> QED
    BY <1>8, <2>1, <2>2, <2>3 DEF PopulateCopy
<1>9. CASE Flush(r)
  BY <1>9, <1>l, SyncLocal DEF Flush
<1>10. CASE Verify(r)
  BY <1>10, <1>l, VerifyLocal DEF Verify
<1>11. CASE WriteFooter(r)
  <2>1. CASE Write(r, {"foot"}, "footer", FALSE, "recheck")
    BY <2>1, <1>l, <1>c, <1>p, WriteLocal
  <2>2. CASE Skip(r, "recheck")
    BY <2>2, <1>l, SkipLocal
  <2> QED
    BY <1>11, <2>1, <2>2 DEF WriteFooter
<1>12. CASE Recheck(r)
  BY <1>12, <1>l, RequireLocal DEF Recheck
<1>13. CASE CheckAttribute(r)
  BY <1>13, <1>l, <1>c DEF CheckAttribute, Abort, Goto, Local
<1>14. CASE SyncAll(r)
  BY <1>14, <1>l, SyncLocal DEF SyncAll
<1> QED
  BY <1>1, <1>3, <1>4, <1>5, <1>6, <1>7, <1>8, <1>9, <1>10, <1>11, <1>12, <1>13,
     <1>14

\* Every step of a run that owns its temporary name stays in its frame.
LEMMA StepFrame ==
  ASSUME TypeOK, OwnsTemp, NEW r \in Runs, Run(r)
  PROVE  Frame(r)
<1> UNCHANGED <<source, losses>> /\ Step(r)
  BY DEF Run
<1>1. pc[r] \in {"publish", "fallback", "drop"} => dir[Temp(r)] = r
  BY DEF OwnsTemp, Holding
<1>2. {"sync", "allocate", "fallback"} \subseteq Labels /\ "Io" \in Results
  BY DEF Labels, Holding, Results
<1>3. CASE Create(r)
  BY <1>2, <1>3, CreateFrame DEF Create
<1>4. CASE Rename(r) /\ (Publish(r) \/ RenameAfterCheck(r))
  BY <1>1, <1>4, RenameFrame DEF Publish, RenameAfterCheck
<1>5. CASE Skip(r, "fallback")
  BY <1>2, <1>5, SkipLocal, LocalFrame
<1>6. CASE Abort(r, "Io") /\ UNCHANGED <<job, attempt, img, dir, disk>>
  BY <1>2, <1>6, AbortLocal, LocalFrame
<1>7. CASE SyncParentDir(r)
  BY <1>7, SyncDirFrame
<1>8. CASE DropTemp(r)
  BY <1>1, <1>8, DropFrame DEF DropTemp
<1>9. Publish(r) \/ RenameAfterCheck(r) => Frame(r)
  BY <1>4, <1>5, <1>6 DEF Publish, RenameAfterCheck
<1> QED
  BY <1>3, <1>7, <1>8, <1>9, StepLocal, LocalFrame DEF Step

-----------------------------------------------------------------------------
(* The inductive invariant *)

\* What is known of the file of r at each step of its way to publication.  A
\* verification establishes the parts of Good; the steps after it must keep them.
Stage(r) ==
  /\ pc[r] \notin {"drop", "done", "dead"} => result[r] = "none"
  /\ pc[r] \in {"trailer", "recheck", "attribute"} =>
       Is(r, Building) /\ FullyAllocated(job[r], img[r])
  /\ pc[r] \in {"recheck", "attribute"} /\ WantsFooter(job[r]) =>
       img[r].piece["foot"] = "footer"
  /\ pc[r] = "attribute" => img[r].layout = "one"
  /\ pc[r] \in {"sync", "publish", "fallback"} => Good(job[r], img[r])
  /\ pc[r] \in {"publish", "fallback"} => img[r].synced
  /\ pc[r] = "fallback" => ~NoReplace

Owns(r) == pc[r] \in Holding => dir[Temp(r)] = r

\* A file with a target's name, now or after a power loss, is past its rename,
\* good, and on the medium.
Published(r) ==
  Named(r) => /\ pc[r] \in {"dirsync", "done", "dead"}
              /\ result[r] \in {"none", "Ok"}
              /\ Good(job[r], img[r]) /\ img[r].synced

Inv == TypeOK /\ \A r \in Runs : Owns(r) /\ Stage(r) /\ Published(r)

\* The invariant contains the ownership of the temporary name.
LEMMA InvOwns == Inv => OwnsTemp
  BY DEF Inv, Owns, OwnsTemp

\* A step of r leaves what is known of every other run as it was.
LEMMA OthersKeep ==
  ASSUME Inv, NEW r \in Runs, NEW q \in Runs \ {r}, Frame(r)
  PROVE  Owns(q)' /\ Stage(q)' /\ Published(q)'
<1>1. /\ job' = job /\ pc'[q] = pc[q] /\ attempt'[q] = attempt[q]
      /\ result'[q] = result[q] /\ img'[q] = img[q]
  BY DEF Frame
<1>2. /\ Temp(q)' = Temp(q) /\ Is(q, Building)' = Is(q, Building)
      /\ Good(job[q], img[q])' = Good(job[q], img[q])
      /\ FullyAllocated(job[q], img[q])' = FullyAllocated(job[q], img[q])
      /\ WantsFooter(job[q])' = WantsFooter(job[q])
  BY <1>1 DEF Temp, Is
<1>3. \A n \in Names : dir'[n] = q => dir[n] = q
  BY HolderAssumption DEF Frame
<1>4. Owns(q)'
  <2> SUFFICES ASSUME pc[q] \in Holding PROVE dir'[Temp(q)] = q
    BY <1>1, <1>2 DEF Owns
  <2>1. dir[Temp(q)] = q
    BY DEF Inv, Owns
  <2>2. Temp(q) \in Names /\ Temp(q) # Out(r)
    BY NamesType, NamesAssumption DEF Inv
  <2> QED
    BY <2>1, <2>2, HolderAssumption DEF Frame
<1>5. Stage(q)'
  BY <1>1, <1>2 DEF Inv, Stage
<1>6. Published(q)'
  <2>1. Named(q)' => Named(q)
    BY <1>3 DEF Named, Frame, Names
  <2> QED
    BY <1>1, <1>2, <2>1 DEF Inv, Published
<1> QED
  BY <1>4, <1>5, <1>6

\* A local step of r leaves the directory's view of r as it was.
LEMMA LocalKeeps ==
  ASSUME Inv, NEW r \in Runs, Local(r), pc[r] \notin {"dirsync", "done", "dead"}
  PROVE  /\ Published(r)'
         /\ job' = job
         /\ pc[r] \in Holding => Owns(r)'
<1>1. ~Named(r)
  BY DEF Inv, Published
<1>2. ~Named(r)'
  BY <1>1 DEF Local, Named
<1>3. Temp(r)' = Temp(r) /\ dir' = dir
  BY DEF Local, Temp
<1> QED
  BY <1>2, <1>3 DEF Published, Inv, Owns, Local

\* A run that gives up has nothing left to keep.
LEMMA AbortStage ==
  ASSUME TypeOK, NEW r \in Runs, NEW e, Abort(r, e)
  PROVE  Stage(r)'
  BY DEF Abort, Goto, Stage, TypeOK

\* A run that moves on to a step of which nothing needs to be known.
LEMMA PlainStage ==
  ASSUME TypeOK, NEW r \in Runs,
         NEW l \in {"create", "allocate", "early", "zero", "populate", "flush", "written"},
         Goto(r, l), UNCHANGED result, pc[r] \notin {"drop", "done", "dead"}, Stage(r)
  PROVE  Stage(r)'
  BY DEF Goto, Stage, TypeOK

\* The steps up to the verification of what was written.
LEMMA BuildKeeps ==
  ASSUME Inv, NEW r \in Runs,
         \/ Precheck(r)     \/ AllocateSpace(r) \/ EarlyCheck(r)
         \/ Zero(r)         \/ PopulateRaw(r)   \/ PopulateQemu(r)
         \/ PopulateCopy(r) \/ Flush(r),
         Local(r)
  PROVE  Owns(r)' /\ Stage(r)' /\ Published(r)'
<1>1. pc[r] \in {"precheck", "allocate", "early", "zero", "populate", "flush"}
  BY DEF Precheck, AllocateSpace, Allocate, EarlyCheck, RequireContiguous, Zero,
         PopulateRaw, PopulateQemu, PopulateCopy, Flush, Sync
<1>2. Published(r)' /\ (pc[r] \in Holding => Owns(r)')
  BY <1>1, LocalKeeps
<1>3. pc[r] \in Holding \/ pc[r] = "precheck"
  BY <1>1 DEF Holding
<1>4. CASE Precheck(r)
  <2>1. pc'[r] \in {"done", "create"} /\ (pc'[r] = "create" => result' = result)
    BY <1>4 DEF Precheck, Return, Goto, Inv, TypeOK
  <2>2. Owns(r)'
    BY <2>1 DEF Owns, Holding
  <2>3. pc[r] = "precheck"
    BY <1>4 DEF Precheck
  <2>4. Stage(r)'
    BY <2>1, <2>3 DEF Inv, Stage
  <2> QED
    BY <1>2, <2>2, <2>4
<1>5. ASSUME pc[r] # "precheck", NEW e, Abort(r, e)
      PROVE  Owns(r)' /\ Stage(r)' /\ Published(r)'
  <2>1. Stage(r)'
    BY <1>5, AbortStage DEF Inv
  <2> QED
    BY <1>2, <1>3, <1>5, <2>1
<1>6. ASSUME pc[r] # "precheck", UNCHANGED result,
             NEW l \in {"early", "zero", "populate", "flush", "written"}, Goto(r, l)
      PROVE  Owns(r)' /\ Stage(r)' /\ Published(r)'
  <2>1. Stage(r)'
    BY <1>1, <1>6, PlainStage DEF Inv
  <2> QED
    BY <1>2, <1>3, <1>6, <2>1
<1>7. CASE AllocateSpace(r)
  <2>1. \/ Abort(r, "Allocation")
        \/ UNCHANGED result /\ \E l \in {"early", "zero", "populate"} : Goto(r, l)
    BY <1>7 DEF AllocateSpace, AfterAllocate, Allocate
  <2> QED
    BY <1>5, <1>6, <1>7, <2>1 DEF AllocateSpace, Allocate
<1>8. CASE EarlyCheck(r)
  <2>1. \/ \E e : Abort(r, e)
        \/ UNCHANGED result /\ \E l \in {"zero", "populate"} : Goto(r, l)
    BY <1>8 DEF EarlyCheck, AfterAllocate, RequireContiguous
  <2> QED
    BY <1>5, <1>6, <1>8, <2>1 DEF EarlyCheck, RequireContiguous
<1>9. CASE Zero(r) \/ PopulateRaw(r) \/ PopulateQemu(r) \/ PopulateCopy(r)
  <2>1. \/ \E e : Abort(r, e)
        \/ UNCHANGED result /\ \E l \in {"populate", "written", "flush"} : Goto(r, l)
    BY <1>9 DEF Zero, PopulateRaw, PopulateQemu, PopulateCopy, Write, Skip
  <2> QED
    BY <1>5, <1>6, <1>9, <2>1 DEF Zero, PopulateRaw, PopulateQemu, PopulateCopy
<1>10. CASE Flush(r)
  <2>1. \/ \E e : Abort(r, e)
        \/ UNCHANGED result /\ Goto(r, "written")
    BY <1>10 DEF Flush, Sync
  <2> QED
    BY <1>5, <1>6, <1>10, <2>1 DEF Flush, Sync
<1> QED
  BY <1>4, <1>7, <1>8, <1>9, <1>10

\* An empty source needs no extent: nothing is asked of its copy.
LEMMA EmptyIsGood ==
  ASSUME NEW j \in Jobs, NEW i, Wanted(j) = {}
  PROVE  Good(j, i)
<1>1. j.cmd \notin Building
  BY DEF Jobs, Wanted, Building, Pieces
<1> QED
  BY <1>1 DEF Good, WantsFooter, FullyAllocated

\* Opening the temporary file: the run owns a name that no one else had.
LEMMA CreateKeeps ==
  ASSUME Inv, NEW r \in Runs, Create(r), TypeOK'
  PROVE  Owns(r)' /\ Stage(r)' /\ Published(r)'
<1> DEFINE next == IF Wanted(job[r]) = {} THEN "sync" ELSE "allocate"
<1>1. pc[r] = "create" /\ job' = job /\ disk' = disk
  BY DEF Create, CreateTemp
<1>2. ~Named(r) /\ Temp(r) \in Names /\ Temp(r) \notin Targets
  BY <1>1, NamesType, NamesAssumption DEF Inv, Published
<1>3. ~Named(r)'
  <2>1. \A t \in Targets : dir'[t] = dir[t]
    BY <1>2 DEF Create, CreateTemp, Inv, TypeOK, Names
  <2> QED
    BY <1>1, <1>2, <2>1 DEF Named
<1>4. Published(r)'
  BY <1>3 DEF Published
<1>5. CASE dir' = [dir EXCEPT ![Temp(r)] = r] /\ Goto(r, next)
             /\ UNCHANGED <<attempt, result>>
  <2>1. pc'[r] = next /\ Temp(r)' = Temp(r) /\ dir'[Temp(r)] = r
    BY <1>1, <1>2, <1>5 DEF Inv, TypeOK, Goto, Temp
  <2>2. next = "sync" => Good(job'[r], img'[r])
    BY <1>1, EmptyIsGood DEF TypeOK
  <2>3. Stage(r)'
    BY <1>1, <1>5, <2>1, <2>2 DEF Inv, Stage
  <2> QED
    BY <1>4, <2>1, <2>3 DEF Owns
<1>6. CASE UNCHANGED <<pc, result, img>>
  <2>1. Stage(r)' /\ Owns(r)'
    BY <1>1, <1>6 DEF Inv, Stage, Owns, Holding
  <2> QED
    BY <1>4, <2>1
<1>7. CASE Return(r, "Io")
  <2>1. pc'[r] = "done"
    BY <1>7 DEF Return, Goto, Inv, TypeOK
  <2> QED
    BY <1>4, <2>1 DEF Stage, Owns, Holding
<1> QED
  BY <1>5, <1>6, <1>7 DEF Create, CreateTemp

\* The steps from the verification to the fsync: what it established is kept.
LEMMA CheckKeeps ==
  ASSUME Inv, NEW r \in Runs,
         \/ Verify(r) \/ WriteFooter(r) \/ Recheck(r) \/ CheckAttribute(r)
         \/ SyncAll(r),
         Local(r)
  PROVE  Owns(r)' /\ Stage(r)' /\ Published(r)'
<1>1. pc[r] \in {"written", "trailer", "recheck", "attribute", "sync"}
  BY DEF Verify, VerifyWritten, WriteFooter, Recheck, RequireContiguous,
         CheckAttribute, SyncAll, Sync
<1>2. Published(r)' /\ Owns(r)' /\ job' = job
  BY <1>1, LocalKeeps DEF Holding
<1>3. pc[r] \notin {"drop", "done", "dead"} /\ TypeOK /\ Stage(r)
  BY <1>1 DEF Inv
<1>4. CASE \E e : Abort(r, e)
  BY <1>2, <1>3, <1>4, AbortStage
<1>t. img[r] \in Images /\ job[r] \in Jobs /\ (Is(r, Copying) => ~Is(r, Building))
  BY <1>3 DEF TypeOK, Is, Copying, Building
<1>5. CASE /\ Verify(r)
           /\ Goto(r, IF Is(r, Copying) THEN "sync" ELSE "trailer")
           /\ UNCHANGED result
  <2>1. ~Is(r, Copying) => Is(r, Building)
    BY <1>t DEF Jobs, Is, Iodd, Building, Copying
  <2>2. FullyAllocated(job[r], img[r]) /\ img[r].layout = "one" /\ img' = img
    BY <1>3, <1>5 DEF Verify, VerifyWritten, Abort, Goto, TypeOK
  <2>3. Is(r, Copying) => Good(job[r], img[r])
    BY <1>t, <2>2 DEF Good, WantsFooter, Is
  <2>4. Stage(r)'
    BY <1>2, <1>3, <1>5, <2>1, <2>2, <2>3 DEF Stage, TypeOK, Goto, Is, Verify,
       VerifyWritten
  <2> QED
    BY <1>2, <2>4
<1>6. CASE /\ WriteFooter(r) /\ Goto(r, "recheck") /\ UNCHANGED result
  <2>1. pc[r] = "trailer"
    BY <1>6 DEF WriteFooter
  <2>2. CASE UNCHANGED img /\ ~WantsFooter(job[r])
    BY <1>2, <1>3, <1>6, <2>1, <2>2 DEF Stage, TypeOK, Goto, Is
  <2>3. ASSUME NEW lay \in {"one", "split"}, WantsFooter(job[r]),
               img' = [img EXCEPT ![r] =
                 [Overwrite(img[r], {"foot"}, "footer", lay) EXCEPT !.synced = FALSE]]
        PROVE  Stage(r)'
    <3> DEFINE i == Overwrite(img[r], {"foot"}, "footer", lay)
    <3>1. /\ i \in Images /\ i.piece["foot"] = "footer"
          /\ \A p \in Pieces \ {"foot"} : i.piece[p] = img[r].piece[p]
      BY <1>t, OverwriteType DEF Pieces, Content, Layouts
    <3>2. /\ img'[r].piece["foot"] = "footer"
          /\ \A p \in Pieces \ {"foot"} : img'[r].piece[p] = img[r].piece[p]
      BY <1>3, <2>3, <3>1, MarkType DEF TypeOK
    <3>3. FullyAllocated(job[r], img[r]) /\ Is(r, Building)
      BY <1>3, <2>1 DEF Stage
    <3>4. Wanted(job[r]) \in SUBSET Pieces
      BY <1>t, WantedType
    <3>5. FullyAllocated(job'[r], img'[r])
      BY <1>2, <3>2, <3>3, <3>4 DEF FullyAllocated
    <3> QED
      BY <1>2, <1>3, <1>6, <2>1, <3>2, <3>3, <3>5 DEF Stage, TypeOK, Goto, Is
  <2> QED
    BY <1>2, <1>3, <1>6, <2>1, <2>2, <2>3
       DEF WriteFooter, Write, Skip, Abort, Goto, Set, TypeOK
<1>7. CASE /\ Recheck(r) /\ Goto(r, "attribute") /\ UNCHANGED result
  BY <1>2, <1>3, <1>7 DEF Stage, TypeOK, Recheck, RequireContiguous, Abort, Goto, Is
<1>8. CASE /\ CheckAttribute(r) /\ Goto(r, "sync") /\ UNCHANGED result
  BY <1>2, <1>3, <1>8 DEF Stage, TypeOK, CheckAttribute, Abort, Goto, Good
<1>9. CASE /\ SyncAll(r) /\ Goto(r, "publish") /\ UNCHANGED result
  <2>1. pc[r] = "sync" /\ Good(job[r], img[r])
    BY <1>3, <1>9 DEF SyncAll, Sync, Stage
  <2>2. img'[r] = [img[r] EXCEPT !.synced = TRUE]
    BY <1>3, <1>9 DEF SyncAll, Sync, Set, Abort, Goto, TypeOK
  <2>3. Good(job'[r], img'[r]) /\ img'[r].synced
    BY <1>2, <1>t, <2>1, <2>2, MarkType DEF Good, FullyAllocated
  <2> QED
    BY <1>2, <1>3, <1>9, <2>1, <2>3 DEF Stage, TypeOK, Goto
<1> QED
  BY <1>4, <1>5, <1>6, <1>7, <1>8, <1>9
     DEF Verify, VerifyWritten, WriteFooter, Write, Skip, Recheck,
         RequireContiguous, CheckAttribute, SyncAll, Sync

\* The rename gives the name of the target to a file that is good and synced.
LEMMA RenameKeeps ==
  ASSUME Inv, NEW r \in Runs, pc[r] \in {"publish", "fallback"}, Rename(r)
  PROVE  Owns(r)' /\ Stage(r)' /\ Published(r)'
<1>1. Good(job[r], img[r]) /\ img[r].synced /\ result[r] = "none"
  BY DEF Inv, Stage
<1>2. pc'[r] = "dirsync" /\ UNCHANGED <<job, img, result>>
  BY DEF Rename, Goto, Inv, TypeOK
<1> QED
  BY <1>1, <1>2 DEF Owns, Stage, Published, Holding

\* The last steps of a run.
LEMMA PublishKeeps ==
  ASSUME Inv, NEW r \in Runs,
         Publish(r) \/ RenameAfterCheck(r) \/ SyncParentDir(r) \/ DropTemp(r)
  PROVE  Owns(r)' /\ Stage(r)' /\ Published(r)'
<1>0. TypeOK /\ Stage(r) /\ Published(r) /\ Owns(r)
  BY DEF Inv
<1>1. CASE Rename(r)
  <2>1. pc[r] \in {"publish", "fallback"}
    BY <1>1 DEF Rename, Goto, Publish, RenameAfterCheck, SyncParentDir, Return, DropTemp, Inv, TypeOK
  <2> QED
    BY <1>1, <2>1, RenameKeeps
<1>2. CASE /\ pc[r] \in {"publish", "fallback"} /\ Abort(r, "Io")
           /\ UNCHANGED <<job, attempt, img, dir, disk>>
  <2>1. "Io" \in Results
    BY DEF Results
  <2>2. Local(r)
    BY <1>2, <2>1, AbortLocal
  <2>3. Published(r)' /\ Owns(r)'
    BY <1>2, <2>2, LocalKeeps DEF Holding
  <2> QED
    BY <1>0, <1>2, <2>3, AbortStage
<1>3. CASE /\ pc[r] = "publish" /\ ~NoReplace /\ Skip(r, "fallback")
  <2>1. "fallback" \in Labels
    BY DEF Labels, Holding
  <2>2. Local(r)
    BY <1>3, <2>1, SkipLocal
  <2>3. Published(r)' /\ Owns(r)'
    BY <1>3, <2>2, LocalKeeps DEF Holding
  <2>4. Stage(r)'
    BY <1>0, <1>3 DEF Stage, Skip, Goto, TypeOK
  <2> QED
    BY <2>3, <2>4
<1>4. CASE SyncParentDir(r)
  <2>1. /\ pc[r] = "dirsync" /\ pc'[r] = "done" /\ result'[r] = "Ok"
        /\ UNCHANGED <<job, img, dir>> /\ disk' \in {dir, disk}
    BY <1>0, <1>4 DEF SyncParentDir, Return, Goto, TypeOK
  <2>2. Named(r)' => Named(r)
    BY <2>1 DEF Named
  <2> QED
    BY <1>0, <2>1, <2>2 DEF Owns, Stage, Published, Holding
<1>5. CASE DropTemp(r)
  <2>1. pc[r] = "drop" /\ pc'[r] = "done" /\ disk' = disk
    BY <1>0, <1>5 DEF DropTemp, Goto, TypeOK
  <2>2. \A t \in Targets : dir'[t] = dir[t]
    BY <1>0, <1>5, NamesType, NamesAssumption DEF DropTemp, Unlinked, TypeOK, Names
  <2>3. ~Named(r)'
    BY <1>0, <2>1, <2>2 DEF Named, Published
  <2> QED
    BY <2>1, <2>3 DEF Owns, Stage, Published, Holding
<1> QED
  BY <1>1, <1>2, <1>3, <1>4, <1>5 DEF Publish, RenameAfterCheck

\* Every step of a run keeps the invariant.
LEMMA RunInv ==
  ASSUME Inv, NEW r \in Runs, Run(r)
  PROVE  Inv'
<1>1. Frame(r)
  BY StepFrame, InvOwns DEF Inv
<1>2. TypeOK' /\ TypeOK
  BY <1>1 DEF Frame, Inv
<1>3. Owns(r)' /\ Stage(r)' /\ Published(r)'
  <2>1. CASE Create(r)
    BY <1>2, <2>1, CreateKeeps
  <2>2. CASE Publish(r) \/ RenameAfterCheck(r) \/ SyncParentDir(r) \/ DropTemp(r)
    BY <2>2, PublishKeeps
  <2>3. CASE \/ Precheck(r)     \/ AllocateSpace(r) \/ EarlyCheck(r)
             \/ Zero(r)         \/ PopulateRaw(r)   \/ PopulateQemu(r)
             \/ PopulateCopy(r) \/ Flush(r)
    BY <1>2, <2>3, StepLocal, BuildKeeps
  <2>4. CASE \/ Verify(r) \/ WriteFooter(r) \/ Recheck(r) \/ CheckAttribute(r)
             \/ SyncAll(r)
    BY <1>2, <2>4, StepLocal, CheckKeeps
  <2> QED
    BY <2>1, <2>2, <2>3, <2>4 DEF Run, Step
<1> QED
  BY <1>1, <1>2, <1>3, OthersKeep DEF Inv

\* A killed run keeps what it has published, and nothing else is asked of it.
LEMMA KillInv ==
  ASSUME Inv, NEW r \in Runs, Kill(r)
  PROVE  Inv'
<1>1. TypeOK'
  BY DEF Inv, TypeOK, Kill, Goto, Labels
<1>2. \A q \in Runs : pc'[q] = pc[q] \/ pc'[q] = "dead"
  BY DEF Inv, TypeOK, Kill, Goto
<1>3. UNCHANGED <<job, attempt, result, img, dir, disk>>
  BY DEF Kill
<1>4. ASSUME NEW q \in Runs PROVE Owns(q)' /\ Stage(q)' /\ Published(q)'
  <2>1. Owns(q) /\ Stage(q) /\ Published(q)
    BY DEF Inv
  <2> QED
    BY <1>2, <1>3, <2>1 DEF Owns, Stage, Published, Named, Temp, Is, Holding
<1> QED
  BY <1>1, <1>4 DEF Inv

\* Another program's file takes a free name, which is no run's.
LEMMA AppearInv ==
  ASSUME Inv, NEW t \in Targets, Appear(t)
  PROVE  Inv'
<1>1. TypeOK'
  BY DEF Inv, TypeOK, Appear, Holders, Names
<1>2. /\ UNCHANGED <<job, pc, attempt, result, img, disk>>
      /\ dir' = [dir EXCEPT ![t] = User]
  BY DEF Appear
<1>3. ASSUME NEW q \in Runs PROVE Owns(q)' /\ Stage(q)' /\ Published(q)'
  <2>1. Owns(q) /\ Stage(q) /\ Published(q)
    BY DEF Inv
  <2>2. Temp(q) \in Names /\ Temp(q) # t
    BY NamesType, NamesAssumption DEF Inv
  <2>3. Named(q)' => Named(q)
    BY <1>2, HolderAssumption DEF Named, Inv, TypeOK, Names
  <2>4. Owns(q)' /\ Stage(q)'
    BY <1>2, <2>1, <2>2 DEF Owns, Stage, Temp, Is, Inv, TypeOK
  <2> QED
    BY <1>2, <2>1, <2>3, <2>4 DEF Published
<1> QED
  BY <1>1, <1>3 DEF Inv

\* Power loss brings back the names on the medium, and only synced files keep
\* their contents; Published has both.
LEMMA PowerLossInv ==
  ASSUME Inv, PowerLoss
  PROVE  Inv'
<1>1. \A r \in Runs : Lost(img[r]) \in Images
  <2> TAKE r \in Runs
  <2> DEFINE i == img[r]
             ps == {p \in Pieces : i.piece[p] # "none"}
  <2>1. /\ i \in Images /\ i.layout \in Layouts
        /\ ps \in SUBSET Pieces /\ "stale" \in Content
    BY DEF Inv, TypeOK, Images, Content
  <2>2. Overwrite(i, ps, "stale", i.layout) \in Images
    <3> HIDE DEF i, ps
    <3> QED
      BY <2>1, OverwriteType
  <2> QED
    BY <2>2 DEF Lost
<1>2. TypeOK'
  <2>1. pc' \in [Runs -> Labels]
    BY DEF PowerLoss, Inv, TypeOK, Labels
  <2>2. img' \in [Runs -> Images]
    BY <1>1 DEF PowerLoss, Inv, TypeOK
  <2> QED
    BY <2>1, <2>2 DEF PowerLoss, Inv, TypeOK
<1>3. ASSUME NEW q \in Runs PROVE Owns(q)' /\ Stage(q)' /\ Published(q)'
  <2>1. Stage(q) /\ Published(q)
    BY DEF Inv
  <2>2. /\ UNCHANGED <<job, result>>
        /\ pc'[q] = IF pc[q] \in {"precheck", "done"} THEN pc[q] ELSE "dead"
        /\ img[q].synced => img'[q] = img[q]
        /\ dir' = disk /\ disk' = disk
    BY DEF PowerLoss
  <2>3. Named(q)' => Named(q)
    BY <2>2 DEF Named
  <2>4. Published(q)'
    BY <2>1, <2>2, <2>3 DEF Published
  <2>5. Stage(q)' /\ Owns(q)'
    BY <2>1, <2>2 DEF Stage, Owns, Holding
  <2> QED
    BY <2>4, <2>5
<1> QED
  BY <1>2, <1>3 DEF Inv

\* The kernel commits only what the directory already shows.
LEMMA WriteBackInv ==
  ASSUME Inv, WriteBack
  PROVE  Inv'
<1>1. TypeOK'
  BY DEF Inv, TypeOK, WriteBack
<1>2. \A q \in Runs : Named(q)' => Named(q)
  BY DEF WriteBack, Named
<1> QED
  BY <1>1, <1>2
     DEF Inv, WriteBack, Owns, Stage, Published, Temp, Is

\* A source cut short by another program is not part of the invariant.
LEMMA CutInv ==
  ASSUME Inv, NEW r \in Runs, CutSource(r)
  PROVE  Inv'
  BY DEF Inv, TypeOK, CutSource, Owns, Stage, Published, Named, Temp, Is

\* The invariant holds before any run has started.
LEMMA InitInv == Init => Inv
<1> SUFFICES ASSUME Init PROVE Inv
  OBVIOUS
<1>1. TypeOK
  <2>1. job \in [Runs -> Jobs] /\ losses \in Nat /\ source \in [Runs -> {"whole", "cut"}]
    BY JobAssumption DEF Init
  <2>2. attempt \in [Runs -> 0 .. MaxAttempts - 1]
    BY AttemptsAssumption DEF Init
  <2>3. pc \in [Runs -> Labels] /\ result \in [Runs -> Results]
    BY DEF Init, Labels, Results
  <2>4. img \in [Runs -> Images]
    BY BlankType DEF Init
  <2>5. dir \in [Names -> Holders] /\ disk \in [Names -> Holders]
    BY DEF Init, Holders
  <2> QED
    BY <2>1, <2>2, <2>3, <2>4, <2>5 DEF TypeOK
<1>2. ASSUME NEW r \in Runs PROVE Owns(r) /\ Stage(r) /\ Published(r)
  <2>1. ~Named(r)
    BY HolderAssumption DEF Init, Named, Names
  <2> QED
    BY <2>1 DEF Init, Owns, Stage, Published, Holding
<1> QED
  BY <1>1, <1>2 DEF Inv

\* The invariant is inductive.
LEMMA NextInv == Inv /\ [Next]_vars => Inv'
<1> SUFFICES ASSUME Inv, [Next]_vars PROVE Inv'
  OBVIOUS
<1>1. CASE UNCHANGED vars
  BY <1>1 DEF vars, Inv, TypeOK, Owns, Stage, Published, Named, Temp, Is
<1>2. CASE Next
  BY <1>2, RunInv, KillInv, CutInv, AppearInv, WriteBackInv, PowerLossInv DEF Next
<1> QED
  BY <1>1, <1>2

\* The inductive invariant holds in every reachable state.
THEOREM Invariance == Spec => []Inv
  BY InitInv, NextInv, PTL DEF Spec

-----------------------------------------------------------------------------
(* The theorems *)

\* Every variable keeps its type.
THEOREM BuilderTypes == Spec => []TypeOK
<1>1. Inv => TypeOK
  BY DEF Inv
<1> QED
  BY Invariance, <1>1, PTL

\* A temporary name belongs to the run that builds under it.
THEOREM BuilderOwnsTemp == Spec => []OwnsTemp
  BY Invariance, InvOwns, PTL

\* No target's name, now or after a power loss, stands for a file of a run
\* that is fragmented, sparse, without its footer or compressed.
THEOREM BuilderPublishedIsGood == Spec => []PublishedIsGood
<1>1. Inv => PublishedIsGood
  BY DEF Inv, Published, PublishedIsGood
<1> QED
  BY Invariance, <1>1, PTL

\* A run that exits with a code other than 0 has published nothing, under any
\* name (TempTarget: "Failure never publishes").
THEOREM BuilderFailureNeverPublishes == Spec => []FailureNeverPublishes
<1>1. ExitCode("Ok") = 0
  BY DEF ExitCode
<1>2. Inv => FailureNeverPublishes
  BY <1>1 DEF Inv, Published, FailureNeverPublishes
<1> QED
  BY Invariance, <1>2, PTL

\* No run and no other program takes the name of a target from a file that had
\* it; only power loss takes the directory back, to a name on the medium.
THEOREM BuilderNeverMissing == Spec => NeverMissing
<1>1. ASSUME Inv, [Next]_vars, NEW t \in Targets, dir[t] # NoFile, disk[t] # NoFile
      PROVE  dir'[t] # NoFile /\ disk'[t] # NoFile
  <2>1. ASSUME NEW r \in Runs, Run(r)
        PROVE  dir'[t] # NoFile /\ disk'[t] # NoFile
    <3>1. Frame(r)
      BY <1>1, <2>1, StepFrame, InvOwns DEF Inv
    <3>2. t \in Names /\ t # Temp(r)
      BY <1>1, NamesType, NamesAssumption DEF Inv, Names
    <3> QED
      BY <1>1, <3>1, <3>2, HolderAssumption DEF Frame
  <2>2. ASSUME NEW u \in Targets, Appear(u)
        PROVE  dir'[t] # NoFile /\ disk'[t] # NoFile
    BY <1>1, <2>2 DEF Appear, Occupied, Inv, TypeOK, Names
  <2> QED
    BY <1>1, <2>1, <2>2 DEF Next, Kill, CutSource, WriteBack, PowerLoss, vars
<1>2. Inv /\ [Next]_vars =>
        [\A t \in Targets :
           dir[t] # NoFile /\ disk[t] # NoFile
           => dir'[t] # NoFile /\ disk'[t] # NoFile]_vars
  BY <1>1
<1> QED
  BY Invariance, <1>2, PTL DEF Spec, NeverMissing

\* Without --force a run takes a target's name only from no file, wherever the
\* file system knows RENAME_NOREPLACE.
THEOREM BuilderNoClobber == Spec => NoClobber
<1>1. ASSUME Inv, Next, losses' = losses, NEW r \in Runs, NEW t \in Targets,
             dir[t] \notin {r, NoFile}, dir'[t] = r
      PROVE  Replaces(job[r]) \/ ~NoReplace
  <2>1. ASSUME NEW q \in Runs, Run(q)
        PROVE  Replaces(job[r]) \/ ~NoReplace
    <3>1. t \in Names /\ t # Temp(q) /\ Temp(q) \in Names /\ Out(q) \in Names
      BY <1>1, NamesType, NamesAssumption DEF Inv, Names
    <3>2. q = r /\ t = Out(r) /\ dir' # dir
      <4>1. Frame(q)
        BY <1>1, <2>1, StepFrame, InvOwns DEF Inv
      <4> QED
        BY <1>1, <3>1, <4>1, HolderAssumption DEF Frame
    <3>3. Publish(r) \/ RenameAfterCheck(r)
      <4>1. ~Local(r)
        BY <3>2 DEF Local
      <4>2. ~SyncParentDir(r)
        BY <3>2 DEF SyncParentDir
      <4>3. ~DropTemp(r) /\ ~Create(r)
        BY <1>1, <3>1, <3>2 DEF DropTemp, Unlinked, Create, CreateTemp, Inv, TypeOK
      <4> QED
        BY <1>1, <2>1, <3>2, <4>1, <4>2, <4>3, StepLocal DEF Run, Step, Inv
    <3>4. CASE Publish(r)
      BY <1>1, <3>2, <3>4 DEF Publish, Installs, Skip, Occupied
    <3>5. CASE RenameAfterCheck(r)
      BY <1>1, <3>5 DEF RenameAfterCheck, Inv, Stage
    <3> QED
      BY <3>3, <3>4, <3>5
  <2>2. ASSUME NEW u \in Targets, Appear(u) PROVE FALSE
    BY <1>1, <2>2, HolderAssumption DEF Appear, Inv, TypeOK, Names
  <2>3. ~PowerLoss
    BY <1>1 DEF PowerLoss, Inv, TypeOK
  <2> QED
    BY <1>1, <2>1, <2>2, <2>3 DEF Next, Kill, CutSource, WriteBack
<1>2. Inv /\ [Next]_vars =>
        [\A r \in Runs, t \in Targets :
           /\ losses' = losses
           /\ dir[t] \notin {r, NoFile}
           /\ dir'[t] = r
           => Replaces(job[r]) \/ ~NoReplace]_vars
  BY <1>1
<1> QED
  BY Invariance, <1>2, PTL DEF Spec, NoClobber

-----------------------------------------------------------------------------
(***************************************************************************)
(* Builder implements AtomicPublish: every step of any number of runs,     *)
(* killed or not, on a file system with or without RENAME_NOREPLACE, is a  *)
(* step of atomic publication, or none that a reader of the targets sees.  *)
(***************************************************************************)

\* The abstract variables, as the INSTANCE in Builder gives them.
Shown      == [t \in Targets |-> dir[t]]
Kept       == [t \in Targets |-> disk[t]]
Ready      == {r \in Runs : pc[r] \in {"publish", "fallback"}}
Privileged == {r \in Runs : Replaces(job[r])}

Mapped == [Atomic!Next]_(Atomic!vars)

\* A step that takes r out of the ready runs, or into them, or neither.
LEMMA ReadyChange ==
  ASSUME NEW r \in Runs, \A q \in Runs \ {r} : pc'[q] = pc[q]
  PROVE  \/ r \notin Ready /\ Ready' = Ready \cup {r}
         \/ Ready' = Ready \ {r}
         \/ Ready' = Ready
<1>1. CASE r \in Ready'
  BY <1>1 DEF Ready
<1>2. CASE r \notin Ready'
  BY <1>2 DEF Ready
<1> QED
  BY <1>1, <1>2

\* A step of r that neither the targets nor the medium show is an ending of
\* the build, a failure, or nothing.
LEMMA HiddenStep ==
  ASSUME NEW r \in Runs, job' = job, disk' = disk,
         \A t \in Targets : dir'[t] = dir[t],
         \A q \in Runs \ {r} : pc'[q] = pc[q]
  PROVE  Mapped
<1>1. Shown' = Shown /\ Kept' = Kept /\ Privileged' = Privileged
  BY DEF Shown, Kept, Privileged
<1>2. CASE r \notin Ready /\ Ready' = Ready \cup {r}
  <2>1. Atomic!Finish(r)
    BY <1>1, <1>2 DEF Atomic!Finish, Shown, Kept, Ready, Privileged
  <2> QED
    BY <2>1 DEF Mapped, Atomic!Next
<1>3. CASE Ready' = Ready \ {r}
  <2>1. Atomic!GiveUp(r)
    BY <1>1, <1>3 DEF Atomic!GiveUp, Shown, Kept, Ready, Privileged
  <2> QED
    BY <2>1 DEF Mapped, Atomic!Next
<1>4. CASE Ready' = Ready
  BY <1>1, <1>4 DEF Mapped, Atomic!vars, Shown, Kept, Ready, Privileged
<1> QED
  BY <1>2, <1>3, <1>4, ReadyChange

\* The rename is the installation.
LEMMA RenameStep ==
  ASSUME Inv, NEW r \in Runs, Run(r), Rename(r),
         pc[r] = "publish" => Installs(r), pc[r] \in {"publish", "fallback"}
  PROVE  Mapped
<1>1. Out(r) \in Targets /\ Temp(r) \notin Targets /\ Out(r) \in Names
  BY NamesType, NamesAssumption DEF Inv
<1>2. /\ dir' = [dir EXCEPT ![Temp(r)] = NoFile, ![Out(r)] = r]
      /\ pc' = [pc EXCEPT ![r] = "dirsync"]
      /\ job' = job /\ disk' = disk
  BY DEF Rename, Goto
<1>3. Kept' = Kept /\ Privileged' = Privileged
  BY <1>2 DEF Kept, Privileged
<1>t. PICK t \in Targets : t = Out(r)
  BY <1>1
<1>4. Shown' = [Shown EXCEPT ![t] = r]
  BY <1>1, <1>2, <1>t DEF Shown, Inv, TypeOK, Names
<1>5. r \in Ready /\ Ready' = Ready \ {r}
  BY <1>2 DEF Ready, Inv, TypeOK
<1>6. Shown[t] = NoFile \/ r \in Privileged \/ ~NoReplace
  <2>1. CASE pc[r] = "publish"
    BY <1>t, <2>1 DEF Installs, Occupied, Shown, Privileged
  <2>2. CASE pc[r] = "fallback"
    BY <2>2 DEF Inv, Stage
  <2> QED
    BY <2>1, <2>2
<1>7. Atomic!Install(r, t)
  BY <1>3, <1>4, <1>5, <1>6 DEF Atomic!Install, Shown, Kept, Ready, Privileged
<1> QED
  BY <1>7 DEF Mapped, Atomic!Next

\* The directory is committed, or not.
LEMMA CommitStep ==
  ASSUME job' = job, pc' = pc \/ \E r \in Runs, l \in {"done"} :
           pc[r] = "dirsync" /\ pc' = [pc EXCEPT ![r] = l],
         TypeOK, dir' = dir, disk' = dir
  PROVE  Mapped
<1>1. Shown' = Shown /\ Kept' = Shown /\ Privileged' = Privileged
  BY DEF Shown, Kept, Privileged
<1>2. Ready' = Ready
  BY DEF Ready, TypeOK
<1>3. Atomic!Commit
  BY <1>1, <1>2 DEF Atomic!Commit, Shown, Kept, Ready, Privileged
<1> QED
  BY <1>3 DEF Mapped, Atomic!Next

\* Every step of a run.
LEMMA RunStep ==
  ASSUME Inv, NEW r \in Runs, Run(r)
  PROVE  Mapped
<1> TypeOK
  BY DEF Inv
<1>0. Temp(r) \in Names /\ Temp(r) \notin Targets
  BY NamesType, NamesAssumption
<1>1. ASSUME Local(r) PROVE Mapped
  <2>1. /\ job' = job /\ disk' = disk /\ dir' = dir
        /\ \A q \in Runs \ {r} : pc'[q] = pc[q]
    BY <1>1 DEF Local, TypeOK
  <2> QED
    BY <2>1, HiddenStep
<1>2. CASE Create(r) \/ DropTemp(r)
  <2>1. /\ job' = job /\ disk' = disk
        /\ \A t \in Targets : dir'[t] = dir[t]
    BY <1>0, <1>2 DEF Create, CreateTemp, DropTemp, Unlinked, TypeOK, Names
  <2>2. \A q \in Runs \ {r} : pc'[q] = pc[q]
    BY <1>2 DEF Create, CreateTemp, DropTemp, Goto, Return, TypeOK
  <2> QED
    BY <2>1, <2>2, HiddenStep
<1>3. CASE SyncParentDir(r)
  <2>1. /\ pc[r] = "dirsync" /\ pc' = [pc EXCEPT ![r] = "done"]
        /\ job' = job /\ dir' = dir /\ disk' \in {dir, disk}
    BY <1>3 DEF SyncParentDir, Return, Goto
  <2>2. CASE disk' = dir
    BY <2>1, <2>2, CommitStep
  <2>3. CASE disk' = disk
    <3>1. \A q \in Runs \ {r} : pc'[q] = pc[q]
      BY <2>1 DEF TypeOK
    <3> QED
      BY <2>1, <2>3, <3>1, HiddenStep
  <2> QED
    BY <2>1, <2>2, <2>3
<1>4. CASE Publish(r) \/ RenameAfterCheck(r)
  <2>1. CASE Rename(r) /\ (pc[r] = "publish" => Installs(r))
             /\ pc[r] \in {"publish", "fallback"}
    BY <2>1, RenameStep
  <2>2. CASE Skip(r, "fallback")
    <3>1. "fallback" \in Labels
      BY DEF Labels, Holding
    <3> QED
      BY <1>1, <2>2, <3>1, SkipLocal
  <2>3. CASE Abort(r, "Io") /\ UNCHANGED <<job, attempt, img, dir, disk>>
    <3>1. "Io" \in Results
      BY DEF Results
    <3> QED
      BY <1>1, <2>3, <3>1, AbortLocal
  <2> QED
    BY <1>4, <2>1, <2>2, <2>3 DEF Publish, RenameAfterCheck
<1> QED
  BY <1>1, <1>2, <1>3, <1>4, StepLocal DEF Run, Step

\* What other programs, the kernel and the power supply do.
LEMMA OtherSteps ==
  ASSUME Inv,
         \/ \E r \in Runs : Kill(r) \/ CutSource(r)
         \/ \E t \in Targets : Appear(t)
         \/ WriteBack
         \/ PowerLoss
  PROVE  Mapped
<1> TypeOK
  BY DEF Inv
<1>1. ASSUME NEW r \in Runs, Kill(r) \/ CutSource(r) PROVE Mapped
  <2>1. /\ job' = job /\ disk' = disk /\ dir' = dir
        /\ \A q \in Runs \ {r} : pc'[q] = pc[q]
    BY <1>1 DEF Kill, CutSource, Goto, TypeOK
  <2> QED
    BY <2>1, HiddenStep
<1>2. ASSUME NEW t \in Targets, Appear(t) PROVE Mapped
  <2>1. /\ dir[t] = NoFile /\ dir' = [dir EXCEPT ![t] = User]
        /\ UNCHANGED <<job, pc, disk>>
    BY <1>2 DEF Appear, Occupied
  <2>2. Kept' = Kept /\ Privileged' = Privileged /\ Ready' = Ready
    BY <2>1 DEF Kept, Privileged, Ready
  <2>3. Shown[t] = NoFile /\ Shown' = [Shown EXCEPT ![t] = User]
    BY <2>1 DEF Shown, TypeOK, Names
  <2>4. Atomic!Appear(t)
    BY <2>2, <2>3 DEF Atomic!Appear, Shown, Kept, Ready, Privileged
  <2> QED
    BY <2>4 DEF Mapped, Atomic!Next
<1>3. CASE WriteBack
  BY <1>3, CommitStep DEF WriteBack
<1>4. CASE PowerLoss
  <2>1. /\ dir' = disk /\ disk' = disk /\ job' = job
        /\ \A r \in Runs : pc'[r] \in {"precheck", "done", "dead"}
    BY <1>4 DEF PowerLoss
  <2>2. Shown' = Kept /\ Kept' = Kept /\ Privileged' = Privileged /\ Ready' = {}
    BY <2>1 DEF Shown, Kept, Privileged, Ready
  <2>3. Atomic!Crash
    BY <2>2 DEF Atomic!Crash, Shown, Kept, Ready, Privileged
  <2> QED
    BY <2>3 DEF Mapped, Atomic!Next
<1> QED
  BY <1>1, <1>2, <1>3, <1>4

\* Every step maps to a step of atomic publication, or to none.
LEMMA StepMaps == Inv /\ [Next]_vars => [Atomic!Next]_(Atomic!vars)
<1> SUFFICES ASSUME Inv, [Next]_vars PROVE Mapped
  BY DEF Mapped
<1>1. CASE UNCHANGED vars
  <2>1. Shown' = Shown /\ Kept' = Kept /\ Ready' = Ready /\ Privileged' = Privileged
    BY <1>1 DEF vars, Shown, Kept, Ready, Privileged
  <2> QED
    BY <2>1 DEF Mapped, Atomic!vars, Shown, Kept, Ready, Privileged
<1>2. CASE Next
  BY <1>2, RunStep, OtherSteps DEF Next
<1> QED
  BY <1>1, <1>2

\* Nothing is ready, and nothing published, before the runs start.
LEMMA InitMaps == Init => Atomic!Init
<1> SUFFICES ASSUME Init PROVE Atomic!Init
  OBVIOUS
<1>1. Shown \in [Targets -> {User, NoFile}] /\ Kept = Shown
  BY DEF Init, Shown, Kept, Names
<1>2. Ready = {} /\ Privileged \in SUBSET Runs
  BY DEF Init, Ready, Privileged
<1> QED
  BY <1>1, <1>2 DEF Atomic!Init, Shown, Kept, Ready, Privileged

\* Builder implements AtomicPublish (TempTarget: a target is replaced in one
\* step by a finished file, or left alone).
THEOREM BuilderIsAtomic == Spec => IsAtomic
  BY Invariance, InitMaps, StepMaps, PTL DEF Spec, IsAtomic, Atomic!Spec
-----------------------------------------------------------------------------
(***************************************************************************)
(* Every run is bounded: it owes a number of steps that each of its own    *)
(* lowers and that no other run or program, no kill and no power loss can  *)
(* raise.                                                                  *)
(***************************************************************************)

\* The longest way from a label to the end, the search for a name aside.
Rank(l) ==
  CASE l = "precheck"  -> 18  [] l = "create"  -> 17  [] l = "allocate" -> 16
    [] l = "early"     -> 15  [] l = "zero"    -> 14  [] l = "populate" -> 13
    [] l = "flush"     -> 12  [] l = "written" -> 11  [] l = "trailer"  -> 10
    [] l = "recheck"   -> 9   [] l = "attribute" -> 8 [] l = "sync"     -> 7
    [] l = "publish"   -> 6   [] l = "fallback"  -> 5 [] l = "dirsync"  -> 4
    [] l = "drop"      -> 3   [] l \in {"done", "dead"} -> 0

\* The names that the search has yet to try are steps of their own.
Owed(r) ==
  Rank(pc[r]) + IF pc[r] \in {"precheck", "create"} THEN MaxAttempts - attempt[r]
                                                    ELSE 0

Shrinks ==
  \A r \in Runs :
    /\ Owed(r) \in Nat /\ Owed(r)' \in Nat
    /\ Run(r) => Owed(r)' < Owed(r)
    /\ Owed(r)' <= Owed(r)

\* A step of r leads to a label further down.
Descends(r) ==
  /\ attempt' = attempt
  /\ \E l \in Labels : pc' = [pc EXCEPT ![r] = l] /\ Rank(l) < Rank(pc[r])

\* Or it tries the next name.
TriesNext(r) ==
  /\ pc[r] = "create" /\ pc' = pc
  /\ attempt' = [attempt EXCEPT ![r] = attempt[r] + 1]

\* Each label has a number.
LEMMA RankCounts ==
  ASSUME NEW l \in Labels
  PROVE  Rank(l) \in Nat
  BY DEF Rank, Labels, Holding

LEMMA EndDescends ==
  ASSUME NEW r \in Runs, TypeOK, attempt' = attempt,
         \/ pc' = [pc EXCEPT ![r] = "done"] /\ pc[r] \notin {"done", "dead"}
         \/ pc' = [pc EXCEPT ![r] = "drop"] /\ pc[r] \notin {"done", "dead", "drop"}
  PROVE  Descends(r)
<1>1. pc[r] \in Labels
  BY DEF TypeOK
<1>2. "done" \in Labels /\ "drop" \in Labels
  BY DEF Labels, Holding
<1>3. Rank("done") = 0 /\ Rank("drop") = 3
  BY DEF Rank
<1>4. pc[r] \notin {"done", "dead"} => 0 < Rank(pc[r])
  BY <1>1 DEF Rank, Labels, Holding
<1>5. pc[r] \notin {"done", "dead", "drop"} => 3 < Rank(pc[r])
  BY <1>1 DEF Rank, Labels, Holding
<1> QED
  BY <1>2, <1>3, <1>4, <1>5 DEF Descends

\* Every step of a run leads down the ladder of labels, but for a name in use.
LEMMA StepDescends ==
  ASSUME NEW r \in Runs, TypeOK, Step(r)
  PROVE  Descends(r) \/ TriesNext(r)
<1> DEFINE To(l) == pc' = [pc EXCEPT ![r] = l]
<1>1. CASE \E l \in {"done", "drop"} :
             To(l) /\ pc[r] \notin {"done", "dead", "drop"} /\ attempt' = attempt
  BY <1>1, EndDescends
<1>2. CASE DropTemp(r)
  BY <1>2, EndDescends DEF DropTemp, Goto
<1>3. CASE Precheck(r)
  <2>1. CASE To("create") /\ pc[r] = "precheck" /\ attempt' = attempt
    <3>1. Rank("create") < Rank("precheck") /\ "create" \in Labels
      BY DEF Rank, Labels
    <3> QED
      BY <2>1, <3>1 DEF Descends
  <2> QED
    BY <1>1, <1>3, <2>1 DEF Precheck, Return, Goto
<1>4. CASE Create(r)
  <2>1. CASE \E l \in {"sync", "allocate"} :
               To(l) /\ pc[r] = "create" /\ attempt' = attempt
    <3>1. \A l \in {"sync", "allocate"} : Rank(l) < Rank("create") /\ l \in Labels
      BY DEF Rank, Labels, Holding
    <3> QED
      BY <2>1, <3>1 DEF Descends
  <2> QED
    BY <1>1, <1>4, <2>1 DEF Create, CreateTemp, Return, Goto, NextAttempt, TriesNext
<1>5. CASE AllocateSpace(r) \/ EarlyCheck(r)
  <2>1. CASE /\ attempt' = attempt
             /\ \/ To("early") /\ pc[r] = "allocate"
                \/ /\ To("zero") \/ To("populate")
                   /\ pc[r] \in {"allocate", "early"}
    <3>1. /\ Rank("early") < Rank("allocate") /\ "early" \in Labels
          /\ "zero" \in Labels /\ "populate" \in Labels
          /\ \A l \in {"allocate", "early"} :
               Rank("zero") < Rank(l) /\ Rank("populate") < Rank(l)
      BY DEF Rank, Labels, Holding
    <3> QED
      BY <2>1, <3>1 DEF Descends
  <2> QED
    BY <1>1, <1>5, <2>1 DEF AllocateSpace, EarlyCheck, Allocate, RequireContiguous,
                            AfterAllocate, Abort, Goto
<1>6. CASE Zero(r)
  <2>1. CASE \E l \in {"written", "populate"} :
               To(l) /\ pc[r] = "zero" /\ attempt' = attempt
    <3>1. \A l \in {"written", "populate"} : Rank(l) < Rank("zero") /\ l \in Labels
      BY DEF Rank, Labels, Holding
    <3> QED
      BY <2>1, <3>1 DEF Descends
  <2> QED
    BY <1>1, <1>6, <2>1 DEF Zero, Write, Skip, Abort, Goto
<1>7. CASE PopulateRaw(r) \/ PopulateQemu(r) \/ PopulateCopy(r)
  <2>1. CASE To("flush") /\ pc[r] = "populate" /\ attempt' = attempt
    <3>1. Rank("flush") < Rank("populate") /\ "flush" \in Labels
      BY DEF Rank, Labels, Holding
    <3> QED
      BY <2>1, <3>1 DEF Descends
  <2> QED
    BY <1>1, <1>7, <2>1 DEF PopulateRaw, PopulateQemu, PopulateCopy, Write, Skip,
                            Abort, Goto
<1>8. CASE Flush(r) \/ Verify(r)
  <2>1. CASE \/ To("written") /\ pc[r] = "flush" /\ attempt' = attempt
             \/ /\ \E l \in {"sync", "trailer"} : To(l)
                /\ pc[r] = "written" /\ attempt' = attempt
    <3>1. /\ Rank("written") < Rank("flush") /\ "written" \in Labels
          /\ \A l \in {"sync", "trailer"} : Rank(l) < Rank("written") /\ l \in Labels
      BY DEF Rank, Labels, Holding
    <3> QED
      BY <2>1, <3>1 DEF Descends
  <2> QED
    BY <1>1, <1>8, <2>1 DEF Flush, Sync, Verify, VerifyWritten, Abort, Goto
<1>9. CASE WriteFooter(r) \/ Recheck(r) \/ CheckAttribute(r)
  <2>1. CASE /\ attempt' = attempt
             /\ \/ To("recheck") /\ pc[r] = "trailer"
                \/ To("attribute") /\ pc[r] = "recheck"
                \/ To("sync") /\ pc[r] = "attribute"
    <3>1. /\ Rank("recheck") < Rank("trailer") /\ "recheck" \in Labels
          /\ Rank("attribute") < Rank("recheck") /\ "attribute" \in Labels
          /\ Rank("sync") < Rank("attribute") /\ "sync" \in Labels
      BY DEF Rank, Labels, Holding
    <3> QED
      BY <2>1, <3>1 DEF Descends
  <2> QED
    BY <1>1, <1>9, <2>1 DEF WriteFooter, Write, Skip, Recheck, RequireContiguous,
                            CheckAttribute, Abort, Goto
<1>10. CASE SyncAll(r) \/ Publish(r) \/ RenameAfterCheck(r)
  <2>1. CASE /\ attempt' = attempt
             /\ \/ To("publish") /\ pc[r] = "sync"
                \/ To("fallback") /\ pc[r] = "publish"
                \/ To("dirsync") /\ pc[r] \in {"publish", "fallback"}
    <3>1. /\ Rank("publish") < Rank("sync") /\ "publish" \in Labels
          /\ Rank("fallback") < Rank("publish") /\ "fallback" \in Labels
          /\ Rank("dirsync") < Rank("publish") /\ "dirsync" \in Labels
          /\ Rank("dirsync") < Rank("fallback")
      BY DEF Rank, Labels, Holding
    <3> QED
      BY <2>1, <3>1 DEF Descends
  <2> QED
    BY <1>1, <1>10, <2>1 DEF SyncAll, Sync, Publish, RenameAfterCheck, Rename, Skip,
                             Abort, Goto
<1>11. CASE SyncParentDir(r)
  BY <1>1, <1>11 DEF SyncParentDir, Return, Goto
<1> QED
  BY <1>2, <1>3, <1>4, <1>5, <1>6, <1>7, <1>8, <1>9, <1>10, <1>11 DEF Step

AllOwe == \A r \in Runs : Owed(r) \in Nat

LEMMA OwedCounts == TypeOK => AllOwe
<1> SUFFICES ASSUME TypeOK, NEW r \in Runs PROVE Owed(r) \in Nat
  BY DEF AllOwe
<1>1. Rank(pc[r]) \in Nat
  BY RankCounts DEF TypeOK
<1>2. attempt[r] \in 0 .. MaxAttempts - 1 /\ MaxAttempts \in Nat
  BY AttemptsAssumption DEF TypeOK
<1> QED
  BY <1>1, <1>2 DEF Owed

\* What a step of r costs it, in numbers: of the names to try before it and
\* after, there are none once the name is found.
LEMMA OwedLess ==
  ASSUME NEW a \in Nat, NEW b \in Nat, NEW m \in Nat, NEW n \in Nat, a < b,
         n = m \/ n = 0
  PROVE  a + n < b + m
  OBVIOUS

LEMMA RunPays ==
  ASSUME Inv, Inv', NEW r \in Runs, Run(r)
  PROVE  /\ Owed(r)' < Owed(r)
         /\ \A q \in Runs \ {r} : Owed(q)' = Owed(q)
<1>1. TypeOK /\ TypeOK' /\ MaxAttempts \in Nat
  BY AttemptsAssumption DEF Inv
<1>2. CASE Descends(r)
  <2>1. PICK l \in Labels : pc' = [pc EXCEPT ![r] = l] /\ Rank(l) < Rank(pc[r])
    BY <1>2 DEF Descends
  <2>2. attempt' = attempt /\ pc'[r] = l /\ \A q \in Runs \ {r} : pc'[q] = pc[q]
    BY <1>1, <1>2, <2>1 DEF Descends, TypeOK
  <2> DEFINE m == IF pc[r] \in {"precheck", "create"} THEN MaxAttempts - attempt[r]
                                                      ELSE 0
             n == IF l \in {"precheck", "create"} THEN MaxAttempts - attempt[r]
                                                  ELSE 0
  <2>3. m \in Nat /\ n \in Nat /\ (n = m \/ n = 0)
    <3>1. l \in {"precheck", "create"} => pc[r] \in {"precheck", "create"}
      <4>1. pc[r] \in Labels
        BY <1>1 DEF TypeOK
      <4>2. l \in {"precheck", "create"} => Rank(l) >= 17
        BY DEF Rank
      <4>3. pc[r] \notin {"precheck", "create"} => Rank(pc[r]) <= 16
        BY <4>1 DEF Rank, Labels, Holding
      <4>4. Rank(l) \in Nat /\ Rank(pc[r]) \in Nat
        BY <4>1, RankCounts
      <4> QED
        BY <2>1, <4>2, <4>3, <4>4
    <3>2. attempt[r] \in 0 .. MaxAttempts - 1
      BY <1>1 DEF TypeOK
    <3> QED
      BY <1>1, <3>1, <3>2
  <2>4. Owed(r) = Rank(pc[r]) + m /\ Owed(r)' = Rank(l) + n
    BY <2>2 DEF Owed
  <2>5. Rank(l) \in Nat /\ Rank(pc[r]) \in Nat
    BY <1>1, RankCounts DEF TypeOK
  <2> HIDE DEF m, n
  <2>6. Rank(l) + n < Rank(pc[r]) + m
    BY <2>1, <2>3, <2>5, OwedLess
  <2> QED
    BY <2>2, <2>4, <2>6 DEF Owed
<1>3. CASE TriesNext(r)
  <2>1. /\ pc[r] = "create" /\ pc' = pc /\ attempt'[r] = attempt[r] + 1
        /\ \A q \in Runs \ {r} : attempt'[q] = attempt[q]
    BY <1>1, <1>3 DEF TriesNext, TypeOK
  <2>2. attempt[r] \in Nat
    BY <1>1 DEF TypeOK
  <2>3. Owed(r) = 17 + (MaxAttempts - attempt[r])
    BY <2>1 DEF Owed, Rank
  <2>4. Owed(r)' = 17 + (MaxAttempts - (attempt[r] + 1))
    BY <2>1 DEF Owed, Rank
  <2>5. 17 + (MaxAttempts - (attempt[r] + 1)) < 17 + (MaxAttempts - attempt[r])
    BY <1>1, <2>2
  <2> QED
    BY <2>1, <2>3, <2>4, <2>5 DEF Owed
<1> QED
  BY <1>1, <1>2, <1>3, StepDescends DEF Run

LEMMA NextShrinks == Inv /\ Inv' /\ [Next]_vars => Shrinks
<1> SUFFICES ASSUME Inv, Inv', [Next]_vars, NEW r \in Runs
             PROVE  /\ Owed(r) \in Nat /\ Owed(r)' \in Nat
                    /\ Run(r) => Owed(r)' < Owed(r)
                    /\ Owed(r)' <= Owed(r)
  BY DEF Shrinks
<1>1. Owed(r) \in Nat /\ Owed(r)' \in Nat
  <2>1. TypeOK' => AllOwe'
    BY OwedCounts, PTL
  <2> QED
    BY <2>1, OwedCounts DEF Inv, AllOwe
<1>2. CASE Run(r)
  BY <1>1, <1>2, RunPays
<1>3. ASSUME NEW q \in Runs \ {r}, Run(q) PROVE Owed(r)' = Owed(r)
  BY <1>3, RunPays
<1>4. ASSUME pc'[r] = pc[r], attempt' = attempt PROVE Owed(r)' = Owed(r)
  BY <1>4 DEF Owed
<1>5. CASE pc'[r] = "dead"
  <2>1. Owed(r)' = 0
    BY <1>5 DEF Owed, Rank
  <2> QED
    BY <1>1, <2>1, RunPays
<1>6. \/ \E q \in Runs : Run(q)
      \/ pc'[r] = pc[r] /\ attempt' = attempt
      \/ pc'[r] = "dead"
  BY DEF Next, Kill, CutSource, Appear, WriteBack, PowerLoss, Goto, vars, Inv, TypeOK
<1>7. Run(r) => Owed(r)' < Owed(r)
  BY RunPays
<1> QED
  BY <1>1, <1>2, <1>3, <1>4, <1>5, <1>6, <1>7

\* No run takes more steps than there are names to try and labels on the way:
\* each of its steps lowers what it owes, and no other run, program, kill or
\* power loss raises it.  With the fairness of FairSpec this is EveryRunEnds.
THEOREM BuilderIsBounded == Spec => [][Shrinks]_vars
<1>1. Inv /\ Inv' /\ [Next]_vars => [Shrinks]_vars
  BY NextShrinks
<1> QED
  BY Invariance, <1>1, PTL DEF Spec
=============================================================================
