---------------------------- MODULE Content_proofs ----------------------------
(***************************************************************************)
(* What is in a published file, and what a run leaves behind: no bytes of  *)
(* earlier files where all were promised, the bytes of the source in a     *)
(* copy, and no temporary file, for any number of runs and any crash.      *)
(***************************************************************************)
EXTENDS Builder_proofs

\* The labels after verify_written, and those of a copy that is written.
Sealed == {"trailer", "recheck", "attribute", "sync", "publish", "fallback"}
Filled == {"flush", "written", "sync", "publish", "fallback"}

Clean(j, i)  == ExpectWritten(j, i) => ~AnyUnwritten(i)
Copied(j, i) ==
  j.cmd \in Copying /\ ~j.sparse => \A p \in Wanted(j) : i.piece[p] = "data"

\* What is known of the bytes of r's file.
Told(r) ==
  /\ pc[r] \in Sealed \/ Named(r) => Clean(job[r], img[r])
  /\ pc[r] \in Filled \/ Named(r) => Copied(job[r], img[r])

\* While there was no power loss: the temporary names of r's file.
Tidy(r) ==
  losses = 0 =>
    \A n \in TempNames : dir[n] = r =>
      /\ n = Temp(r)
      /\ \/ pc[r] \in Holding \cup {"dead"}
         \/ pc[r] = "done" /\ job[r].keep /\ result[r] # "Ok"

\* A run whose destructor is under way has failed.
Failing(r) == pc[r] = "drop" => result[r] # "Ok"

More == Inv /\ \A r \in Runs : Told(r) /\ Tidy(r) /\ Failing(r)

-----------------------------------------------------------------------------
(* What each step of a build does to its own run *)

\* A run that holds its temporary file holds it until it is published or
\* dropped, and is dropped only with an error.
LEMMA HoldsOn ==
  ASSUME TypeOK, NEW r \in Runs, pc[r] # "drop",
         \/ AllocateSpace(r) \/ EarlyCheck(r)
         \/ Zero(r)          \/ PopulateRaw(r)   \/ PopulateQemu(r)
         \/ PopulateCopy(r)  \/ Flush(r)         \/ Verify(r)
         \/ WriteFooter(r)   \/ Recheck(r)       \/ CheckAttribute(r)
         \/ SyncAll(r)
  PROVE  /\ pc[r] \in Holding
         /\ pc'[r] \in Holding
         /\ pc'[r] = "drop" => result'[r] # "Ok"
<1>1. ASSUME NEW l \in Holding \ {"drop"}, Goto(r, l)
      PROVE  pc'[r] \in Holding /\ pc'[r] # "drop"
  BY <1>1 DEF Goto, TypeOK
<1>2. ASSUME NEW e \in Results \ {"Ok"}, Abort(r, e)
      PROVE  pc'[r] \in Holding /\ result'[r] # "Ok"
  BY <1>2 DEF Abort, Goto, TypeOK, Holding
<1>l. /\ AfterAllocate(r) \in Holding \ {"drop"}
      /\ {"early", "zero", "populate", "written", "flush", "trailer", "recheck", "attribute",
          "sync", "publish"} \subseteq Holding \ {"drop"}
  BY DEF Holding, AfterAllocate
<1>e. {"Allocation", "Fragmented", "Unverifiable", "Io", "QemuImg", "Sparse",
       "Uninitialized", "Compressed"} \subseteq Results \ {"Ok"}
  BY DEF Results
<1>3. \/ \E l \in Holding \ {"drop"} : Goto(r, l)
      \/ \E e \in Results \ {"Ok"} : Abort(r, e)
  <2>1. CASE AllocateSpace(r)
    BY <2>1, <1>l, <1>e DEF AllocateSpace, Allocate
  <2>2. CASE EarlyCheck(r) \/ Recheck(r)
    BY <2>2, <1>l, <1>e DEF EarlyCheck, Recheck, RequireContiguous
  <2>3. CASE Zero(r)
    BY <2>3, <1>l, <1>e DEF Zero, Write, Skip
  <2>4. CASE PopulateRaw(r) \/ PopulateQemu(r) \/ PopulateCopy(r)
    BY <2>4, <1>l, <1>e DEF PopulateRaw, PopulateQemu, PopulateCopy, Write, Skip
  <2>5. CASE Flush(r) \/ SyncAll(r)
    BY <2>5, <1>l, <1>e DEF Flush, SyncAll, Sync
  <2>6. CASE Verify(r)
    BY <2>6, <1>l, <1>e DEF Verify, VerifyWritten
  <2>7. CASE WriteFooter(r)
    BY <2>7, <1>l, <1>e DEF WriteFooter, Write, Skip
  <2>8. CASE CheckAttribute(r)
    BY <2>8, <1>l, <1>e DEF CheckAttribute
  <2> QED
    BY <2>1, <2>2, <2>3, <2>4, <2>5, <2>6, <2>7, <2>8
<1>4. pc[r] \in Holding
  BY DEF AllocateSpace, Allocate, EarlyCheck, Recheck, RequireContiguous, Zero,
         PopulateRaw, PopulateQemu, PopulateCopy, Flush, SyncAll, Sync, Verify,
         VerifyWritten, WriteFooter, CheckAttribute, Holding
<1> QED
  BY <1>1, <1>2, <1>3, <1>4

\* A write of something else than old bytes leaves no more of those.
LEMMA OverwriteClean ==
  ASSUME NEW j \in Jobs, NEW i \in Images, NEW ps \in SUBSET Pieces,
         NEW c \in Content \ {"stale"}, NEW lay \in Layouts, NEW b \in BOOLEAN, Clean(j, i)
  PROVE  Clean(j, [Overwrite(i, ps, c, lay) EXCEPT !.synced = b])
<1> DEFINE o == Overwrite(i, ps, c, lay)
<1>1. /\ o \in Images /\ o.reserved = i.reserved
      /\ \A p \in Pieces : o.piece[p] = IF p \in ps THEN c ELSE i.piece[p]
  BY OverwriteType
<1>2. /\ [o EXCEPT !.synced = b].reserved = o.reserved
      /\ [o EXCEPT !.synced = b].piece = o.piece
  BY <1>1 DEF Images
<1>3. ExpectWritten(j, [o EXCEPT !.synced = b]) = ExpectWritten(j, i)
  BY <1>1, <1>2 DEF ExpectWritten
<1>4. AnyUnwritten([o EXCEPT !.synced = b]) => AnyUnwritten(i)
  BY <1>1, <1>2 DEF AnyUnwritten
<1> QED
  BY <1>3, <1>4 DEF Clean

\* A sync changes none of the bytes.
LEMMA SyncTold ==
  ASSUME NEW j \in Jobs, NEW i \in Images
  PROVE  /\ Clean(j, i) => Clean(j, [i EXCEPT !.synced = TRUE])
         /\ Copied(j, i) => Copied(j, [i EXCEPT !.synced = TRUE])
<1>1. /\ [i EXCEPT !.synced = TRUE].reserved = i.reserved
      /\ [i EXCEPT !.synced = TRUE].piece = i.piece
  BY DEF Images
<1> QED
  BY <1>1 DEF Clean, Copied, ExpectWritten, AnyUnwritten

\* The steps before the verification.
LEMMA BuildTold ==
  ASSUME More, NEW r \in Runs,
         \/ Precheck(r)     \/ AllocateSpace(r) \/ EarlyCheck(r)
         \/ Zero(r)         \/ PopulateRaw(r)   \/ PopulateQemu(r)
         \/ PopulateCopy(r) \/ Flush(r),
         ~Named(r)'
  PROVE  Told(r)'
<1>t. TypeOK /\ job[r] \in Jobs /\ img[r] \in Images /\ Told(r) /\ job' = job
  BY DEF More, Inv, TypeOK, Precheck, AllocateSpace, Allocate, EarlyCheck,
         RequireContiguous, Zero, PopulateRaw, PopulateQemu, PopulateCopy, Write, Skip,
         Flush, Sync
<1>0. ASSUME pc'[r] \notin Sealed \cup Filled PROVE Told(r)'
  BY <1>0 DEF Told
<1>a. ASSUME NEW e, Abort(r, e) PROVE Told(r)'
  BY <1>0, <1>a, <1>t DEF Abort, Goto, TypeOK, Sealed, Filled
<1>1. CASE Precheck(r)
  BY <1>0, <1>1, <1>t DEF Precheck, Return, Goto, TypeOK, Sealed, Filled
<1>2. CASE AllocateSpace(r)
  BY <1>0, <1>2, <1>a, <1>t
     DEF AllocateSpace, Allocate, AfterAllocate, Goto, TypeOK, Sealed, Filled
<1>3. CASE EarlyCheck(r)
  BY <1>0, <1>3, <1>a, <1>t
     DEF EarlyCheck, RequireContiguous, AfterAllocate, Goto, TypeOK, Sealed, Filled
<1>4. ASSUME job[r].cmd \notin Copying, pc'[r] \notin Sealed PROVE Told(r)'
  BY <1>4, <1>t DEF Told, Copied
<1>5. CASE Zero(r)
  <2>1. CASE pc'[r] = "populate"
    BY <1>0, <2>1 DEF Sealed, Filled
  <2>2. CASE pc'[r] = "written" /\ job[r].cmd = "create"
    BY <1>4, <2>2 DEF Sealed, Copying
  <2> QED
    BY <1>5, <1>a, <1>t, <2>1, <2>2 DEF Zero, Write, Skip, Goto, Is, TypeOK
<1>6. CASE PopulateRaw(r) \/ PopulateQemu(r)
  <2>1. job[r].cmd \notin Copying
    BY <1>6 DEF PopulateRaw, PopulateQemu, Is, Copying
  <2>2. CASE pc'[r] = "flush"
    BY <1>4, <2>1, <2>2 DEF Sealed
  <2> QED
    BY <1>6, <1>a, <1>t, <2>2 DEF PopulateRaw, PopulateQemu, Write, Skip, Goto, TypeOK
<1>7. CASE PopulateCopy(r)
  <2>1. CASE job[r].sparse /\ Skip(r, "flush")
    <3>1. /\ pc'[r] = "flush" /\ img' = img /\ job' = job
      BY <1>t, <2>1 DEF Skip, Goto, TypeOK
    <3> QED
      BY <2>1, <3>1 DEF Told, Copied, Sealed
  <2>2. ASSUME ~Abort(r, "Io"), ~(job[r].sparse /\ Skip(r, "flush")) PROVE Told(r)'
    <3>1. PICK lay \in {"one", "split"}, ps \in {{"head"}, {"head", "tail"}} :
            /\ img' = [img EXCEPT ![r] =
                        [Overwrite(img[r], ps, "data", lay) EXCEPT !.synced = FALSE]]
            /\ ~job[r].sparse => ps = {"head", "tail"}
            /\ pc' = [pc EXCEPT ![r] = "flush"]
      BY <1>7, <2>2 DEF PopulateCopy, Write, Set, Goto, SkipsHoles
    <3> DEFINE o == Overwrite(img[r], ps, "data", lay)
    <3>2. /\ o \in Images
          /\ \A p \in Pieces : o.piece[p] = IF p \in ps THEN "data" ELSE img[r].piece[p]
      BY <1>t, OverwriteType DEF Pieces, Content, Layouts
    <3>3. img'[r].piece = o.piece
      BY <1>t, <3>1, <3>2, MarkType DEF TypeOK
    <3>4. job[r].cmd \in Copying => Wanted(job[r]) \subseteq {"head", "tail"}
      BY DEF Wanted, Copying
    <3>5. Copied(job'[r], img'[r])
      BY <1>t, <3>1, <3>2, <3>3, <3>4 DEF Copied, Pieces
    <3>6. pc'[r] \notin Sealed
      BY <1>t, <3>1 DEF TypeOK, Sealed
    <3> QED
      BY <3>5, <3>6 DEF Told
  <2> QED
    BY <1>a, <2>1, <2>2
<1>8. CASE Flush(r)
  <2>1. ASSUME ~Abort(r, "Io") PROVE Told(r)'
    <3>1. /\ pc[r] = "flush" /\ pc'[r] = "written"
          /\ img'[r] = [img[r] EXCEPT !.synced = TRUE]
      BY <1>8, <1>t, <2>1 DEF Flush, Sync, Set, Goto, TypeOK
    <3>2. Copied(job'[r], img'[r])
      BY <1>t, <3>1, SyncTold DEF Told, Filled
    <3> QED
      BY <3>1, <3>2 DEF Told, Sealed
  <2> QED
    BY <1>a, <2>1
<1> QED
  BY <1>1, <1>2, <1>3, <1>5, <1>6, <1>7, <1>8

\* The steps from the verification to the fsync.
LEMMA CheckTold ==
  ASSUME More, NEW r \in Runs,
         \/ Verify(r) \/ WriteFooter(r) \/ Recheck(r) \/ CheckAttribute(r)
         \/ SyncAll(r),
         ~Named(r)'
  PROVE  Told(r)'
<1>t. TypeOK /\ job[r] \in Jobs /\ img[r] \in Images /\ Told(r) /\ job' = job
  BY DEF More, Inv, TypeOK, Verify, VerifyWritten, WriteFooter, Write, Skip, Recheck,
         RequireContiguous, CheckAttribute, SyncAll, Sync
<1>0. ASSUME pc'[r] \notin Sealed \cup Filled PROVE Told(r)'
  BY <1>0 DEF Told
<1>a. ASSUME NEW e, Abort(r, e) PROVE Told(r)'
  BY <1>0, <1>a, <1>t DEF Abort, Goto, TypeOK, Sealed, Filled
<1>1. ASSUME Verify(r), \A e : ~Abort(r, e) PROVE Told(r)'
  <2>1. /\ pc[r] = "written" /\ pc'[r] \in {"sync", "trailer"}
        /\ ~Dirty(r) /\ img' = img
    BY <1>1, <1>t DEF Verify, VerifyWritten, Goto, TypeOK
  <2>2. Clean(job[r], img[r]) /\ Copied(job[r], img[r])
    BY <1>t, <2>1 DEF Told, Dirty, Clean, Filled
  <2> QED
    BY <1>t, <2>1, <2>2 DEF Told
<1>2. ASSUME WriteFooter(r), ~Abort(r, "Io") PROVE Told(r)'
  <2>1. pc[r] = "trailer" /\ pc'[r] = "recheck"
    BY <1>2, <1>t DEF WriteFooter, Write, Skip, Goto, TypeOK
  <2>2. Clean(job[r], img[r])
    BY <1>t, <2>1 DEF Told, Sealed
  <2>3. Clean(job[r], img'[r])
    <3>1. CASE img' = img
      BY <2>2, <3>1
    <3>2. ASSUME NEW lay \in {"one", "split"},
                 img' = [img EXCEPT ![r] =
                   [Overwrite(img[r], {"foot"}, "footer", lay) EXCEPT !.synced = FALSE]]
          PROVE  Clean(job[r], img'[r])
      <4>1. {"foot"} \in SUBSET Pieces /\ "footer" \in Content \ {"stale"} /\ lay \in Layouts
        BY DEF Pieces, Content, Layouts
      <4>2. img'[r] = [Overwrite(img[r], {"foot"}, "footer", lay) EXCEPT !.synced = FALSE]
        BY <1>t, <3>2 DEF TypeOK
      <4>3. Clean(job[r], [Overwrite(img[r], {"foot"}, "footer", lay) EXCEPT !.synced = FALSE])
        BY <1>t, <2>2, <4>1, OverwriteClean
      <4> QED
        BY <4>2, <4>3
    <3> QED
      BY <1>2, <3>1, <3>2 DEF WriteFooter, Write, Skip, Set
  <2> QED
    BY <1>t, <2>1, <2>3 DEF Told, Filled
<1>3. ASSUME Recheck(r), \A e : ~Abort(r, e) PROVE Told(r)'
  <2>1. pc[r] = "recheck" /\ pc'[r] = "attribute" /\ img' = img
    BY <1>3, <1>t DEF Recheck, RequireContiguous, Goto, TypeOK
  <2> QED
    BY <1>t, <2>1 DEF Told, Sealed, Filled
<1>4. ASSUME CheckAttribute(r), \A e : ~Abort(r, e) PROVE Told(r)'
  <2>1. pc[r] = "attribute" /\ pc'[r] = "sync" /\ img' = img
    BY <1>4, <1>t DEF CheckAttribute, Goto, TypeOK
  <2>2. job[r].cmd \notin Copying
    BY <2>1 DEF More, Inv, Stage, Is, Building, Copying
  <2> QED
    BY <1>t, <2>1, <2>2 DEF Told, Sealed, Copied
<1>5. ASSUME SyncAll(r), ~Abort(r, "Io") PROVE Told(r)'
  <2>1. /\ pc[r] = "sync" /\ pc'[r] = "publish"
        /\ img'[r] = [img[r] EXCEPT !.synced = TRUE]
    BY <1>5, <1>t DEF SyncAll, Sync, Set, Goto, TypeOK
  <2>2. Clean(job[r], img'[r]) /\ Copied(job[r], img'[r])
    BY <1>t, <2>1, SyncTold DEF Told, Sealed, Filled
  <2> QED
    BY <1>t, <2>2 DEF Told
<1> QED
  BY <1>a, <1>1, <1>2, <1>3, <1>4, <1>5

\* The first step and the last ones.
LEMMA EndsTold ==
  ASSUME More, NEW r \in Runs,
         \/ Create(r) \/ Publish(r) \/ RenameAfterCheck(r) \/ SyncParentDir(r)
         \/ DropTemp(r),
         Published(r)'
  PROVE  Told(r)'
<1>t. /\ TypeOK /\ job[r] \in Jobs /\ img[r] \in Images /\ Told(r) /\ job' = job
      /\ Published(r)
  BY DEF More, Inv, TypeOK, Create, CreateTemp, Publish, RenameAfterCheck, Rename, Skip,
         SyncParentDir, DropTemp
<1>1. CASE Create(r)
  <2>1. pc'[r] \in {"sync", "allocate", "create", "done"} /\ pc[r] = "create"
    BY <1>1, <1>t DEF Create, CreateTemp, Goto, Return, TypeOK
  <2>2. ~Named(r)
    BY <1>t, <2>1 DEF Published
  <2>3. ~Named(r)'
    <3>1. \A t \in Targets : t # Temp(r) /\ t \in Names
      BY <1>t, NamesType, NamesAssumption DEF Names
    <3> QED
      BY <1>1, <1>t, <2>2, <3>1 DEF Named, Create, CreateTemp, TypeOK
  <2>4. ASSUME pc'[r] = "sync"
        PROVE  Wanted(job[r]) = {} /\ \E c \in BOOLEAN : img'[r] = Blank(c)
    <3>1. Goto(r, IF Wanted(job[r]) = {} THEN "sync" ELSE "allocate")
          /\ \E c \in BOOLEAN : Set(r, Blank(c))
      BY <1>1, <1>t, <2>1, <2>4 DEF Create, CreateTemp, Return, Goto, TypeOK
    <3> QED
      BY <1>t, <2>4, <3>1 DEF Goto, Set, TypeOK
  <2>5. ASSUME pc'[r] = "sync"
        PROVE  Clean(job[r], img'[r]) /\ Copied(job[r], img'[r])
    <3>1. PICK c \in BOOLEAN : img'[r] = Blank(c)
      BY <2>4, <2>5
    <3>2. \A p \in Pieces : Blank(c).piece[p] = "none"
      BY DEF Blank
    <3>3. ~AnyUnwritten(img'[r])
      BY <3>1, <3>2 DEF AnyUnwritten
    <3> QED
      BY <2>4, <2>5, <3>3 DEF Clean, Copied
  <2> QED
    BY <1>t, <2>1, <2>3, <2>5 DEF Told, Sealed, Filled
<1>2. CASE UNCHANGED img /\ pc[r] \in {"publish", "fallback"}
  BY <1>2, <1>t DEF Told, Sealed, Filled
<1>3. CASE SyncParentDir(r)
  <2>1. pc'[r] = "done" /\ img' = img /\ (Named(r)' => Named(r))
    BY <1>3, <1>t DEF SyncParentDir, Return, Goto, Named, TypeOK
  <2> QED
    BY <1>t, <2>1 DEF Told, Sealed, Filled
<1>4. CASE DropTemp(r)
  <2>1. pc[r] = "drop" /\ pc'[r] = "done" /\ img' = img /\ disk' = disk
    BY <1>4, <1>t DEF DropTemp, Goto, TypeOK
  <2>2. \A t \in Targets : dir'[t] = dir[t]
    BY <1>4, <1>t, NamesType, NamesAssumption DEF DropTemp, Unlinked, TypeOK, Names
  <2>3. ~Named(r)'
    BY <1>t, <2>1, <2>2 DEF Named, Published
  <2> QED
    BY <2>1, <2>3 DEF Told, Sealed, Filled
<1> QED
  BY <1>1, <1>2, <1>3, <1>4 DEF Publish, RenameAfterCheck, Rename, Skip

\* The temporary names after a step of the run that may hold one.
LEMMA StepTidy ==
  ASSUME More, NEW r \in Runs, Run(r)
  PROVE  Tidy(r)' /\ Failing(r)'
<1>t. TypeOK /\ Tidy(r) /\ Failing(r) /\ losses' = losses
  BY DEF More, Inv, Run
<1>n. /\ Temp(r) \in TempNames /\ Temp(r) \in Names /\ Out(r) \notin TempNames
      /\ TempNames \subseteq Names /\ Out(r) \in Names
  BY <1>t, NamesType, NamesAssumption DEF Names
<1>1. CASE Precheck(r)
  <2>1. /\ pc[r] = "precheck" /\ pc'[r] \in {"done", "create"} /\ dir' = dir
    BY <1>1, <1>t DEF Precheck, Return, Goto, TypeOK
  <2>2. losses = 0 => \A n \in TempNames : dir[n] # r
    BY <1>t, <2>1 DEF Tidy, Holding
  <2> QED
    BY <1>t, <2>1, <2>2 DEF Tidy, Failing
<1>2. CASE Create(r)
  <2>1. pc[r] = "create" /\ job' = job
    BY <1>2 DEF Create, CreateTemp
  <2>2. losses = 0 => \A n \in TempNames : dir[n] # r
    BY <1>t, <2>1 DEF Tidy, Holding
  <2>3. CASE /\ dir' = [dir EXCEPT ![Temp(r)] = r] /\ attempt' = attempt
             /\ pc'[r] \in {"sync", "allocate"}
    <3>1. Temp(r)' = Temp(r)
      BY <2>1, <2>3 DEF Temp
    <3>2. \A n \in TempNames \ {Temp(r)} : dir'[n] = dir[n]
      BY <1>t, <1>n, <2>3 DEF TypeOK
    <3> QED
      BY <1>t, <2>2, <2>3, <3>1, <3>2 DEF Tidy, Failing, Holding
  <2>4. CASE dir' = dir /\ pc'[r] \in {"create", "done"}
    BY <1>t, <2>2, <2>4 DEF Tidy, Failing
  <2> QED
    BY <1>2, <1>t, <2>1, <2>3, <2>4 DEF Create, CreateTemp, Goto, Return, TypeOK
<1>3. CASE \/ AllocateSpace(r) \/ EarlyCheck(r)
           \/ Zero(r)          \/ PopulateRaw(r)   \/ PopulateQemu(r)
           \/ PopulateCopy(r)  \/ Flush(r)         \/ Verify(r)
           \/ WriteFooter(r)   \/ Recheck(r)       \/ CheckAttribute(r)
           \/ SyncAll(r)
  <2>0. pc[r] # "drop"
    BY <1>3 DEF AllocateSpace, Allocate, EarlyCheck, Recheck, RequireContiguous, Zero,
         PopulateRaw, PopulateQemu, PopulateCopy, Flush, SyncAll, Sync, Verify,
         VerifyWritten, WriteFooter, CheckAttribute
  <2>1. /\ pc[r] \in Holding /\ pc'[r] \in Holding
        /\ pc'[r] = "drop" => result'[r] # "Ok"
    BY <1>3, <1>t, <2>0, HoldsOn
  <2>2. Local(r)
    BY <1>3, <1>t, StepLocal
  <2>3. dir' = dir /\ Temp(r)' = Temp(r)
    BY <2>2 DEF Local, Temp
  <2> QED
    BY <1>t, <2>1, <2>3 DEF Tidy, Failing
<1>4. CASE (Publish(r) \/ RenameAfterCheck(r)) /\ Rename(r)
  <2>1. /\ dir' = [dir EXCEPT ![Temp(r)] = NoFile, ![Out(r)] = r]
        /\ pc'[r] = "dirsync"
    BY <1>4, <1>t DEF Rename, Goto, TypeOK
  <2>2. losses = 0 => \A n \in TempNames : dir'[n] # r
    BY <1>t, <1>n, <2>1, HolderAssumption DEF Tidy, TypeOK
  <2> QED
    BY <1>t, <2>1, <2>2 DEF Tidy, Failing
<1>5. CASE (Publish(r) \/ RenameAfterCheck(r)) /\ ~Rename(r)
  <2>1. /\ pc[r] \in Holding /\ pc'[r] \in Holding
        /\ pc'[r] = "drop" => result'[r] # "Ok"
    BY <1>5, <1>t DEF Publish, RenameAfterCheck, Skip, Abort, Goto, TypeOK, Holding
  <2>2. dir' = dir /\ Temp(r)' = Temp(r)
    BY <1>5 DEF Publish, RenameAfterCheck, Skip, Temp
  <2> QED
    BY <1>t, <2>1, <2>2 DEF Tidy, Failing
<1>6. CASE SyncParentDir(r)
  <2>1. pc[r] = "dirsync" /\ pc'[r] = "done" /\ dir' = dir
    BY <1>6, <1>t DEF SyncParentDir, Return, Goto, TypeOK
  <2>2. losses = 0 => \A n \in TempNames : dir[n] # r
    BY <1>t, <2>1 DEF Tidy, Holding
  <2> QED
    BY <1>t, <2>1, <2>2 DEF Tidy, Failing
<1>7. CASE DropTemp(r)
  <2>1. /\ pc[r] = "drop" /\ pc'[r] = "done"
        /\ UNCHANGED <<job, attempt, result>> /\ Temp(r)' = Temp(r)
        /\ dir' = IF job[r].keep THEN dir ELSE [dir EXCEPT ![Temp(r)] = NoFile]
    BY <1>7, <1>t DEF DropTemp, Unlinked, Goto, TypeOK, Temp
  <2>2. CASE job[r].keep
    BY <1>t, <2>1, <2>2 DEF Tidy, Failing
  <2>3. CASE ~job[r].keep
    <3>1. losses = 0 => \A n \in TempNames : dir'[n] # r
      BY <1>t, <1>n, <2>1, <2>3, HolderAssumption DEF Tidy, TypeOK
    <3> QED
      BY <1>t, <2>1, <3>1 DEF Tidy, Failing
  <2> QED
    BY <2>2, <2>3
<1> QED
  BY <1>1, <1>2, <1>3, <1>4, <1>5, <1>6, <1>7 DEF Run, Step

-----------------------------------------------------------------------------
(* The inductive invariant *)

\* A step of r leaves what is known of every other run as it was.
LEMMA OthersKeepMore ==
  ASSUME More, NEW r \in Runs, NEW q \in Runs \ {r}, Frame(r)
  PROVE  Told(q)' /\ Tidy(q)' /\ Failing(q)'
<1>1. /\ UNCHANGED <<job, losses>> /\ pc'[q] = pc[q] /\ attempt'[q] = attempt[q]
      /\ result'[q] = result[q] /\ img'[q] = img[q]
  BY DEF Frame
<1>2. Temp(q)' = Temp(q)
  BY <1>1 DEF Temp
<1>3. \A n \in Names : dir'[n] = q => dir[n] = q
  BY HolderAssumption DEF Frame
<1>4. Named(q)' => Named(q)
  BY <1>3 DEF Named, Frame, Names
<1>5. Told(q) /\ Tidy(q) /\ Failing(q)
  BY DEF More
<1> QED
  BY <1>1, <1>2, <1>3, <1>4, <1>5 DEF Told, Tidy, Failing, Names

\* Every step of a run keeps the invariant.
LEMMA RunMore ==
  ASSUME More, NEW r \in Runs, Run(r)
  PROVE  More'
<1>1. Inv'
  BY RunInv DEF More
<1>2. Frame(r)
  BY StepFrame, InvOwns DEF More, Inv
<1>3. Told(r)'
  <2>1. CASE \/ Create(r) \/ Publish(r) \/ RenameAfterCheck(r) \/ SyncParentDir(r)
             \/ DropTemp(r)
    BY <1>1, <2>1, EndsTold DEF Inv
  <2>2. ASSUME Local(r), pc[r] \notin {"dirsync", "done", "dead"} PROVE ~Named(r)'
    <3>1. ~Named(r)
      BY <2>2 DEF More, Inv, Published
    <3> QED
      BY <2>2, <3>1 DEF Local, Named
  <2>3. CASE \/ Precheck(r)     \/ AllocateSpace(r) \/ EarlyCheck(r)
             \/ Zero(r)         \/ PopulateRaw(r)   \/ PopulateQemu(r)
             \/ PopulateCopy(r) \/ Flush(r)
    <3>1. Local(r)
      BY <2>3, StepLocal DEF More, Inv
    <3>2. pc[r] \in {"precheck", "allocate", "early", "zero", "populate", "flush"}
      BY <2>3 DEF Precheck, AllocateSpace, Allocate, EarlyCheck, RequireContiguous, Zero,
         PopulateRaw, PopulateQemu, PopulateCopy, Flush, Sync
    <3> QED
      BY <2>2, <2>3, <3>1, <3>2, BuildTold
  <2>4. CASE \/ Verify(r) \/ WriteFooter(r) \/ Recheck(r) \/ CheckAttribute(r)
             \/ SyncAll(r)
    <3>1. Local(r)
      BY <2>4, StepLocal DEF More, Inv
    <3>2. pc[r] \in {"written", "trailer", "recheck", "attribute", "sync"}
      BY <2>4 DEF Verify, VerifyWritten, WriteFooter, Recheck, RequireContiguous,
         CheckAttribute, SyncAll, Sync
    <3> QED
      BY <2>2, <2>4, <3>1, <3>2, CheckTold
  <2> QED
    BY <2>1, <2>3, <2>4 DEF Run, Step
<1> QED
  BY <1>1, <1>2, <1>3, StepTidy, OthersKeepMore DEF More

\* What is not a step of a run: kills, other programs, the kernel.
LEMMA OtherMore ==
  ASSUME More, Inv',
         \/ \E r \in Runs : Kill(r) \/ CutSource(r)
         \/ \E t \in Targets : Appear(t)
         \/ WriteBack
         \/ UNCHANGED vars
  PROVE  More'
<1>1. ASSUME NEW q \in Runs PROVE Told(q)' /\ Tidy(q)' /\ Failing(q)'
  <2>1. /\ UNCHANGED <<job, attempt, result, img, losses>>
        /\ pc'[q] \in {pc[q], "dead"}
    BY DEF Kill, CutSource, Appear, WriteBack, vars, Goto, More, Inv, TypeOK
  <2>2. \A n \in Names : dir'[n] = q => dir[n] = q
    BY HolderAssumption
       DEF Kill, CutSource, Appear, WriteBack, vars, More, Inv, TypeOK, Names
  <2>3. \A t \in Targets : disk'[t] = q => disk[t] = q \/ dir[t] = q
    BY DEF Kill, CutSource, Appear, WriteBack, vars
  <2>4. Named(q)' => Named(q)
    BY <2>2, <2>3 DEF Named, Names
  <2>5. Told(q) /\ Tidy(q) /\ Failing(q)
    BY DEF More
  <2>6. Told(q)'
    BY <2>1, <2>4, <2>5 DEF Told, Sealed, Filled
  <2>7. Tidy(q)' /\ Failing(q)'
    BY <2>1, <2>2, <2>5 DEF Tidy, Failing, Temp, Names, Holding
  <2> QED
    BY <2>6, <2>7
<1> QED
  BY <1>1 DEF More

\* After a power loss only what is synced has a name, and nobody asks for tidiness.
LEMMA PowerLossMore ==
  ASSUME More, PowerLoss
  PROVE  More'
<1>1. Inv'
  BY PowerLossInv DEF More
<1>2. ASSUME NEW q \in Runs PROVE Told(q)' /\ Tidy(q)' /\ Failing(q)'
  <2>1. /\ UNCHANGED <<job, result>>
        /\ pc'[q] = IF pc[q] \in {"precheck", "done"} THEN pc[q] ELSE "dead"
        /\ img[q].synced => img'[q] = img[q]
        /\ dir' = disk /\ disk' = disk
        /\ losses' = losses + 1
    BY DEF PowerLoss
  <2>2. Named(q)' => Named(q)
    BY <2>1 DEF Named
  <2>3. Named(q) => img[q].synced
    BY DEF More, Inv, Published
  <2>4. Told(q)'
    BY <2>1, <2>2, <2>3 DEF Told, More, Sealed, Filled
  <2>5. losses' # 0
    BY <2>1 DEF More, Inv, TypeOK
  <2> QED
    BY <2>1, <2>4, <2>5 DEF Tidy, Failing
<1> QED
  BY <1>1, <1>2 DEF More

\* The invariant holds before any run has started.
LEMMA InitMore == Init => More
<1> SUFFICES ASSUME Init PROVE More
  OBVIOUS
<1>1. ASSUME NEW r \in Runs PROVE Told(r) /\ Tidy(r) /\ Failing(r)
  <2>1. \A n \in Names : dir[n] # r /\ disk[n] # r
    BY HolderAssumption DEF Init
  <2>2. pc[r] = "precheck"
    BY DEF Init
  <2> QED
    BY <2>1, <2>2 DEF Told, Tidy, Failing, Named, Names, Sealed, Filled
<1> QED
  BY <1>1, InitInv DEF More

\* It is inductive.
LEMMA NextMore == More /\ [Next]_vars => More'
<1> SUFFICES ASSUME More, [Next]_vars PROVE More'
  OBVIOUS
<1>1. Inv'
  BY NextInv DEF More
<1> QED
  BY <1>1, RunMore, OtherMore, PowerLossMore DEF Next

\* It holds in every reachable state.
THEOREM MoreInvariance == Spec => []More
  BY InitMore, NextMore, PTL DEF Spec

-----------------------------------------------------------------------------
(* The theorems *)

\* A run that ended by itself left no temporary file behind, unless it failed
\* under --keep-on-fail (Drop for TempTarget).
THEOREM BuilderNoDebris == Spec => []NoDebris
<1>1. More => NoDebris
  BY DEF More, Tidy, NoDebris, Holding
<1> QED
  BY MoreInvariance, <1>1, PTL

\* Where every byte was promised, no published file holds old clusters.
THEOREM BuilderNoStaleBytes == Spec => []NoStaleBytes
<1>1. More => NoStaleBytes
  BY DEF More, Told, Clean, NoStaleBytes
<1> QED
  BY MoreInvariance, <1>1, PTL

\* A published copy has the bytes of its source in every piece, its holes included.
THEOREM BuilderCopyIsFaithful == Spec => []CopyIsFaithful
<1>1. More => CopyIsFaithful
  BY DEF More, Told, Copied, CopyIsFaithful, Is
<1> QED
  BY MoreInvariance, <1>1, PTL
=============================================================================
