----------------------------- MODULE TempTarget -----------------------------
(***************************************************************************)
(* crates/ntfs-contig/src/alloc.rs: a file is built under a temporary name *)
(* in the directory of its target and takes the target's name only once    *)
(* it is good.  Several runs of the tool, and other programs, share the    *)
(* directory.  Each action is one system call of one run, with the checks  *)
(* the code makes on its result; the operators take the step of the caller *)
(* that comes next.                                                        *)
(***************************************************************************)
EXTENDS Image

CONSTANTS
  Runs,       \* runs of the tool; the file a run builds bears its identity
  User,       \* a file some other program owns
  NoFile,     \* a name that is free
  NoReplace   \* does the file system know RENAME_NOREPLACE?

ASSUME HolderAssumption ==
  /\ NoFile \notin Runs
  /\ User \notin Runs
  /\ User # NoFile
  /\ NoReplace \in BOOLEAN

TempNames == Pids \X (0 .. MaxAttempts - 1)
Names     == Targets \cup TempNames
Holders   == Runs \cup {User, NoFile}

ASSUME NamesAssumption == Targets \cap TempNames = {}

VARIABLES
  job,      \* the command line of each run
  pc,       \* the next step of each run
  attempt,  \* the counter in each run's temporary name
  result,   \* what each run returned: "none" while it runs
  img,      \* the file each run is building
  dir,      \* which file each name of the directory stands for
  disk      \* the same on the medium: what a power loss leaves

ttvars == <<job, pc, attempt, result, img, dir, disk>>

Out(r)  == job[r].out
Temp(r) == <<job[r].pid, attempt[r]>>

Occupied(n) == dir[n] # NoFile

Goto(r, l) == pc' = [pc EXCEPT ![r] = l]

\* Err(e) before a TempTarget exists, and Ok: the process ends here.
Return(r, e) ==
  /\ Goto(r, "done")
  /\ result' = [result EXCEPT ![r] = e]

\* Mutant: the process exits without running destructors.
AbortWithoutDrop(r, e) == Return(r, e)

\* Err(e) while a TempTarget is alive: the destructor runs next.
Abort(r, e) ==
  /\ Goto(r, "drop")
  /\ result' = [result EXCEPT ![r] = e]

Set(r, i) == img' = [img EXCEPT ![r] = i]

-----------------------------------------------------------------------------
\* Mutant: opened without O_EXCL.
FreeWithoutExcl(r) == TRUE

\* O_EXCL: the name must not be in use.
Free(r) == ~Occupied(Temp(r))

\* Mutant: the loop allows one turn too many.
LastAttemptLate(r) == attempt[r] = MaxAttempts

LastAttempt(r) == attempt[r] + 1 = MaxAttempts

\* Mutant: the same name is tried again.
NextAttemptSame(r) == attempt[r]

NextAttempt(r) == attempt[r] + 1

\* One turn of the loop in TempTarget::create: open(O_CREAT | O_EXCL) under the
\* next name.  Only a name in use is retried.
CreateTemp(r, next) ==
  /\ pc[r] = "create"
  /\ \/ /\ Free(r)
        /\ dir' = [dir EXCEPT ![Temp(r)] = r]
        /\ \E c \in BOOLEAN : Set(r, Blank(c))
        /\ Goto(r, next)
        /\ UNCHANGED <<attempt, result>>
     \/ /\ ~Free(r)
        /\ ~LastAttempt(r)
        /\ attempt' = [attempt EXCEPT ![r] = NextAttempt(r)]
        /\ UNCHANGED <<pc, result, img, dir>>
     \/ /\ Free(r) \/ LastAttempt(r)
        /\ Return(r, "Io")
        /\ UNCHANGED <<attempt, img, dir>>
  /\ UNCHANGED <<job, disk>>

\* fallocate(2), mode 0, of the whole file.
Allocate(r, reserved, unsupported) ==
  /\ pc[r] = "allocate"
  /\ \/ /\ \E lay \in {"one", "split"} :
             Set(r, [Overwrite(img[r], Wanted(job[r]), "stale", lay)
                       EXCEPT !.reserved = TRUE])
        /\ Goto(r, reserved)
        /\ UNCHANGED result
     \/ /\ Goto(r, unsupported)
        /\ UNCHANGED <<result, img>>
     \/ /\ Abort(r, "Allocation")
        /\ UNCHANGED img
  /\ UNCHANGED <<job, attempt, dir, disk>>

\* require_contiguous: FS_IOC_FIEMAP must answer, and with one run.
RequireContiguous(r, l, next) ==
  /\ pc[r] = l
  /\ \/ /\ img[r].layout = "one"
        /\ Goto(r, next)
        /\ UNCHANGED result
     \/ /\ img[r].layout # "one"
        /\ Abort(r, "Fragmented")
     \/ Abort(r, "Unverifiable")
  /\ UNCHANGED <<job, attempt, img, dir, disk>>

\* Any write pass over the pieces ps, ending with fdatasync if sync.  A write
\* that fails (no space, an I/O error) ends the run.
Write(r, ps, c, sync, next) ==
  /\ \/ /\ \E lay \in {"one", "split"} :
             Set(r, [Overwrite(img[r], ps, c, lay) EXCEPT !.synced = sync])
        /\ Goto(r, next)
        /\ UNCHANGED result
     \/ /\ Abort(r, "Io")
        /\ UNCHANGED img
  /\ UNCHANGED <<job, attempt, dir, disk>>

Skip(r, next) ==
  /\ Goto(r, next)
  /\ UNCHANGED <<job, attempt, result, img, dir, disk>>

\* fdatasync or fsync of the file.
Sync(r, l, next) ==
  /\ pc[r] = l
  /\ \/ /\ Set(r, [img[r] EXCEPT !.synced = TRUE])
        /\ Goto(r, next)
        /\ UNCHANGED result
     \/ /\ Abort(r, "Io")
        /\ UNCHANGED img
  /\ UNCHANGED <<job, attempt, dir, disk>>

\* Mutant: uninitialized clusters are not looked for.
DirtyIgnored(r) == FALSE

\* Was every byte promised, and is a cluster still uninitialized?
Dirty(r) == ExpectWritten(job[r], img[r]) /\ AnyUnwritten(img[r])

\* verify_written: one run, then full allocation, as the file's metadata has
\* it, then nothing uninitialized.
VerifyWritten(r, next) ==
  LET i == img[r]
      whole == FullyAllocated(job[r], i)
  IN  /\ pc[r] = "written"
      /\ \/ /\ i.layout = "one" /\ whole /\ ~Dirty(r)
            /\ Goto(r, next)
            /\ UNCHANGED result
         \/ i.layout # "one" /\ Abort(r, "Fragmented")
         \/ i.layout = "one" /\ Abort(r, "Io")
         \/ i.layout = "one" /\ ~whole /\ Abort(r, "Sparse")
         \/ i.layout = "one" /\ whole /\ Dirty(r) /\ Abort(r, "Uninitialized")
         \/ Abort(r, "Unverifiable")
      /\ UNCHANGED <<job, attempt, img, dir, disk>>

-----------------------------------------------------------------------------
\* rename(2): one step for every process that looks at the directory.
Rename(r) ==
  /\ dir' = [dir EXCEPT ![Temp(r)] = NoFile, ![Out(r)] = r]
  /\ Goto(r, "dirsync")
  /\ UNCHANGED <<job, attempt, result, img, disk>>

\* Mutant: a plain rename whatever the command line says.
InstallsAnyway(r) == TRUE

\* May one rename take the name of the target, now?
Installs(r) == Replaces(job[r]) \/ (NoReplace /\ ~Occupied(Out(r)))

\* finalize after its fsync.  Without permission to replace, renameat2 either
\* refuses atomically or, unsupported, gives way to a look at the target ...
Publish(r) ==
  /\ pc[r] = "publish"
  /\ \/ /\ Installs(r)
        /\ Rename(r)
     \/ /\ ~Replaces(job[r])
        /\ ~NoReplace
        /\ ~Occupied(Out(r))
        /\ Skip(r, "fallback")
     \/ /\ Abort(r, "Io")       \* EEXIST, the target appeared, or any failure
        /\ UNCHANGED <<job, attempt, img, dir, disk>>

\* ... and a plain rename, which no longer looks.
RenameAfterCheck(r) ==
  /\ pc[r] = "fallback"
  /\ \/ Rename(r)
     \/ /\ Abort(r, "Io")
        /\ UNCHANGED <<job, attempt, img, dir, disk>>

\* Mutant: a directory that cannot be synced fails the run.
SyncParentDirStrict(r) ==
  /\ pc[r] = "dirsync"
  /\ \/ disk' = dir /\ Return(r, "Ok")
     \/ disk' = disk /\ Return(r, "Io")
  /\ UNCHANGED <<job, attempt, img, dir>>

\* sync_parent_dir, whose failure is ignored.
SyncParentDir(r) ==
  /\ pc[r] = "dirsync"
  /\ disk' \in {dir, disk}
  /\ Return(r, "Ok")
  /\ UNCHANGED <<job, attempt, img, dir>>

\* Mutant: the destructor unlinks the target instead.
UnlinkedTarget(r) == Out(r)

Unlinked(r) == Temp(r)

\* Drop of a TempTarget that was not published.
DropTemp(r) ==
  /\ pc[r] = "drop"
  /\ dir' = IF job[r].keep THEN dir ELSE [dir EXCEPT ![Unlinked(r)] = NoFile]
  /\ Goto(r, "done")
  /\ UNCHANGED <<job, attempt, result, img, disk>>
=============================================================================
