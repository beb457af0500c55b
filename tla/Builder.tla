------------------------------ MODULE Builder -------------------------------
(***************************************************************************)
(* The commands that build a file: iodd create (cmd/create.rs), iodd       *)
(* convert with its raw, qemu-img and verbatim paths (cmd/convert.rs), and *)
(* the engine's copy and fix (copy.rs).  Each is a chain of steps around   *)
(* one TempTarget.  Runs execute concurrently in one directory with other  *)
(* programs, may be killed at any step, and the machine may lose power.    *)
(***************************************************************************)
EXTENDS TempTarget

CONSTANTS
  JobSet,      \* the command lines considered
  Debris,      \* sets of temporary names that killed runs may have left behind
  MaxLosses    \* power losses considered

ASSUME JobAssumption    == JobSet \subseteq Jobs
ASSUME DebrisAssumption == Debris \subseteq SUBSET TempNames
ASSUME LossAssumption   == MaxLosses \in Nat

VARIABLES
  source,      \* has another program cut the source of the run short?
  losses       \* power losses so far

vars == <<job, pc, attempt, result, img, dir, disk, source, losses>>

Is(r, cmds) == job[r].cmd \in cmds

\* The labels at which a run owns a TempTarget that is not yet published.
Holding == {"allocate", "early", "zero", "populate", "flush", "written",
            "trailer", "recheck", "attribute", "sync", "publish", "fallback", "drop"}

Labels == Holding \cup {"precheck", "create", "dirsync", "done", "dead"}

Results == {"none", "Ok", "Usage", "TargetExists", "Io", "Allocation",
            "Fragmented", "Sparse", "Uninitialized", "Compressed",
            "Unverifiable", "QemuImg"}

\* Both programs' table from an error to the exit code of the process.
ExitCode(e) ==
  CASE e = "Ok"                           -> 0
    [] e \in {"Usage", "Io"}              -> 1
    [] e = "TargetExists"                 -> 2
    [] e = "Allocation"                   -> 3
    [] e = "Fragmented"                   -> 4
    [] e \in {"Sparse", "Uninitialized"}  -> 5
    [] e = "Compressed"                   -> 6
    [] e = "Unverifiable"                 -> 8
    [] e = "QemuImg"                      -> 9

-----------------------------------------------------------------------------
\* What can stop a run before it looks at the target (a bad size, a source it
\* cannot open, a container qemu-img cannot read) ...
ErrorsBefore(cmd) ==
  CASE cmd = "create"    -> {"Usage"}
    [] cmd = "convert"   -> {"Usage", "Io"}
    [] cmd = "container" -> {"Usage", "Io", "QemuImg"}
    [] cmd = "verbatim"  -> {"Usage", "Io"}
    [] cmd = "copy"      -> {"Io"}
    [] cmd = "fix"       -> {"Io", "Unverifiable"}

\* ... and after: no such directory, a compressed one, no qemu-img.
ErrorsAfter(cmd) ==
  CASE cmd = "create"    -> {"Usage", "Compressed"}
    [] cmd = "convert"   -> {"Usage"}
    [] cmd = "container" -> {"Usage", "QemuImg"}
    [] OTHER             -> {}

\* Everything a command does before TempTarget::create.  The engine has no
\* error of its own for an existing target; fix stops when its file is good.
Precheck(r) ==
  LET cmd == job[r].cmd
      refused == Occupied(Out(r)) /\ ~Replaces(job[r])
  IN  /\ pc[r] = "precheck"
      /\ \/ \E e \in ErrorsBefore(cmd) : Return(r, e)
         \/ refused /\ cmd \in Building /\ Return(r, "TargetExists")
         \* in the way of a copy, or the very file it would copy
         \/ Occupied(Out(r)) /\ cmd \in Copying \ {"fix"} /\ Return(r, "Allocation")
         \/ ~refused /\ \E e \in ErrorsAfter(cmd) : Return(r, e)
         \/ cmd = "fix" /\ Occupied(Out(r)) /\ Return(r, "Ok")
         \/ /\ ~refused
            /\ cmd = "fix" => Occupied(Out(r))
            /\ Goto(r, "create")
            /\ UNCHANGED result
      /\ UNCHANGED <<job, attempt, img, dir, disk>>

\* An empty source is published as it is: it has no extent to check.
Create(r) ==
  CreateTemp(r, IF Wanted(job[r]) = {} THEN "sync" ELSE "allocate")

AfterAllocate(r) == IF Is(r, Copying) THEN "populate" ELSE "zero"

AllocateSpace(r) == Allocate(r, "early", AfterAllocate(r))

EarlyCheck(r) == RequireContiguous(r, "early", AfterAllocate(r))

\* --zero, or a file system without fallocate.  convert skips what the source
\* will overwrite, unless the pass is what allocates the file.
ToZero(r) ==
  LET j == job[r]
  IN  IF ~img[r].reserved \/ (j.zero /\ j.cmd = "create") THEN Wanted(j)
      ELSE IF j.zero THEN Wanted(j) \ {"head"} ELSE {}

Zero(r) ==
  LET next == IF Is(r, {"create"}) THEN "written" ELSE "populate"
  IN  /\ pc[r] = "zero"
      /\ \/ ToZero(r) # {} /\ Write(r, ToZero(r), "zero", TRUE, next)
         \/ ToZero(r) = {} /\ Skip(r, next)

\* copy_raw: a source that ends early ends the loop, and that is all.
PopulateRaw(r) ==
  /\ pc[r] = "populate"
  /\ Is(r, {"convert"})
  /\ \/ source[r] = "whole" /\ Write(r, {"head"}, "data", FALSE, "flush")
     \/ source[r] = "cut"   /\ Skip(r, "flush")

\* run_qemu_convert: qemu-img writes the source into the temporary file.
PopulateQemu(r) ==
  /\ pc[r] = "populate"
  /\ Is(r, {"container"})
  /\ \/ Write(r, {"head"}, "data", FALSE, "flush")
     \/ /\ Abort(r, "QemuImg")
        /\ UNCHANGED <<job, attempt, img, dir, disk>>

\* Mutant: holes are skipped without --sparse, too.
SkipsHolesAlways(r) == job[r].src \in {"holed", "slack"}

SkipsHoles(r) == job[r].sparse /\ job[r].src \in {"holed", "slack"}

\* copy_whole and copy_data_extents: a short read is an error, and --sparse
\* leaves the source's holes as the allocation made them.  It also takes what
\* was cut off before it got there for one more hole: lseek finds no data.
PopulateCopy(r) ==
  /\ pc[r] = "populate"
  /\ Is(r, Copying)
  /\ \/ /\ source[r] = "whole"
        /\ Write(r, IF SkipsHoles(r) THEN {"head"} ELSE {"head", "tail"},
                 "data", FALSE, "flush")
     \/ /\ source[r] = "cut"
        /\ Abort(r, "Io")
        /\ UNCHANGED <<job, attempt, img, dir, disk>>
     \/ /\ source[r] = "cut"
        /\ job[r].sparse
        /\ Skip(r, "flush") \/ Write(r, {"head"}, "data", FALSE, "flush")

Flush(r) == Sync(r, "flush", "written")

\* Mutant: what was written is taken on trust.
VerifySkipped(r) ==
  /\ pc[r] = "written"
  /\ Skip(r, IF Is(r, Copying) THEN "sync" ELSE "trailer")

Verify(r) ==
  VerifyWritten(r, IF Is(r, Copying) THEN "sync" ELSE "trailer")

\* The footer goes over the last 512 bytes, after the file was verified.
WriteFooter(r) ==
  /\ pc[r] = "trailer"
  /\ \/ WantsFooter(job[r]) /\ Write(r, {"foot"}, "footer", FALSE, "recheck")
     \/ ~WantsFooter(job[r]) /\ Skip(r, "recheck")

\* Mutant: no second look after the footer.
RecheckSkipped(r) == pc[r] = "recheck" /\ Skip(r, "attribute")

Recheck(r) == RequireContiguous(r, "recheck", "attribute")

\* Mutant: only the attribute of the directory is looked at.
CheckAttributeSkipped(r) == pc[r] = "attribute" /\ Skip(r, "sync")

\* The created file's own compression attribute.
CheckAttribute(r) ==
  /\ pc[r] = "attribute"
  /\ \/ ~img[r].compressed /\ Goto(r, "sync") /\ UNCHANGED result
     \/ img[r].compressed /\ Abort(r, "Compressed")
  /\ UNCHANGED <<job, attempt, img, dir, disk>>

SyncAll(r) == Sync(r, "sync", "publish")

-----------------------------------------------------------------------------
Step(r) ==
  \/ Precheck(r)     \/ Create(r)       \/ AllocateSpace(r) \/ EarlyCheck(r)
  \/ Zero(r)         \/ PopulateRaw(r)  \/ PopulateQemu(r)  \/ PopulateCopy(r)
  \/ Flush(r)        \/ Verify(r)       \/ WriteFooter(r)   \/ Recheck(r)
  \/ CheckAttribute(r) \/ SyncAll(r)    \/ Publish(r)       \/ RenameAfterCheck(r)
  \/ SyncParentDir(r) \/ DropTemp(r)

Run(r) == Step(r) /\ UNCHANGED <<source, losses>>

\* SIGKILL or an interrupt: the destructor does not run.
Kill(r) ==
  /\ pc[r] \notin {"precheck", "done", "dead"}
  /\ Goto(r, "dead")
  /\ UNCHANGED <<job, attempt, result, img, dir, disk, source, losses>>

\* Another program puts a file of its own at a free target path.
Appear(t) ==
  /\ ~Occupied(t)
  /\ dir' = [dir EXCEPT ![t] = User]
  /\ UNCHANGED <<job, pc, attempt, result, img, disk, source, losses>>

\* Another program truncates the file a run reads from.
CutSource(r) ==
  /\ source[r] = "whole"
  /\ Is(r, {"convert"} \cup Copying)
  /\ pc[r] \in {"create", "allocate", "early", "zero", "populate"}
  /\ source' = [source EXCEPT ![r] = "cut"]
  /\ UNCHANGED <<job, pc, attempt, result, img, dir, disk, losses>>

\* The kernel commits the directory when it likes.
WriteBack ==
  /\ disk' = dir
  /\ UNCHANGED <<job, pc, attempt, result, img, dir, source, losses>>

\* What was not synced is lost, every process with it.  Runs that have not
\* started yet start after the reboot.
Lost(i) == Overwrite(i, {p \in Pieces : i.piece[p] # "none"}, "stale", i.layout)

PowerLoss ==
  /\ losses < MaxLosses
  /\ losses' = losses + 1
  /\ dir' = disk
  /\ img' = [r \in Runs |-> IF img[r].synced THEN img[r] ELSE Lost(img[r])]
  /\ pc' = [r \in Runs |->
              IF pc[r] \in {"precheck", "done"} THEN pc[r] ELSE "dead"]
  /\ UNCHANGED <<job, attempt, result, disk, source>>

Init ==
  /\ job \in [Runs -> JobSet]
  /\ pc = [r \in Runs |-> "precheck"]
  /\ attempt = [r \in Runs |-> 0]
  /\ result = [r \in Runs |-> "none"]
  /\ img = [r \in Runs |-> Blank(FALSE)]
  /\ dir \in {[n \in Names |-> IF n \in old \cup left THEN User ELSE NoFile] :
                 old \in SUBSET Targets, left \in Debris}
  /\ disk = dir
  /\ source = [r \in Runs |-> "whole"]
  /\ losses = 0

Next ==
  \/ \E r \in Runs : Run(r) \/ Kill(r) \/ CutSource(r)
  \/ \E t \in Targets : Appear(t)
  \/ WriteBack
  \/ PowerLoss

Spec == Init /\ [][Next]_vars

\* A run is one sequential process whose system calls all return.
FairSpec == Spec /\ \A r \in Runs : WF_vars(Run(r))

-----------------------------------------------------------------------------
\* The types of the variables: a run never tries a temporary name beyond the
\* last one, and ends with one of the errors of the code.
TypeOK ==
  /\ job \in [Runs -> Jobs]
  /\ pc \in [Runs -> Labels]
  /\ attempt \in [Runs -> 0 .. MaxAttempts - 1]
  /\ result \in [Runs -> Results]
  /\ img \in [Runs -> Images]
  /\ dir \in [Names -> Holders]
  /\ disk \in [Names -> Holders]
  /\ source \in [Runs -> {"whole", "cut"}]
  /\ losses \in Nat

\* Every published file, and every file a power loss can bring back, is one
\* extent, allocated to its last cluster, not compressed if iodd built it, and
\* ends in a footer if its command writes one: no interleaving, failed step or
\* crash gives a target's name to anything less (alloc.rs, "Nothing is
\* published until it is good").
Good(j, i) ==
  /\ Wanted(j) # {} => i.layout = "one"
  /\ FullyAllocated(j, i)
  /\ WantsFooter(j) => i.piece["foot"] = "footer"
  /\ j.cmd \in Building => ~i.compressed

Named(r) == \E t \in Targets : dir[t] = r \/ disk[t] = r

PublishedIsGood == \A r \in Runs : Named(r) => Good(job[r], img[r])

\* With --zero, or where writing was the only way to allocate, no cluster of a
\* published image still holds what was on it before, although convert zeroes
\* only what the source will not cover.
NoStaleBytes ==
  \A r \in Runs :
    Named(r) /\ ExpectWritten(job[r], img[r]) => ~AnyUnwritten(img[r])

\* A published copy holds the bytes of its source in every piece, its holes
\* included, also when the source was cut short while it was being read.
CopyIsFaithful ==
  \A r \in Runs :
    Named(r) /\ Is(r, Copying) /\ ~job[r].sparse =>
      \A p \in Wanted(job[r]) : img[r].piece[p] = "data"

\* A run that ends with an exit code other than 0 has published nothing, under
\* any name, and no power loss makes it appear (TempTarget: "Failure never
\* publishes").
FailureNeverPublishes ==
  \A r \in Runs : result[r] # "none" /\ ExitCode(result[r]) # 0 => ~Named(r)

\* While a run builds, its temporary name is its file, whatever runs with the
\* same pid (reused after a crash, or of another namespace) do meanwhile.
OwnsTemp ==
  \A r \in Runs : pc[r] \in Holding => dir[Temp(r)] = r

\* A run that ended by itself left no temporary file, unless it failed under
\* --keep-on-fail.  After a power loss the medium may be behind.
NoDebris ==
  \A r \in Runs :
    /\ pc[r] = "done"
    /\ losses = 0
    /\ result[r] = "Ok" \/ ~job[r].keep
    => \A n \in TempNames : dir[n] # r

\* Without permission to replace, a run never takes a name that is in use,
\* however late its file appeared, given RENAME_NOREPLACE.
NoClobber ==
  [][\A r \in Runs, t \in Targets :
       /\ losses' = losses
       /\ dir[t] \notin {r, NoFile}
       /\ dir'[t] = r
       => Replaces(job[r]) \/ ~NoReplace]_vars

\* A target that exists, here and on the medium, exists ever after: neither a
\* failed run nor a power loss costs the operator the file that was there.
NeverMissing ==
  [][\A t \in Targets :
       dir[t] # NoFile /\ disk[t] # NoFile
       => dir'[t] # NoFile /\ disk'[t] # NoFile]_vars

\* The abstract view of a run: its file is ready from the fsync to the rename.
Atomic == INSTANCE AtomicPublish WITH
            shown      <- [t \in Targets |-> dir[t]],
            kept       <- [t \in Targets |-> disk[t]],
            ready      <- {r \in Runs : pc[r] \in {"publish", "fallback"}},
            privileged <- {r \in Runs : Replaces(job[r])}

\* Building under a temporary name is, to whoever looks at the targets, atomic
\* publication: AtomicPublish, under the mapping above.
IsAtomic == Atomic!Spec

\* Every run ends: the search for a temporary name is bounded, and no step
\* waits for another run.
EveryRunEnds == \A r \in Runs : <>(pc[r] \in {"done", "dead"})
=============================================================================
