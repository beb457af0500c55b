# iodd-tool in TLA+

`iodd-tool` prepares disk images for an IODD USB enclosure. The firmware reads
an NTFS volume and mounts an image only if it is physically contiguous and fully
allocated, so the tool must build files that have that shape, never name a file
that has not, and tell which existing files have it. This directory holds models
of the parts that decide and change something, the TLC configurations that check
them, and TLAPS proofs of what matters most.

In the repository, `crates/ntfs-contig` is the engine (extent maps, allocation,
copy, volume state) with a command line of its own; `crates/iodd` is the tool for
the device (create, convert, retype, verify, doctor) on top of it.

## Inventory

| Component | Source | State | Operations | Hard because |
|---|---|---|---|---|
| TempTarget | `ntfs-contig/src/alloc.rs` | a temporary file, its handle, kept or not | create, allocate, require_contiguous, zero_region, write_at, verify_written, finalize, Drop | several runs and other programs share one directory; kills, power loss, reused pids; `RENAME_NOREPLACE` may be unknown |
| copy, fix | `ntfs-contig/src/copy.rs` | source and TempTarget | copy, fix | the source shrinks while it is read; holes; file systems without fallocate |
| create | `iodd/src/cmd/create.rs` | TempTarget | run, report_refusal | each step may fail, `--keep-on-fail`, the measurement runs after the drop |
| convert | `iodd/src/cmd/convert.rs` | TempTarget, scratch | raw, qemu-img and verbatim paths | same; zeroes only what the source will not cover |
| probe | `alloc.rs` probe_largest_contiguous | low, high, best, a probe file | binary search by creating files | free space moves meanwhile |
| retype | `iodd/src/cmd/retype.rs` | one file, two names | check, truncate, sync, rename | in place, no temporary file: a failure between two steps stays |
| extent maps | `ntfs-contig/src/extents.rs` | start, records so far | read_extents, map, merge_runs | batches of 1024, records cut anywhere, drivers that misbehave |
| doctor | `iodd/src/cmd/doctor.rs` | report being gathered | walk, grade, check_directory, gather_volume, exit code | tree changes under the walk; parts unreadable |
| verify | `iodd/src/cmd/verify.rs` | none | exit code of one file | must agree with doctor |
| errors, exit codes | `error.rs` of both crates | none | table | wrong class of failure misleads scripts |
| volume state | `ntfs-contig/src/volume.rs`, `main.rs` volume | none of its own; reads a device others write | resolve, read, boot sector, fixups, walk over attributes, exit code | the record spans sectors the driver rewrites while they are read; the bus drops; corrupt lengths |
| footer, geometry | `iodd/src/footer.rs` | none | new, parse, CHS geometry | branches at exact sector counts; a footer of one command is data to the next |
| sizes | `iodd/src/size.rs` | none | parsing, overflow, alignment | the sum with 512 bytes must fit, too |
| source kinds | `iodd/src/source.rs` | none | magic bytes, data length | one wrong guess makes a footer data, or data a footer |
| reports, command lines | `cli.rs`, `main.rs`, `report.rs` | none | printing | left out |

The commands interact through the file system only: one directory (names), the
files behind the names, and the medium, which lags behind both. `create`,
`convert`, `copy` and `fix` go through a TempTarget; `doctor` and `verify` read
through the extent maps; `create` calls the probe after a refusal; `convert`
calls the engine's copy for a source that already is a fixed VHD. `doctor` and
`volume` read the device beneath a mounted file system, past its driver. And each
command takes the file the last one left: what one writes as a footer, the next
one has to recognize.

## Modules

| Module | Stands for | Notes |
|---|---|---|
| `Image` | files and command lines | a file is a head, a tail and a footer, each with what a raw reader finds in it; layout is the number of merged runs |
| `TempTarget` | `alloc.rs` | each action is one system call with the checks on its result; takes the caller's next step as a parameter |
| `Builder` | create, convert, copy, fix | EXTENDS TempTarget; a run is a chain of steps; any number of runs, kills, other programs, write-back, power loss |
| `AtomicPublish` | what TempTarget promises | abstract: paths, commit, one-step install |
| `MCBuilder` | | command lines for TLC; sentences of the documentation |
| `Builder_proofs`, `Content_proofs` | | theorems about Builder: names, shape, the refinement, the number of steps; bytes and leftovers |
| `Probe`, `Probe_proofs` | `report_refusal`, `probe_largest_contiguous` | sizes in units of the granularity |
| `Retype`, `MCRetype`, `Retype_proofs` | `retype.rs` | lengths in sectors; what may go wrong is chosen at the start (`weather`) |
| `Footer` | `footer.rs`, `source.rs`, `size.rs` | pure; lengths in half sectors |
| `Disk`, `MCDisk`, `Disk_proofs` | whole commands in a row on one disk | EXTENDS Footer; a guest writes and footers are damaged in between |
| `Volume`, `MCVolume`, `Volume_proofs` | `volume.rs`, the command `volume` | the reader against a driver and a bus |
| `Extents`, `MCExtents`, `Extents_proofs` | `extents.rs` | blocks, records, batches; an honest driver and one that answers with any of `Strays` |
| `Verdict` | grade of doctor, exit codes of both verify commands | pure |
| `Doctor`, `MCDoctor`, `Doctor_proofs` | `doctor.rs` | walk to exit code |

`PROJECT.json` maps each definition to its lines. The state corresponds to the
code as follows.

*Builder.* `pc[r]` is where run `r` stands; the labels `allocate`, `early`,
`zero`, `populate`, `flush`, `written`, `trailer`, `recheck`, `attribute`,
`sync`, `publish`, `fallback`, `dirsync` are the calls in the order of the code,
and `drop` is the destructor. `attempt` is the counter in `.iodd-{pid}-{attempt}.tmp`,
`img` the file behind the handle, `dir` the directory as processes see it,
`disk` as the medium has it. `source` tells whether somebody cut the file the run
reads from; a copy then stops with an error, or under `--sparse` may take the lost
rest for a hole and go on (`PopulateCopy`). Every call may fail; an error after `create` goes through `drop`
because Rust runs the destructor, a kill does not. A power loss makes `dir` what
`disk` is and turns every unsynced piece back into what the clusters held.
`WriteBack` lets the kernel commit the directory at any time; `sync_parent_dir`
ignores its failure, so `disk' \in {dir, disk}`.

*Probe.* `low`, `high`, `best` and the loop as written, divided by the
granularity. `held` is the file that was refused, which is dropped before the
search unless kept. `spoiled` remembers that a probe failed for another reason or
the space changed, the cases where a binary search owes nothing. The code ignores
whether its two unlinks of the probe file work; each may fail here, and `stuck` says
that the last one did, the one case in which `NoProbeLeft` excuses a leftover.

*Retype.* `at` is who has each of the two names, `len` the lengths, `kept` and
`stored` the same on the medium; `promised` is the guest-visible size as far as
no forced `.rmd -> .vhd` gave a sector away. `size` and `handle` are read once and
used later, as in the code.

*Extents.* `start` and `out` are the locals of `read_extents`. The file is fixed;
the driver cuts it into records (`cuts`) and answers up to `Batch` of them per
call. `honest = FALSE` is a driver that answers with up to `Batch` of the records of
`Strays`, any of them, in any order and as often as it likes, whatever the file holds.
`answer` is the verdict of `map`; the map that comes with it is `MergeRuns(out)` and
`AnyUnwritten(out)`. What the code sorts and folds is stated by rank: `Sorted` puts
the record with k records at or before it at place k, and a run is a chain of
records that join, from one member of `Starts` to the next.

*Disk.* `file` is the disk in its latest file: its extension, whether it is an
image or some container, its length, and which pieces of its end are footers.
`disk` is how much of it holds data of the guest. One action is one command that
succeeds, with the decisions that `create.rs`, `convert.rs` and `retype.rs` take
from `classify`, `require_512_aligned` and the sizes; `head` and `tail` say whether
convert could read the two ends of its source, because the code takes an end it
cannot read for zeros. `forced` remembers a `--force`, `misread` a failed read.

*Volume.* `medium` has a generation in each sector of the `$Volume` record,
`latest` and `says` the writes of the driver, `pending` the sectors a write has yet
to reach, `plugged` the bus. The reader is `pc`, `turn`, `copy`, `off`, `info`: open,
boot sector, record sector by sector, fixups, one turn of the attribute loop per
step. `seen` remembers the generations that were whole on the medium at some
moment of the current read; `mixed` that a read met sectors so many writes apart
that their 16-bit numbers repeat, which no reader can notice.

*Doctor.* `todo` are the entries the walk has yet to yield; files may vanish
before or while being opened. What cannot be opened is in `barred`: files, the
subdirectory, or the top directory, of which the walk then yields nothing. An entry
that the walk loses to an error is in `unlisted` (`VisitFails`). `full` and `seen` are the findings on directories
and the volume; `exit` is the code, 255 while running.

## Runs

| Run | Question | Size |
|---|---|---|
| `names` | Two copies or fixes with the same pid in one directory, with leftovers of a killed one, killed, losing power, meeting other programs: who owns which name, and does Builder implement AtomicPublish? `TypeOK`, `OwnsTemp`, `NoDebris`, `NoClobber`, `NeverMissing`, `FailureNeverPublishes`, `IsAtomic` | 2 runs, 1 target, 2 attempts, 1 loss |
| `builds` | Every command line of every command, without `RENAME_NOREPLACE`: what can get a name, and does the run end? `PublishedIsGood`, `NoStaleBytes`, `CopyIsFaithful`, `EveryRunEnds` | 1 run, 1 loss, fair |
| `probe` | Is the figure `create` prints right, however the search is disturbed? `Exact`, `NeverOverstates`, `NoProbeLeft`, `Ends` | sizes 0..9 |
| `retype` | What do retypes keep, one after another or overlapping, when nothing or everything goes wrong? `TypeOK`, `GuestKeepsItsDisk`, `ImageIsNamed`, `OneSectorEach` | 3 invocations, lengths 0..3 |
| `disk` | What does a chain of commands do to one disk? `NothingLost`: no command takes what the guest wrote for a footer. `FooterTells`: no footer is buried as data, and the one at the end describes the disk. `GeometryFits` | 3 commands, 11 sizes around each branch |
| `volume` | What is the answer of `volume` worth while the record is being written and the bus drops? `AnswerWasTrue`, `ExitTells`, `NeverGuesses`, `TypeOK`, `Ends` | 2 targets, 2 sectors, 2 writes, 34 volumes |
| `extents` | Is the number of runs the file's own, across batches, cuts and flags, also for a misbehaving driver? `CoreQuestion`, `Faithful`, `FlagsSurvive`, `Maximal`, `Ends` | 4 blocks, batches of 2 |
| `audit` | What do doctor's exit codes mean, and do doctor and both verify commands agree? `TypeOK`, `ZeroIsClean`, `FourIsEarned`, `GatesAgree`, `WarningsAgree`, `EnginesAgree` | 2 files, or a device |

All of these pass. Four further runs check one sentence of the documentation each
and find it violated by what the code does (the quotes are in `PROJECT.json`):

| Run | Sentence | What happens |
|---|---|---|
| `rmd_footer` | a `.rmd` carries no footer | `convert` to a `.rmd` appends one |
| `short_source` | the source overwrites all of its range | a source that shrinks leaves old clusters, and the run reports success |
| `short_copy` | copy is byte for byte | `--sparse` without fallocate publishes a copy shorter than its source |
| `retype_abort` | the guest-visible size is preserved | cut in place, then the rename fails: a `.vhd` one sector short |

### Bounds

| Bound | Code | Why it is enough |
|---|---|---|
| `MaxAttempts = 2` | 64 | the first, another and the last attempt are different cases; the proofs are for every value |
| `MaxLosses = 1` | unbounded | a second loss starts from what the first left; nothing in the code counts |
| `Debris` | any | `names` and `builds` start from a free directory and from one with the first name taken, where two runs have one name left; `Nothing` elsewhere |
| `Runs`: 2 | any | names are contended pairwise; in `builds`, runs interact through names only, so one is enough for what is in a file |
| one target | any | distinct targets share only temporary names, which carry pid and counter |
| `Sizes` 0..9 | `u64` | three to four levels of the search; both parities of every interval |
| `MaxChanges = 1` | any | one change of the free space at any step makes the search non-monotone |
| `MaxLength = 3`, three invocations | any | lengths 0 and 1 are the edges; three cuts exhaust a file |
| `Weathers` of `retype` | all at once | nothing; everything with other programs' files; everything with overlapping retypes. Not the last two together: see below |
| `MaxCommands = 3` | any | made, taken over, and taken over again: a footer is written, recognized and would be buried; the proofs are for any number |
| `Requests`, `Counts` | any | one below, at and above each branch of the geometry; 0, odd bytes, the largest number and twice that, and the largest aligned size |
| damage of a footer | any | once for each footer, in the cookie, a size field or the type: each decides otherwise in `classify` or `parse` |
| `Limit` | 2^64 - 1 bytes | one less than a power of two and larger than every geometry; the largest aligned request fits, but not with a footer (`HasRoom`: without that check the sum would wrap, and `NothingLost` fails), and its double does not fit at all |
| `Sectors = 2`, `Cells = 2` | 2, 256 | sectors can tear; the flag lies under a stamp, or not |
| `Usns = 2`, `MaxWrites = 2` | 65535, any | two writes make numbers repeat, which `mixed` and `Close` then set aside |
| `Targets = 2` of `volume` | any | a clean after a dirty one, and a failure after either; the proof is for any number |
| `Volumes` | any | each boot sector field at its limits with a plain record, each corruption of a record under a plain boot sector |
| `Blocks = 4`, `Batch = 2` | any, 1024 | up to two full batches, or one and a partial one; a run across the boundary between them |
| `Addresses` 0..3 | `u64` | placements in order, reversed, apart, with holes |
| `Quirky = 2`, `Strays` | any | under the misbehaving driver: the size of the file in blocks, and the records to choose from; the eight of `MCExtents` repeat, swap, overlap, stall, lie past the end or carry a flag. The proofs that speak of this driver are for any set of records |
| `MaxRecords` | none | a cut-off for the records kept; `TypeOK` shows it is never met |
| `MaxItems = 2`, `MaxFragments = 1` | 32, 24 | below, at and above the limit |

`audit` uses symmetry of the files, `names` of the runs;
both check safety only (`IsAtomic` is the refinement of a specification without
fairness). The runs say `CHECK_DEADLOCK
FALSE` because each models programs that end.

### Fairness

`Builder` assumes weak fairness of each `Run(r)`, `Probe` and `Volume` of their
`Step`, `Extents` of `Next`: each is one sequential process, blocked by nothing but system
calls, which return. Kills, power losses, other programs, write-back, the driver and the bus are never
fair: `volume` ends although the record may be rewritten under it for ever, and an
unplugged device fails its reads at once. Each run may be killed or fail at any step, and no run waits for another, so
weak fairness is all that `EveryRunEnds` and `Ends` need.

## Proofs

For every set of runs, pids and targets, every set of command lines, every
`MaxAttempts >= 1`, and with or without `RENAME_NOREPLACE`, `Builder_proofs` shows
that `Spec` implies `TypeOK`, `OwnsTemp`, `PublishedIsGood`,
`FailureNeverPublishes`, `NoClobber` and `NeverMissing`. The assumptions are those
of the modules: the other program's file, the free name and the runs all differ,
no target is a temporary name, and `MaxAttempts` is not zero. The invariant has
four parts: `TypeOK`; *Owns*, the temporary name of a run that is still building
stands for that run's file (`O_EXCL` gives it, and nobody else's step may touch it,
whatever pids are reused); *Stage*, what each label already knows about the file
(after `written` it is fully allocated, after `trailer` the footer is there, after
`recheck` it is one run, from `sync` on it is good, from `publish` on synced); and
*Published*, a file that has a target's name in `dir` or in `disk` is past its
`rename`, of a run that reported no error, good, and synced. `PublishedIsGood`
alone is not inductive: a power loss rewrites what is not synced and brings back
names from `disk`, and a rename may come at any later time of the label before it.

`Content_proofs` adds `NoDebris`, `NoStaleBytes` and `CopyIsFaithful`. The invariant
says of each label what is known of the bytes (*Told*: from `verify_written` on
nothing stale is left where all had to be written, from the populating pass on a
copy holds its source), carries that over to whatever has a target's name, and
ties each temporary name in the directory to a run that still works on it, was
killed, or was told to keep it (*Tidy*).

The last parts of `Builder_proofs` show that `Spec` implies `IsAtomic`: under the
mapping in `Builder` every step of a run that is not a rename is hidden or makes its
file ready, `rename` is an installation, `WriteBack` a commit, `PowerLoss` a loss. It
needs the invariant for one thing: the name a rename moves is its own run's file, and
not another's.

`Extents_proofs` shows `TypeOK`, `CoreQuestion`, `Faithful`, `FlagsSurvive` and
`Maximal` for files of any number of blocks at any addresses, every cut into records,
every batch size and, for `TypeOK` and `Maximal`, every driver. The invariant `IInv`
says what the loop has read: all the records that begin before `start` (*Holds*), none
of which reaches past it, and no more than `Batch` for each block passed. `CoreQuestion`
alone says nothing before `map` answers, so it is not inductive. The second half is
about merging, for any records whatever: `Ranked` lays a finite set out in its order
(`RankedLemma`), `Sorted` keeps every record that is no marker (`SortedLemma`), and
each chain of records becomes one run of the same blocks at the same addresses
(`ChainsLemma`, `MergeLemma`). Where a program would argue by induction along the row,
the proof takes the least place at which the claim fails (`LeastOf`, from the library's
theorem that `<` on the naturals is well-founded) and looks at the one before it.
Where no two records begin at one place, the runs depend on which records there are,
and neither on their order nor on the markers among them (`MergeIgnoresOrder`).

`Probe_proofs` shows `TypeOK`, `Exact`, `NeverOverstates` and `NoProbeLeft` for any
sizes and any number of changes. The invariant brackets the answer: `best` is the
last size that fitted, `low` starts just above it, and as long as nothing is
spoiled `best` is on offer and nothing longer than `high` is.

`Doctor_proofs` shows `TypeOK`, `ZeroIsClean`, `FourIsEarned`, `GatesAgree`,
`WarningsAgree` and `EnginesAgree` for any finite set of files and any limits. The
invariant says what a record can be (the file's grade, if it could be opened, or
unreadable, and only of an image of a type asked for in a directory that can be
listed), that what the walk has left behind has a record, that a directory reported
as too full held too much when the walk began, and that the exit
code is the one of what was found. `DoctorReportsTree` adds that a tree nothing
disturbs, walked without an error, gets one report, whatever order the directory yields its entries in: every
record, every overfull directory and the exit code are functions of the tree and the
command line (`DueExit`). Its invariant, *Steady*, says that of each stage of the walk.

`Retype_proofs` shows `TypeOK`, `GuestKeepsItsDisk`, `ImageIsNamed` and
`OneSectorEach` for any finite set of runs, any length and any weather in which
other programs' files and overlapping retypes do not meet. *Names* says that the
image has exactly one name, here and on the medium, and which file each run has its
hands on; *LInv* keeps every length of it, in memory, on the medium or read by a
run, within as many sectors of the first as runs to `.rmd` have begun; *Calm* says
of a behaviour in which nothing goes wrong that what a run has read still holds,
and that only between its cut and its rename the guest may be shown less.

`Disk_proofs` shows `NothingLost`, `FooterTells` and `GeometryFits` for chains of any
length over any files and sizes: *Kept* says that the guest's data and all footers
fit side by side in the file (`NothingLost` is not inductive without the footers),
*Own* that what create and convert leave ends in `Footer::new` of its length,
*Buried* that no piece below the last footer has a cookie. `ChsFits` is the geometry
for every number of sectors, whichever branch it takes.

`Volume_proofs` shows `TypeOK`, `AnswerWasTrue`, `ExitTells` and `NeverGuesses` for any
number of sectors, writes, targets and update sequence numbers. The heart is
*Missed*: a generation that was not whole on the medium during this read is missing
from some sector both of the copy and of the medium, so it never will be a whole
copy; this needs *Order*, a sector once read is never older on the medium than in
the copy. Numbers that agree, of writes less than `Usns` apart, are of one write
(`OneGeneration`), so what passed the fixups was whole. *Walked* keeps the trail of
attributes that `NeverGuesses` asks for and shows it to be in every set that is
closed like it, so it is the least, *Sums* the answers behind the exit code.

Only model-checked: liveness (`EveryRunEnds`, the three `Ends`), because the prover
has no rules for `ENABLED`, which weak fairness is made of. What can be proved of it
is: `BuilderIsBounded`, `VolumeIsBounded`, `ProbeIsBounded`, `ExtentsIsBounded`,
`RetypeIsBounded` and `DoctorIsBounded` give each process a natural number of steps
it still owes (*Owed*, for a retype *Rank*), which each of its steps lowers and no
step of anything else raises, for all values of the constants. So no process runs for
ever; that it does not stop short either is what TLC checks of the first four. For a
run of Builder the number counts the labels below its own and the names it has yet to
try, for the reader of the volume the targets, sectors, cells and attributes ahead.
`ProbeHalves` says more of the search: each probe decides half of the sizes that were
left.

## Not modelled, and why

- The layout of bytes in footers, boot sectors and records (fields are read and
  written at the offsets of the formats), the checksum (a field that is right or
  wrong), the spelling of units in sizes, and which of seven magic numbers makes a
  container.
- A raw disk whose own first bytes look like a container, or whose last sector
  begins with `conectix`: no reader of the file alone can tell.
- The label and the further flags that `volume` prints.
- Rendering, JSON and progress: they change nothing.
- That a killed build leaves a temporary file as large as the image, which no
  command looks for: `NoDebris` excepts kills, and there is nothing to check.
- A failing `unlink` in the destructor of TempTarget (ignored by the code) and other
  programs that delete or replace a target between two steps.
- A program that changes the source of `fix` without changing its length while it
  is copied: the change is lost, as with any copy.
- Overlapping retypes while another program creates files (next section).
- Extents that the file system moves while they are being read, and records whose
  numbers come near 2^64, where the code's sums saturate and the model's do not.
- The block cache below `fsync`, and what qemu-img does inside.

## Further differences between code and documents, without a run

These were met while reading; each is plain from the code.

- `SPEC.md:221` gives exit 2 to a target that exists without `--force`. The verbatim
  path of `convert` leaves that to the engine, whose error is `Allocation`: exit 3.
- `copy --sparse` takes a source that is cut while it is read for one that ends in a
  hole: `copy_data_extents` finds no further data and reports success, and in the rest
  of the target the old clusters stay. `CopyIsFaithful` excludes `--sparse`.
- `SPEC.md:146` says the sectors `convert --size` adds stay zero. Without `--zero`
  they are reserved and never written, so the raw device shows what was there.
- Two retypes of one image that overlap while another program puts a file at the
  free name can destroy the image: the slower one takes the stranger's file for its
  own and renames it over the image. Hence the assumption on `Weathers`.
- `retype` cuts whatever is called `.vhd`, a container too, without looking at its
  end; `Disk` has it (`kind` becomes `"cut"`), and `NothingLost` is about images.
- `convert`'s verbatim path publishes a fixed VHD whose length is not a whole number
  of sectors; the others refuse one (`require_512_aligned`).
- The two verify commands differ where `main.rs:131-132` of the engine promises the
  codes of iodd: uninitialized extents give 5 and 0 (7 under `--strict`), an empty
  file 0 and 4, a file without a map 4 and 8. Hence the conditions of `EnginesAgree`.
- `SPEC.md:192` has other containers under a fixed-VHD name reported as
  `WILL-NOT-MOUNT`; one that is contiguous and allocated is graded a warning
  (`GradeVhdFamily`), exit 0.
- `volume.rs:172-177` promises `VolumeUnreadable` for a geometry that is not
  self-consistent; a cluster of 0 sectors passes for one of a single byte.
- `resolve` follows a symbolic link to a device, the open that comes next does not
  (`O_NOFOLLOW`): a link from `/dev/disk/by-id` fails with `Io`.
- `volume` ends at the first target it cannot read, with that error's code, also
  when an earlier one was dirty; hence `ExitTells` says nothing of 1 and 8.
- `retype.rs:63` refuses an existing target; the later rename is plain and replaces
  one that appears in between. The rename is also not followed by an fsync of the
  directory.
- `alloc.rs:332` says None means that not even one unit can be had. The search tries
  a single unit only where its bounds bring the middle there (as from 0 to 2 or 3), so
  an offer of exactly one can be missed (the exception in `Exact`).
- `SPEC.md:201` gives exit 4 to a file that will not mount; one unreadable file
  makes it 1. `SPEC.md:188` collects every file; what the walk cannot read, an entry
  or a directory, the root included, is passed over silently (`Walked`, `VisitFails`),
  and the exit code may be 0.
- `SPEC.md:209` does not trust an extent count of 0. verify exits with 8 there,
  doctor grades the file Mountable; hence `runs > 0` in `GatesAgree`.
- `doctor.rs:229` says a `.rmd` without a footer is right; `verify --strict` exits
  with 7 for it; hence `WarningsAgree` is about `.vhd` and `.vmdk`.

## Plan

Done, in this order: `Image`, `TempTarget`, `AtomicPublish`, `Builder` and their
runs and proofs; `Probe`; `Retype`; `Extents`; `Verdict` and `Doctor`; `Volume`;
`Footer` and `Disk`; the proofs of `Disk`, `Retype`, of the bytes and leftovers of
`Builder`, of its refinement, of `Volume` and of `Extents`; the bounds on steps; the report of
`doctor` as a function of the tree.

Next:

1. `fix` on a file that somebody writes to: contents of targets that change, and
   which of them the rename loses.
2. Extents that move between two batches of one map.
