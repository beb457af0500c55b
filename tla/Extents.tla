------------------------------- MODULE Extents ------------------------------
(***************************************************************************)
(* crates/ntfs-contig/src/extents.rs: the extent map of a file, read from  *)
(* the driver a batch of records at a time (read_extents), refused if a    *)
(* record carries an untrusted flag, and merged into runs (map).           *)
(*                                                                         *)
(* A file is a row of blocks, each a hole or a physical address; it may    *)
(* own blocks past its size.  The driver cuts the row into records where   *)
(* it has to, and also wherever it likes.                                  *)
(***************************************************************************)
EXTENDS Integers, Sequences, FiniteSets

CONSTANTS
  Blocks,      \* blocks of a file, counted
  Addresses,   \* physical addresses, as a set of numbers
  Batch,       \* records asked for per ioctl (1024 in the code)
  Odd,         \* flags a block may carry: uninitialized, or not trusted
  Strays,      \* the records a driver that is not honest may return
  Quirky       \* blocks of the file it returns them for

RecordType == [logical : Nat, physical : Nat, length : Nat,
               flag : {"data", "unwritten", "unknown"}]

ASSUME ExtentsAssumption ==
  /\ Blocks \in Nat /\ Batch \in Nat \ {0}
  /\ Addresses \subseteq Nat /\ Quirky \in 0 .. Blocks
  /\ Odd \subseteq {"unwritten", "unknown"}
  /\ Strays \subseteq RecordType

Block == 0 .. Blocks - 1

Hole  == -1

VARIABLES
  phys, flag, cuts, size,   \* the file: they do not change while it is read
  honest,                   \* FALSE: any records, in any order, as often as it likes
  pc, start, out,           \* the loop of read_extents
  answer                    \* what map returned: with "map", the runs of out

file == <<phys, flag, cuts, size, honest>>
vars == <<file, pc, start, out, answer>>

\* A bound on the records kept.  TypeOK shows that it is never met: start grows
\* in every round but the last.
MaxRecords == Batch * size + 1

\* Every way to place the blocks; no two share an address.
Placements ==
  {p \in [Block -> Addresses \cup {Hole}] :
     \A b, c \in Block : p[b] = p[c] /\ b # c => p[b] = Hole}

\* Is b in the same physically contiguous run as the block before it?
Continues(b) == b > 0 /\ phys[b] # Hole /\ phys[b - 1] # Hole
                      /\ phys[b] = phys[b - 1] + 1

\* The blocks at which the driver starts a record.
Heads ==
  {b \in Block : phys[b] # Hole /\
     ~(Continues(b) /\ flag[b] = flag[b - 1] /\ b \notin cuts)}

Record(b) ==
  LET stop == {c \in b + 1 .. Blocks : c = Blocks \/ phys[c] = Hole \/ c \in Heads}
  IN  [logical |-> b, physical |-> phys[b], flag |-> flag[b],
       length |-> (CHOOSE c \in stop : \A d \in stop : c <= d) - b]

End(x) == x.logical + x.length

\* The members of a finite set in a row, each at its rank: upTo[x] holds x and
\* the members before it.
Ranked(upTo) ==
  [k \in 1 .. Cardinality(DOMAIN upTo) |->
     CHOOSE x \in DOMAIN upTo : Cardinality(upTo[x]) = k]

Ascending(S) == Ranked([x \in S |-> {y \in S : y <= x}])

InOrder(S) == Ranked([x \in S |-> {y \in S : y.logical <= x.logical}])

FirstOf(q, n) == IF Len(q) <= n THEN q ELSE SubSeq(q, 1, n)

Records == {Record(b) : b \in Heads}

\* FIEMAP_EXTENT_LAST: on the last record of the file, past its end or not.
IsLast(x) == \A y \in Records : y.logical <= x.logical

\* Mutant: past the end of the file, as filefrag does.
BoundPastEnd == Blocks

\* The query ends with the file, not with the cluster its last byte is in.
Bound == size

\* What FS_IOC_FIEMAP answers to the range from start to Bound.
Answers ==
  IF honest
  THEN LET pending == {x \in Records : End(x) > start /\ x.logical < Bound}
       IN  {FirstOf(InOrder(pending), Batch)}
  ELSE UNION {[1 .. k -> Strays] : k \in 0 .. Batch}

\* Does one of the records say that it is the last?
SaysLast(got) ==
  IF honest THEN {\E k \in DOMAIN got : IsLast(got[k])} ELSE BOOLEAN

-----------------------------------------------------------------------------
\* The records that are not markers, by their place in what the driver gave.
Real(extents) == {i \in DOMAIN extents : extents[i].length > 0}

\* Mutant: abutting physical offsets are enough.
JoinsPhysically(x, y) == y.physical = x.physical + x.length

\* A record joins the one before it when it goes on where that one ends, both
\* in the file and on the medium.
Joins(x, y) == y.logical = End(x) /\ y.physical = x.physical + x.length

\* Mutant: the records are taken in the order the driver gave.
Unsorted(extents) ==
  LET at == Ascending(Real(extents))
  IN  [k \in DOMAIN at |-> extents[at[k]]]

\* By place in the file; the sort is stable.
Sorted(extents) ==
  LET S  == Real(extents)
      at == Ranked([i \in S |->
              {j \in S : \/ extents[j].logical < extents[i].logical
                         \/ extents[j].logical = extents[i].logical /\ j <= i}])
  IN  [k \in DOMAIN at |-> extents[at[k]]]

\* Where a run starts in q.
Starts(q) == {k \in DOMAIN q : k = 1 \/ ~Joins(q[k - 1], q[k])}

\* merge_runs: the chains of records that join make the runs.
MergeRuns(extents) ==
  LET q    == Sorted(extents)
      s    == Ascending(Starts(q))
      last == [i \in DOMAIN s |-> IF i = Len(s) THEN Len(q) ELSE s[i + 1] - 1]
  IN  [i \in DOMAIN s |->
         [logical  |-> q[s[i]].logical,
          physical |-> q[s[i]].physical,
          length   |-> End(q[last[i]]) - q[s[i]].logical]]

Untrusted(extents) == \E k \in DOMAIN extents : extents[k].flag = "unknown"

AnyUnwritten(extents) == \E k \in DOMAIN extents : extents[k].flag = "unwritten"

\* Mutant: the next query starts at the last record instead of after it.
AdvanceTo(x) == x.logical

Advance(x) == End(x)

\* Mutants: only one of the two guards.
StopsAtEnd(next)   == next >= size
StopsAtStall(next) == next <= start

\* No progress, or nothing left to ask for.
Stops(next) == next <= start \/ next >= size

\* One round of the loop: the ioctl, and the three ways it is the last one.
Round ==
  /\ pc = "loop"
  /\ UNCHANGED <<file, answer>>
  /\ \E got \in Answers, last \in BOOLEAN :
       LET n == Len(got)
       IN  /\ last \in SaysLast(got)
           /\ out' = FirstOf(out \o got, MaxRecords)
           /\ \/ /\ n = 0
                 /\ pc' = "map" /\ UNCHANGED start
              \/ /\ n > 0
                 /\ LET next == Advance(got[n])
                    IN  IF last \/ Stops(next)
                        THEN pc' = "map" /\ UNCHANGED start
                        ELSE start' = next /\ UNCHANGED pc

\* The ioctl fails: no verdict at all.
RoundFails ==
  /\ pc = "loop"
  /\ pc' = "done"
  /\ answer' = "Unverifiable"
  /\ UNCHANGED <<file, start, out>>

\* The map returned with it is MergeRuns(out) and AnyUnwritten(out).
Map ==
  /\ pc = "map"
  /\ pc' = "done"
  /\ answer' = IF Untrusted(out) THEN "Unverifiable" ELSE "map"
  /\ UNCHANGED <<file, start, out>>

\* Any file, told apart by what the driver can tell of it: a hole has no flag, and
\* it is not cut.  Where the driver answers as it likes, the file has no say.
Init ==
  /\ honest \in BOOLEAN
  /\ phys \in Placements
  /\ flag \in [Block -> Odd \cup {"data"}]
  /\ \A b \in Block : phys[b] = Hole => flag[b] = "data"
  /\ cuts \in SUBSET {b \in Block : Continues(b)}
  /\ size \in 0 .. Blocks
  /\ honest \/ (size = Quirky /\ \A b \in Block : phys[b] = Hole)
  /\ pc = IF size = 0 THEN "map" ELSE "loop"
  /\ start = 0
  /\ out = <<>>
  /\ answer = "none"

Next == RoundFails \/ Round \/ Map

Spec == Init /\ [][Next]_vars

\* One sequential loop, whose ioctl returns.
FairSpec == Spec /\ WF_vars(Next)

-----------------------------------------------------------------------------
Mapped == {b \in Block : b < size /\ phys[b] # Hole}

\* The types of the variables: the length asked for, size - start, never wraps,
\* and the loop ends within Blocks rounds.
TypeOK ==
  /\ phys \in Placements
  /\ flag \in [Block -> {"data", "unwritten", "unknown"}]
  /\ cuts \subseteq Block /\ size \in 0 .. Blocks /\ honest \in BOOLEAN
  /\ pc \in {"loop", "map", "done"}
  /\ start \in 0 .. size
  /\ Len(out) < MaxRecords
  /\ answer \in {"none", "Unverifiable", "map"}

\* Is the data of the file one run?  Read off the blocks themselves.
Contiguous ==
  /\ Mapped # {}
  /\ \A b, c \in Mapped : b < c => phys[c] - phys[b] = c - b
                                    /\ \A d \in b .. c : d \in Mapped

\* The tool's core question gets the file's own answer, however many ioctls
\* the map took and wherever the driver cut it.
CoreQuestion ==
  honest /\ answer = "map" => (Len(MergeRuns(out)) = 1 <=> Contiguous)

\* The runs cover the mapped blocks, each at its address: nothing is lost or
\* counted twice where one batch ends and the next begins.
Faithful ==
  honest /\ answer = "map" =>
    LET runs == MergeRuns(out)
    IN  \A b \in Block : b < size =>
          LET holds == {k \in DOMAIN runs : b \in runs[k].logical .. End(runs[k]) - 1}
          IN  IF phys[b] = Hole THEN holds = {}
              ELSE \E k \in holds :
                     /\ holds = {k}
                     /\ phys[b] = runs[k].physical + b - runs[k].logical

\* An uninitialized block anywhere in the file is reported, and no other is;
\* a map with a block whose place is unknown gives no verdict.
FlagsSurvive ==
  honest /\ answer = "map" =>
    /\ AnyUnwritten(out) <=> \E b \in Mapped : flag[b] = "unwritten"
    /\ \A b \in Mapped : flag[b] # "unknown"

\* Whatever a driver answers, runs are in order of their place in the file and
\* no two neighbours could have been one run; no record vanishes from the map.
Maximal ==
  answer = "map" =>
    LET runs == MergeRuns(out)
    IN  /\ \A k \in DOMAIN runs \ {1} :
             LET a == runs[k - 1]
             IN  /\ a.logical <= runs[k].logical
                 /\ ~(End(a) = runs[k].logical
                      /\ a.physical + a.length = runs[k].physical)
        /\ \A i \in DOMAIN out : out[i].length > 0 =>
             \E k \in DOMAIN runs :
               /\ runs[k].logical <= out[i].logical
               /\ End(out[i]) <= End(runs[k])
               /\ out[i].physical - out[i].logical
                    = runs[k].physical - runs[k].logical

\* A driver that makes no progress must not spin the loop for ever.
Ends == <>(pc = "done")
=============================================================================
