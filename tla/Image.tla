------------------------------- MODULE Image --------------------------------
(***************************************************************************)
(* What a run of the tool is asked to build, and what an image file is     *)
(* made of.  A file is at most three pieces, in this order:                *)
(*                                                                         *)
(*   head  the bytes the source supplies (for create: the data region)     *)
(*   tail  what lies beyond them: the enlargement of convert --size, or    *)
(*         the part of a copied file that is a hole in the source          *)
(*   foot  the last 512 bytes of a file built by create or convert         *)
(*                                                                         *)
(* Byte offsets, names and sizes are abstracted to these pieces: they are  *)
(* all the checks of the tool tell apart.                                  *)
(***************************************************************************)
EXTENDS Naturals

CONSTANTS
  Targets,      \* the paths an image may be published at
  Pids,         \* process identifiers, which may be reused
  MaxAttempts   \* temporary names tried before giving up (64 in the code)

ASSUME AttemptsAssumption == MaxAttempts \in Nat \ {0}

Pieces == {"head", "tail", "foot"}

\* What a reader of the raw device finds in a piece: no cluster at all, the
\* old bytes of a cluster that was reserved and never written, zeros, the
\* bytes of the source, or a VHD footer.
Content == {"none", "stale", "zero", "data", "footer"}

Layouts == {"none", "one", "split"}

Images == [reserved   : BOOLEAN,     \* did fallocate reserve the space?
           layout     : Layouts,     \* the merged FIEMAP runs: 0, 1, more
           compressed : BOOLEAN,     \* the compression attribute, if it can be read
           synced     : BOOLEAN,     \* everything written is on the medium
           piece      : [Pieces -> Content]]

\* A file just opened with O_EXCL; compression is inherited from the directory.
Blank(c) == [reserved |-> FALSE, layout |-> "none", compressed |-> c,
             synced |-> FALSE, piece |-> [p \in Pieces |-> "none"]]

\* The image i after content c is written over the pieces ps.  The file system
\* decides where it puts them (a copy-on-write one moves what it overwrites).
Overwrite(i, ps, c, lay) ==
  [i EXCEPT !.piece = [p \in Pieces |-> IF p \in ps THEN c ELSE i.piece[p]],
            !.layout = lay, !.synced = FALSE]

-----------------------------------------------------------------------------
(***************************************************************************)
(* One command line.  "verbatim" is the path of convert that copies a      *)
(* fixed VHD, "container" the one that runs qemu-img; "copy" and "fix" are *)
(* the engine's own commands.                                              *)
(***************************************************************************)
Iodd    == {"create", "convert", "container", "verbatim"}
Copying == {"verbatim", "copy", "fix"}
Building == {"create", "convert", "container"}

Jobs == [cmd    : Iodd \cup Copying,
         pid    : Pids,
         out    : Targets,
         ext    : {"vhd", "rmd"},       \* the extension of out, resolved
         force  : BOOLEAN,
         keep   : BOOLEAN,              \* --keep-on-fail
         zero   : BOOLEAN,
         grow   : BOOLEAN,              \* --size beyond the source's size
         sparse : BOOLEAN,              \* copy --sparse
         \* the source of a copy: no byte at all, all data, a hole in its tail,
         \* or a hole in its tail smaller than a cluster of the target
         src    : {"empty", "full", "holed", "slack"}]

\* The pieces of the file the command allocates.  create leaves the footer out
\* of a .rmd; convert always allocates one.
Wanted(j) ==
  CASE j.cmd = "create" -> IF j.ext = "rmd" THEN {"head"} ELSE {"head", "foot"}
    [] j.cmd \in {"convert", "container"} ->
         IF j.grow THEN Pieces ELSE {"head", "foot"}
    [] OTHER -> IF j.src = "empty" THEN {} ELSE {"head", "tail"}

WantsFooter(j) == j.cmd \in Building /\ "foot" \in Wanted(j)

\* fix replaces its own source, so it never counts as clobbering.
Replaces(j) == j.force \/ j.cmd = "fix"

\* Did the command promise that every byte of the file is written?
ExpectWritten(j, i) ==
  IF j.cmd \in Copying THEN ~j.sparse ELSE j.zero \/ ~i.reserved

\* The allocation check compares st_blocks, whole clusters, with the length: a
\* missing tail that fits in the slack of the last cluster is invisible to it.
Blind(j) == IF j.cmd \in Copying /\ j.src = "slack" THEN {"tail"} ELSE {}

FullyAllocated(j, i) ==
  \A p \in Wanted(j) \ Blind(j) : i.piece[p] # "none"

AnyUnwritten(i) == \E p \in Pieces : i.piece[p] = "stale"
=============================================================================
