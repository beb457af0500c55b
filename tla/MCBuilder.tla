----------------------------- MODULE MCBuilder ------------------------------
(***************************************************************************)
(* Command lines for the runs of Builder, and what the documentation says  *)
(* of single commands.                                                     *)
(***************************************************************************)
EXTENDS Builder, TLC

CONSTANT t1

OneTarget == {t1}

Line == [cmd |-> "create", pid |-> 1, out |-> t1, ext |-> "vhd",
         force |-> FALSE, keep |-> FALSE, zero |-> FALSE, grow |-> FALSE,
         sparse |-> FALSE, src |-> "full"]

\* Copies of an empty file take the shortest way through a TempTarget, create,
\* sync and publish: several runs meet at every step of it.
NameJobs ==
  {[Line EXCEPT !.cmd = "copy", !.src = "empty", !.force = f, !.keep = k] :
     f, k \in BOOLEAN}
  \cup {[Line EXCEPT !.cmd = "fix", !.src = "empty"]}

\* Every command line of create and of convert for one target.
BuildJobs ==
  {[Line EXCEPT !.cmd = c, !.ext = e, !.force = f, !.zero = z, !.grow = g] :
     c \in Building, e \in {"vhd", "rmd"}, f, z, g \in BOOLEAN}

\* Every copy, of every kind of source.
CopyJobs ==
  {[Line EXCEPT !.cmd = c, !.force = f, !.src = s] :
     c \in Copying, f \in BOOLEAN, s \in {"empty", "full", "holed", "slack"}}
  \cup {[Line EXCEPT !.cmd = c, !.sparse = TRUE, !.src = s] :
          c \in {"copy", "fix"}, s \in {"full", "holed", "slack"}}

AllJobs == BuildJobs \cup CopyJobs

\* A free directory, or one in which an earlier process with the same pid was
\* killed: then two runs have one name left between them.
FirstTaken == {{}, {<<1, 0>>}}
Nothing    == {{}}

Symmetry == Permutations(Runs)

-----------------------------------------------------------------------------
OneConvert == {[Line EXCEPT !.cmd = "convert", !.grow = g] : g \in BOOLEAN}
OneToRmd   == {[Line EXCEPT !.cmd = "convert", !.ext = "rmd"]}
OneSparse  == {[Line EXCEPT !.cmd = "copy", !.sparse = TRUE, !.src = "slack"]}

\* The device shows the guest a .rmd whole, so it must not end in a footer
\* (SPEC.md: "A `.rmd` carries no footer").
RmdHasNoFooter ==
  \A r \in Runs :
    Named(r) /\ job[r].ext = "rmd" => img[r].piece["foot"] # "footer"

\* The source overwrites the whole of its range of the target (the comment on
\* which convert rests its narrower zero pass).
SourceCoversItsRange ==
  \A r \in Runs : Named(r) => img[r].piece["head"] # "stale"

\* A published copy is as long as its source.
CopyKeepsLength ==
  \A r \in Runs :
    Named(r) => \A p \in Wanted(job[r]) : img[r].piece[p] # "none"
=============================================================================
