------------------------------ MODULE Discovery ------------------------------
(***************************************************************************)
(* Which omp a connect runs: PIMIENTO_OMP_BIN, the setting, or what the     *)
(* login shell finds, and whether its --version is one the client reads.    *)
(***************************************************************************)
EXTENDS Naturals, Sequences, SequencesExt

\* What a path names; `noise` is a line a shell profile prints.
Path == {"file", "directory", "missing", "relative", "noise"}
Unset == "unset"

\* stdout of LOGIN_SHELL_SCRIPT up to the boundary line, and whether it got there
\* (no $SHELL: it did not); --version: whether it succeeds, and the dotted part of its omp/<version> token.
Shell == [lines : SeqOf(Path \cup {"blank"}, 2), marker : BOOLEAN]
Version == [success : BOOLEAN, dotted : {<<17>>, <<17, 2, 1>>, <<17, 2, 1, 0>>}]
Inputs == [override : {"file", "missing", "relative", Unset}, setting : {Unset},
           shell : Shell, version : Version]

\* validate_absolute_file: absolute, and stat says a regular file.
Valid(path) == path = "file"

\* parse_login_shell_output: the first line that is not blank is the answer of
\* `command -v omp`, if the boundary ever comes.
Resolved(shell) ==
  LET said == SelectSeq(shell.lines, LAMBDA line : line # "blank") IN
  IF ~shell.marker \/ said = <<>> THEN Unset ELSE Head(said)

\* try_connect_omp lets a relative override be no override.
Override(inputs) == IF inputs.override = "relative" THEN Unset ELSE inputs.override

\* resolve_binary: the first source that is set decides, valid or not.
Binary(inputs) ==
  CASE Override(inputs) # Unset -> Override(inputs)
    [] Override(inputs) = Unset /\ inputs.setting # Unset -> inputs.setting
    [] OTHER -> Resolved(inputs.shell)

\* probe_version and OmpVersion::parse: exactly three components, of any size.
Probed(version) == version.success /\ Len(version.dotted) = 3

\* discover finds a program to spawn.
Runs(inputs) == Valid(Binary(inputs)) /\ Probed(inputs.version)
=============================================================================
