------------------------------ MODULE PathGlob -------------------------------
(***************************************************************************)
(* pathlib's Path.glob over the names of one directory, as both            *)
(* src/docs/analyze_code.py and src/docs/librequirements.py call it.  A    *)
(* name and a pattern are sequences of one-character strings; a pattern   *)
(* holds one "*", as every pattern the repository passes does.             *)
(***************************************************************************)
EXTENDS Sequences, SequencesExt

\* Path.glob(pattern) in a directory holding names: "*" matches any run of
\* characters.  The order of the paths it yields is the file system's.
Glob(pattern, names) ==
  LET star == CHOOSE k \in DOMAIN pattern : pattern[k] = "*"
      pre == SubSeq(pattern, 1, star - 1)
      post == SubSeq(pattern, star + 1, Len(pattern))
  IN {n \in names : Len(n) >= Len(pre) + Len(post) /\ IsPrefix(pre, n) /\ IsSuffix(post, n)}

\* paths.extend(list(directory.glob(pattern))) for each pattern in turn: the
\* path lists the loop can build, one per order the file system lists in.
RECURSIVE GlobPaths(_, _)
GlobPaths(patterns, names) ==
  IF patterns = <<>> THEN {<<>>}
  ELSE {s \o t : s \in SetToSeqs(Glob(Head(patterns), names)),
                 t \in GlobPaths(Tail(patterns), names)}

=============================================================================
