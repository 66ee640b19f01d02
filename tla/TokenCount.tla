---------------------------- MODULE TokenCount -----------------------------
(***************************************************************************)
(* src/docs/analyze_code.py count_tokens_in_directory, as src/docs/conf.py *)
(* calls it to put test statistics into the docs: the files of a directory *)
(* that the glob patterns select, one pattern after the other, and the sum *)
(* over them of str.count of each token.                                   *)
(*                                                                         *)
(* File names, patterns, texts and tokens are sequences of one-character   *)
(* strings.  A pattern holds one "*", as those conf.py passes do.  A       *)
(* collections.Counter is a function from the tokens to their counts: a    *)
(* Counter reads 0 for a token it does not hold, so the entries "+" drops  *)
(* for being zero read the same.                                           *)
(***************************************************************************)
EXTENDS StateMachineTable, PathGlob, Functions

CONSTANTS
  DirFiles,      \* the names of the files in the test directory
  Contents,      \* the texts a file may have
  FilePatterns,  \* the glob patterns, in the order given
  Tokens         \* the strings to count, in the order given

\* str.count(token): occurrences found left to right, each search resuming
\* after the end of the previous occurrence.
RECURSIVE Count(_, _)
Count(s, token) ==
  LET i == Find(s, token, 0)
  IN IF i = -1 THEN 0 ELSE 1 + Count(SubSeq(s, i + Len(token) + 1, Len(s)), token)

count_tokens_in_file(file_contents, tokens) ==
  [token \in ToSet(tokens) |-> Count(file_contents, token)]

\* result += counter: Counter addition, token by token.
AddCounters(a, b) == Pointwise(a, b, LAMBDA x, y : x + y)

VARIABLES
  directory,  \* the text of each file of the directory
  paths,      \* the paths collected so far
  p,          \* the next pattern of the first loop
  k,          \* the next path of the second loop
  result,     \* the Counter being summed
  context     \* the counts conf.py hands to jinja, or <<>> before

vars == <<directory, paths, p, k, result, context>>

Init ==
  /\ directory \in [DirFiles -> Contents]
  /\ paths = <<>>
  /\ p = 1
  /\ k = 1
  /\ result = [token \in ToSet(Tokens) |-> 0]
  /\ context = <<>>

\* paths.extend(list(directory.glob(pattern))) for the next pattern.
GlobPattern ==
  /\ p <= Len(FilePatterns)
  /\ \E order \in SetToSeqs(Glob(FilePatterns[p], DirFiles)) : paths' = paths \o order
  /\ p' = p + 1
  /\ UNCHANGED <<directory, k, result, context>>

\* Mutant: result = count_tokens_in_file(path, tokens), the sum lost.
CountFile_overwrite ==
  /\ p > Len(FilePatterns)
  /\ k <= Len(paths)
  /\ result' = count_tokens_in_file(directory[paths[k]], Tokens)
  /\ k' = k + 1
  /\ UNCHANGED <<directory, paths, p, context>>

\* result += count_tokens_in_file(path, tokens) for the next path.
CountFile ==
  /\ p > Len(FilePatterns)
  /\ k <= Len(paths)
  /\ result' = AddCounters(result, count_tokens_in_file(directory[paths[k]], Tokens))
  /\ k' = k + 1
  /\ UNCHANGED <<directory, paths, p, context>>

\* count_tokens_in_directory returns; conf.py reads each token's count into
\* jinja_contexts.
Publish ==
  /\ p > Len(FilePatterns)
  /\ k > Len(paths)
  /\ context = <<>>
  /\ context' = result
  /\ UNCHANGED <<directory, paths, p, k, result>>

\* The configuration is loaded; nothing more happens.
Loaded == context # <<>> /\ UNCHANGED vars

Next == GlobPattern \/ CountFile \/ Publish \/ Loaded

Spec == Init /\ [][Next]_vars

-----------------------------------------------------------------------------
\* Reference: the most occurrences of token in s of which no two overlap.
Occurrences(s, token) ==
  LET at == {i \in 0..Len(s) - Len(token) : SubSeq(s, i + 1, i + Len(token)) = token}
      disjoint(S) == \A i, j \in S : i < j => j - i >= Len(token)
  IN Max({Cardinality(S) : S \in {S \in SUBSET at : disjoint(S)}})

\* The files of the directory that some pattern selects.
Selected == UNION {Glob(FilePatterns[i], DirFiles) : i \in DOMAIN FilePatterns}

(***************************************************************************)
(* The statistics count the directory (count_tokens_in_directory, the      *)
(* counts conf.py publishes): each token's count is, summed once over each *)
(* file a pattern selects, the most non-overlapping occurrences of the     *)
(* token in the file, whatever order the file system lists the files in.   *)
(***************************************************************************)
CountsMatchDirectory ==
  context # <<>> =>
    \A token \in ToSet(Tokens) :
      context[token] = MapThenSumSet(LAMBDA f : Occurrences(directory[f], token), Selected)

=============================================================================
