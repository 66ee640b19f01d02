----------------------------- MODULE SphinxConf ------------------------------
(***************************************************************************)
(* src/docs/conf.py as Sphinx executes it: first the project version is   *)
(* read from the CMakeLists.txt of the repository root, then the test      *)
(* statistics are counted (TokenCount) and put into the jinja context.     *)
(* The other assignments of conf.py are constant settings.                 *)
(*                                                                         *)
(* CMakeLists.txt is a record: whether read_text() succeeds, and the text, *)
(* a sequence of one-character strings.                                    *)
(***************************************************************************)
EXTENDS TokenCount

CONSTANTS CMakeListsFiles  \* the root CMakeLists.txt files conf.py may find

\* A string as the sequence of its characters.
Text(s) == [i \in 1..Len(s) |-> SubSeq(s, i, i)]

\* The literal part of r"CLINK VERSION ([\d.]*)" and the class [\d.].
VersionTag == Text("CLINK VERSION ")
VersionChars == {"0", "1", "2", "3", "4", "5", "6", "7", "8", "9", "."}

UnknownVersion == Text("unknown version")

\* The greedy match of C* at the start of s.
RECURSIVE LeadingRun(_, _)
LeadingRun(s, C) ==
  IF s # <<>> /\ Head(s) \in C THEN <<Head(s)>> \o LeadingRun(Tail(s), C) ELSE <<>>

\* The try block: read_text() or re.search failing (the match being None,
\* .group raises) gives "unknown version"; else group(1).
get_version(cmakelists) ==
  LET i == Find(cmakelists.text, VersionTag, 0)
  IN IF ~cmakelists.exists \/ i = -1 THEN UnknownVersion
     ELSE LeadingRun(SubSeq(cmakelists.text, i + Len(VersionTag) + 1, Len(cmakelists.text)),
                     VersionChars)

VARIABLES
  cmakelists,  \* the root CMakeLists.txt
  version,     \* the project version, <<>> until it is read
  confpc       \* "version" before the try block, "statistics" after it

confVars == <<vars, cmakelists, version, confpc>>

ConfInit ==
  /\ Init
  /\ cmakelists \in CMakeListsFiles
  /\ version = <<>>
  /\ confpc = "version"

\* Project information: the try block and its fallback.
LookupVersion ==
  /\ confpc = "version"
  /\ version' = get_version(cmakelists)
  /\ confpc' = "statistics"
  /\ UNCHANGED <<vars, cmakelists>>

\* Dynamic content: a step of count_tokens_in_directory or of the context.
Statistics(A) == confpc = "statistics" /\ A /\ UNCHANGED <<cmakelists, version, confpc>>

ConfNext == LookupVersion \/ Statistics(Next)

ConfSpec == ConfInit /\ [][ConfNext]_confVars

=============================================================================
