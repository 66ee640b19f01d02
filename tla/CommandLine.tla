---------------------------- MODULE CommandLine -----------------------------
(***************************************************************************)
(* src/docs/parse_requirements.py composed with analyze_requirements: the  *)
(* script resolves its options, each a path given on the command line or   *)
(* a default beside the script, and calls analyze_requirements with them   *)
(* and with fixed glob patterns for the Doxygen XML directory.             *)
(*                                                                         *)
(* A path is a sequence of its segments (strings).  XML file names are     *)
(* sequences of one-character strings, as the glob reads them.  args is    *)
(* None until parse_args() has run, then the resolved options.             *)
(***************************************************************************)
EXTENDS AnalyzeRequirements, PathGlob

CONSTANTS
  CliOptions,      \* the command lines: per option the path given, or None
  XmlDirectories,  \* the Doxygen XML directories: per file name, its function elements
  LibrarySources,  \* the XML file names that document a C file of the library
  TestSources      \* the XML file names that document a test source file

None == <<>>

DEFAULT_REQUIREMENTS_FILE == "implementation_requirements.csv"
DEFAULT_LOCREPORT_FILE == "req_testlocation_report.rst"
DEFAULT_REQREPORT_FILE == "requirement_list_report.rst"
DEFAULT_TESTCASEREPORT_FILE == "testcase_report.rst"
DEFAULT_SPECREPORT_FILE == "specification_report.rst"
DEFAULT_HOVER_DEFINITION_FILE == "vscode_hover.txt"
DEFAULT_OUT_SUBDIR == "_generated"

\* pathlib.Path(__file__).parent.resolve()
script_directory == <<"docs">>

Defaulted(given, default) == IF given = None THEN default ELSE given

\* An option not given defaults to a file beside the script or in _generated.
ResolveArgs(options) ==
  [req |-> Defaulted(options.req, script_directory \o <<DEFAULT_REQUIREMENTS_FILE>>),
   rrep |-> Defaulted(options.rrep,
                      script_directory \o <<DEFAULT_OUT_SUBDIR, DEFAULT_REQREPORT_FILE>>),
   trep |-> Defaulted(options.trep,
                      script_directory \o <<DEFAULT_OUT_SUBDIR, DEFAULT_TESTCASEREPORT_FILE>>),
   lrep |-> Defaulted(options.lrep,
                      script_directory \o <<DEFAULT_OUT_SUBDIR, DEFAULT_LOCREPORT_FILE>>),
   srep |-> Defaulted(options.srep,
                      script_directory \o <<DEFAULT_OUT_SUBDIR, DEFAULT_SPECREPORT_FILE>>),
   hover |-> Defaulted(options.hover,
                       script_directory \o <<DEFAULT_OUT_SUBDIR, DEFAULT_HOVER_DEFINITION_FILE>>)]

\* Mutant: one pattern "cl*c.xml" in place of "cl_*c.xml".
ImplementationFilePatterns_loose ==
  << <<"c", "l", "*", "c", ".", "x", "m", "l">>,
     <<"c", "l", "m", "_", "*", "c", ".", "x", "m", "l">>,
     <<"c", "l", "s", "_", "*", "c", ".", "x", "m", "l">> >>

\* The patterns the script passes for implementation and test case files.
ImplementationFilePatterns ==
  << <<"c", "l", "_", "*", "c", ".", "x", "m", "l">>,
     <<"c", "l", "m", "_", "*", "c", ".", "x", "m", "l">>,
     <<"c", "l", "s", "_", "*", "c", ".", "x", "m", "l">> >>
TestFilePatterns == << <<"t", "e", "s", "t", "_", "*", ".", "x", "m", "l">> >>

\* The output each report of analyze_requirements is written to.
OutputPath(a) ==
  [specification |-> a.srep, hover |-> a.hover, requirementlist |-> a.rrep,
   testcase |-> a.trep, location |-> a.lrep]

\* A directory with the paths each glob loop of parse_doxygen_files may list.
Listings ==
  UNION {{[dir |-> d, impl |-> i, test |-> t] :
            i \in GlobPaths(ImplementationFilePatterns, DOMAIN d),
            t \in GlobPaths(TestFilePatterns, DOMAIN d)} : d \in XmlDirectories}

VARIABLES
  args,  \* the resolved options, or None before parse_args()
  xml    \* the XML directory and the paths globbed from it for each call

cliVars == <<vars, args, xml>>

\* The contents of the files at paths, in order.
Read(dir, paths) == [i \in DOMAIN paths |-> dir[paths[i]]]

\* The script is started; the XML files it will read are listed by the globs.
CliInit ==
  /\ args = None
  /\ xml \in Listings
  /\ \E csv \in CsvInputs :
       input = [csv |-> csv, impl |-> Read(xml.dir, xml.impl), test |-> Read(xml.dir, xml.test)]
  /\ Started

\* parse_args() and the defaults; the paths are printed.
ParseArgs ==
  /\ args = None
  /\ \E options \in CliOptions : args' = ResolveArgs(options)
  /\ UNCHANGED <<vars, xml>>

\* analyze_requirements, called with the resolved paths.
Analyze == args # None /\ Next /\ UNCHANGED <<args, xml>>

CliNext == ParseArgs \/ Analyze

CliSpec == CliInit /\ [][CliNext]_cliVars

-----------------------------------------------------------------------------
(***************************************************************************)
(* The glob patterns sort the XML directory (parse_requirements.py's       *)
(* patterns, parse_doxygen_files' glob loop): each file documenting a C    *)
(* file of the library is parsed once as an implementation file, each file *)
(* documenting a test source once as a test case file, and no other file   *)
(* is parsed.                                                              *)
(***************************************************************************)
XmlFilesClassified ==
  \A n \in DOMAIN xml.dir :
    /\ Occurrences(xml.impl, n) = IF n \in LibrarySources THEN 1 ELSE 0
    /\ Occurrences(xml.test, n) = IF n \in TestSources THEN 1 ELSE 0

=============================================================================
