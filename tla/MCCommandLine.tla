--------------------------- MODULE MCCommandLine ----------------------------
(***************************************************************************)
(* The index run of MCAnalyzeRequirements, reached through the script: a   *)
(* Doxygen XML directory of the shape the library produces (an .xml file   *)
(* per C source, header and test source, and index.xml) whose files hold   *)
(* the implementation and test case inputs of that run, and command lines  *)
(* with no option, every option and some options given.                    *)
(***************************************************************************)
EXTENDS MCAnalyzeRequirements, CommandLine

Letters(s) == [i \in 1..Len(s) |-> SubSeq(s, i, i)]

ClIefb == Letters("cl__iefb_8c.xml")
ClmIefb == Letters("clm__iefb_8c.xml")
ClsIefb == Letters("cls__iefb_8c.xml")
ClsIefbHeader == Letters("cls__iefb_8h.xml")
Index == Letters("index.xml")
Mocks == Letters("mocks_8cpp.xml")
TestClsIefb == Letters("test__cls__iefb_8cpp.xml")

XmlNames == {ClIefb, ClmIefb, ClsIefb, ClsIefbHeader, Index, Mocks, TestClsIefb}
CliLibrarySources == {ClIefb, ClmIefb, ClsIefb}
CliTestSources == {TestClsIefb}

\* The implementation input impl of the index run as the files cl__iefb_8c.xml
\* and clm__iefb_8c.xml (cls__iefb_8c.xml documents no function).
ImplDocs(impl) ==
  [cl |-> IF impl = <<>> THEN <<>> ELSE impl[1],
   clm |-> IF Len(impl) = 2 THEN impl[2] ELSE <<>>]

Directory(impl, test) ==
  LET d == ImplDocs(impl)
  IN [n \in XmlNames |->
        IF n = ClIefb THEN d.cl
        ELSE IF n = ClmIefb THEN d.clm
        ELSE IF n = TestClsIefb /\ test # <<>> THEN test[1]
        ELSE <<>>]

CliXmlDirectories == {Directory(i, t) : i \in IndexRunImpl, t \in IndexRunTest}

\* No option given; every option given, each its own file; two given.
CliCommandLines ==
  { [req |-> None, lrep |-> None, rrep |-> None, trep |-> None, srep |-> None,
     hover |-> None],
    [req |-> <<"reqs.csv">>, lrep |-> <<"out", "l.rst">>, rrep |-> <<"out", "r.rst">>,
     trep |-> <<"out", "t.rst">>, srep |-> <<"out", "s.rst">>,
     hover |-> <<"out", "hover.txt">>],
    [req |-> <<"reqs.csv">>, lrep |-> None, rrep |-> None,
     trep |-> <<"out", "t.rst">>, srep |-> None, hover |-> None] }

=============================================================================
