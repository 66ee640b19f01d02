----------------------- MODULE MCAnalyzeRequirements ------------------------
(***************************************************************************)
(* Inputs for model checking AnalyzeRequirements: small requirement CSV    *)
(* files and Doxygen XML files, each chosen to reach one of the cases the  *)
(* code treats differently.  IDs and names are character sequences.        *)
(***************************************************************************)
EXTENDS AnalyzeRequirements

\* Requirement IDs and tags as written in the inputs.
R1 == <<"R", "_", "1">>
R2 == <<"R", "_", "2">>
R10 == <<"R", "_", "1", "0">>
R9 == <<"R", "_", "9">>
Q3 == <<"Q", "_", "3">>
SpecA == <<"Q", "1">>
SpecB == <<"Q", "2">>

(***************************************************************************)
(* CSV rows.  The header row is always there; the others are the row kinds *)
(* the parser and the validators tell apart.                               *)
(***************************************************************************)
Row(cols, id, description, fragments) ==
  [cols |-> cols, id |-> id, description |-> description, fragments |-> fragments]

Header == Row(3, <<"R">>, "Description", <<>>)

CatalogRows ==
  { Row(3, R1, "d1", <<SpecA, <<" ">>, <<" ">> \o SpecB>>),  \* REQ_1, two specs, a blank
    Row(3, R2, "d2", <<SpecB>>),
    Row(3, R10, "d10", <<>>),                                \* sorts before R_2
    Row(3, <<"_">> \o R1, "d1b", <<SpecA>>),                 \* strips to R_1
    Row(3, <<" ", "R", "_", "0", "1">>, "d01", <<>>),        \* R_01: number 1 again
    Row(3, Q3, "dq", <<SpecA>>),                             \* prefix Q starts at 3
    Row(3, <<"R">>, "dr", <<>>),                             \* no number: ValueError
    Row(3, <<"?", "_">>, "skip", <<>>),                      \* empty ID: skipped
    Row(2, R2, "short", <<>>) }                              \* two columns: ValueError

\* Catalogs of up to MaxRows data rows.
MaxRows == 3
CatalogInputs(rows) == {<<Header>> \o s : s \in BoundedSeq(rows, MaxRows)}

SmallCatalogs == {<<Header>>, <<Header, Row(3, R1, "d1", <<SpecA>>)>>,
                  <<Header, Row(3, R2, "d2", <<>>), Row(3, <<"?", " ">>, "skip", <<>>),
                   Row(3, R1, "d1", <<SpecA>>)>>}

(***************************************************************************)
(* Doxygen function elements.  Loc(file, line) is a ./location element,    *)
(* NoLoc its absence; Xref(title, paras) an xrefsect.                      *)
(***************************************************************************)
Loc(file, line) == [hasLoc |-> TRUE, file |-> file, line |-> line]
NoLoc == [hasLoc |-> FALSE, file |-> "", line |-> <<>>]
Xref(title, paras) == [title |-> title, paras |-> paras]

Element(name, loc, para1, xrefs, p1ref, p1type, p2type) ==
  [name |-> name, hasLoc |-> loc.hasLoc, file |-> loc.file, line |-> loc.line,
   para1 |-> para1, xrefs |-> xrefs, p1ref |-> p1ref, p1type |-> p1type,
   p2type |-> p2type]

Impl(name, loc, para1, xrefs) == Element(name, loc, para1, xrefs, <<>>, <<>>, <<>>)

\* foo() in a.c, documented, tagged R_1.
ImplFoo == Impl(<<"Q">>, Loc("a.c", <<"7">>), "does", <<Xref("Requirement", <<R1>>)>>)
\* Another foo() in b.c, line " 9", tagged R_1.
ImplFooB == Impl(<<"Q">>, Loc("b.c", <<" ", "9">>), "", <<Xref("Requirement", <<R1>>)>>)
\* bar() without a line attribute: a padded R_2, the unknown R_9 and a para without text.
ImplBar == Impl(<<"R">>, Loc("b.c", <<>>), "",
                <<Xref("Requirement", <<<<" ">> \o R2, R9, <<>>>>)>>)
\* A function without a location element.
ImplNoLoc == Impl(<<"R", "Q">>, NoLoc, "", <<Xref("Requirement", <<R2>>)>>)
\* Three xrefsects: R_1, a Todo one, and a Requirement one whose only tag is blank.
ImplSects == Impl(<<"Q", "Q">>, Loc("a.c", <<"x">>), "",
                  <<Xref("Requirement", <<R1>>), Xref("Todo", <<R9>>),
                    Xref("Requirement", <<<<" ">>>>)>>)

ImplElements == {ImplFoo, ImplFooB, ImplBar, ImplNoLoc, ImplSects}

Test(p1ref, p1type, name, loc, xrefs) ==
  Element(<<"R", "R">>, loc, "", xrefs, p1ref, p1type, name)

\* Test Q of fixture Q (a ref), verifying R_1.
TestQ == Test(<<<<"Q">>>>, <<>>, <<"Q">>, Loc("t.c", <<"3">>), <<Xref("Requirement", <<R1>>)>>)
\* Test Q of fixture R (a plain type), verifying R_2 and R_10.
TestQR == Test(<<>>, <<"R">>, <<"Q">>, Loc("u.c", <<"4">>), <<Xref("Requirement", <<R2, R10>>)>>)
\* A test whose fixture ref has no text, without location or tags.
TestBare == Test(<<<<>>>>, <<"R">>, <<"R">>, NoLoc, <<>>)

TestElements == {TestQ, TestQR, TestBare}

\* One XML file of one or two functions, or two files of one function each.
XmlInputs(elements) ==
  {<<>>} \cup {<<f>> : f \in BoundedSeq(elements, 2) \ {<<>>}}
         \cup {<<<<a>>, <<b>>>> : a, b \in elements}

\* The inputs of each run.
\* The fatal-error run: every row kind but the numberless ID, so that the only
\* ValueError after a report was opened is detect_requirement_duplicates'.
FatalRunCsv == CatalogInputs(CatalogRows \ {Row(3, <<"R">>, "dr", <<>>)})
CatalogRunCsv == CatalogInputs(CatalogRows)
CatalogRunImpl == {<<<<ImplFoo, ImplBar>>>>}
CatalogRunTest == {<<<<TestQ, TestQR>>>>}
IndexRunImpl == XmlInputs(ImplElements)
IndexRunTest == {<<>>} \cup {<<f>> : f \in BoundedSeq(TestElements, 2) \ {<<>>}}

=============================================================================
