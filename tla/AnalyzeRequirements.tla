------------------------ MODULE AnalyzeRequirements -------------------------
(***************************************************************************)
(* analyze_requirements of src/docs/librequirements.py: the batch run that *)
(* parses the catalog, writes three catalog reports, validates the         *)
(* catalog, extracts the implementation and test locations and writes the  *)
(* test case list and the location (traceability) report.  One action per *)
(* call, in the order of the code; a call that raises ends the run with pc *)
(* = "failed", leaving the output files as they are.                       *)
(***************************************************************************)
EXTENDS Reports

CONSTANTS
  CsvInputs,       \* the requirement CSV files the run may be given
  ImplXmlInputs,   \* sequences of implementation XML files, in glob order
  TestXmlInputs    \* sequences of test case XML files, in glob order

VARIABLES
  input,            \* the files the run reads; never changes
  pc,               \* the next call of analyze_requirements, "done" or "failed"
  requirements,     \* the parsed catalog
  implementations,  \* FunctionDescriptions of the implementation files
  testcases,        \* FunctionDescriptions of the test case files
  warned,           \* prefixes describe_missing_requirements warned about
  error,            \* the exception that ended the run, or "none"
  files             \* per output: "absent", "open" or "closed", and its content

vars == <<input, pc, requirements, implementations, testcases, warned, error, files>>

Outputs == {"specification", "hover", "requirementlist", "testcase", "location"}

\* analyze_requirements is entered: nothing read, nothing written.
Started ==
  /\ pc = "parse_requirement_file"
  /\ requirements = <<>>
  /\ implementations = <<>>
  /\ testcases = <<>>
  /\ warned = {}
  /\ error = "none"
  /\ files = [f \in Outputs |-> [state |-> "absent", doc |-> <<>>]]

Init ==
  /\ input \in [csv : CsvInputs, impl : ImplXmlInputs, test : TestXmlInputs]
  /\ Started

\* The run stops with exception exc.
Raise(exc) == pc' = "failed" /\ error' = exc

Written(f, doc) == [files EXCEPT ![f] = [state |-> "closed", doc |-> doc]]

ParseRequirementFile ==
  LET r == parse_requirement_file(input.csv)
  IN /\ pc = "parse_requirement_file"
     /\ \/ r.ok /\ requirements' = r.reqs /\ pc' = "build_specification_report"
           /\ UNCHANGED error
        \/ ~r.ok /\ Raise("ValueError") /\ UNCHANGED requirements
     /\ UNCHANGED <<input, implementations, testcases, warned, files>>

BuildSpecificationReport ==
  /\ pc = "build_specification_report"
  /\ files' = Written("specification", build_specification_report(requirements))
  /\ pc' = "build_vscode_hover_definitions"
  /\ UNCHANGED <<input, requirements, implementations, testcases, warned, error>>

BuildVscodeHoverDefinitions ==
  /\ pc = "build_vscode_hover_definitions"
  /\ files' = Written("hover", build_vscode_hover_definitions(requirements))
  /\ pc' = "build_requirement_list_report"
  /\ UNCHANGED <<input, requirements, implementations, testcases, warned, error>>

\* ReportWriter opens the file; an ID without a number raises before finalize().
BuildRequirementListReport ==
  LET r == build_requirement_list_report(requirements)
  IN /\ pc = "build_requirement_list_report"
     /\ \/ r.ok /\ files' = Written("requirementlist", r.doc)
           /\ pc' = "detect_requirement_duplicates" /\ UNCHANGED error
        \/ ~r.ok /\ files' = [files EXCEPT !["requirementlist"] =
                                [state |-> "open", doc |-> r.doc]]
           /\ Raise("ValueError")
     /\ UNCHANGED <<input, requirements, implementations, testcases, warned>>

DetectRequirementDuplicates ==
  /\ pc = "detect_requirement_duplicates"
  /\ \/ ~detect_requirement_duplicates(requirements)
        /\ pc' = "describe_missing_requirements" /\ UNCHANGED error
     \/ detect_requirement_duplicates(requirements) /\ Raise("ValueError")
  /\ UNCHANGED <<input, requirements, implementations, testcases, warned, files>>

(***************************************************************************)
(* The ValueError describe_missing_requirements raises for an ID without a *)
(* number cannot happen here: build_requirement_list_report has already    *)
(* raised for it, so r.ok holds whenever this call is reached.             *)
(***************************************************************************)
DescribeMissingRequirements ==
  LET r == describe_missing_requirements(requirements)
  IN /\ pc = "describe_missing_requirements"
     /\ r.ok
     /\ warned' = r.warned
     /\ pc' = "parse_implementations"
     /\ UNCHANGED <<input, requirements, implementations, testcases, error, files>>

ParseImplementations ==
  LET r == parse_doxygen_files(input.impl, FALSE)
  IN /\ pc = "parse_implementations"
     /\ \/ r.ok /\ implementations' = r.descriptions /\ pc' = "parse_testcases"
           /\ UNCHANGED error
        \/ ~r.ok /\ Raise("UnboundLocalError") /\ UNCHANGED implementations
     /\ UNCHANGED <<input, requirements, testcases, warned, files>>

ParseTestcases ==
  LET r == parse_doxygen_files(input.test, TRUE)
  IN /\ pc = "parse_testcases"
     /\ \/ r.ok /\ testcases' = r.descriptions /\ pc' = "build_testcase_list_report"
           /\ UNCHANGED error
        \/ ~r.ok /\ Raise("UnboundLocalError") /\ UNCHANGED testcases
     /\ UNCHANGED <<input, requirements, implementations, warned, files>>

BuildTestcaseListReport ==
  /\ pc = "build_testcase_list_report"
  /\ files' = Written("testcase", build_testcase_list_report(testcases))
  /\ pc' = "build_location_report"
  /\ UNCHANGED <<input, requirements, implementations, testcases, warned, error>>

BuildLocationReport ==
  /\ pc = "build_location_report"
  /\ files' = Written("location",
                build_location_report(requirements, implementations, testcases))
  /\ pc' = "done"
  /\ UNCHANGED <<input, requirements, implementations, testcases, warned, error>>

\* The process has exited.
Exited == pc \in {"done", "failed"} /\ UNCHANGED vars

Next ==
  \/ ParseRequirementFile
  \/ BuildSpecificationReport
  \/ BuildVscodeHoverDefinitions
  \/ BuildRequirementListReport
  \/ DetectRequirementDuplicates
  \/ DescribeMissingRequirements
  \/ ParseImplementations
  \/ ParseTestcases
  \/ BuildTestcaseListReport
  \/ BuildLocationReport
  \/ Exited

Spec == Init /\ [][Next]_vars

-----------------------------------------------------------------------------
Stages == <<"parse_requirement_file", "build_specification_report",
            "build_vscode_hover_definitions", "build_requirement_list_report",
            "detect_requirement_duplicates", "describe_missing_requirements",
            "parse_implementations", "parse_testcases",
            "build_testcase_list_report", "build_location_report", "done">>

\* The stages that come after stage s.
After(s) == {Stages[j] : j \in {j \in DOMAIN Stages : \E i \in 1..j - 1 : Stages[i] = s}}

\* Requirement IDs are non-empty: rows whose stripped ID is empty are dropped.
Requirement == [id : Seq(Chars) \ {<<>>}, description : STRING, specifications : Seq(Seq(Chars))]

Location == [name : Seq(Chars), description : STRING, path : STRING, startline : Int,
             fixturename : Seq(Chars), req_ids : Seq(Seq(Chars))]

TypeOK ==
  /\ pc \in ToSet(Stages) \cup {"failed"}
  /\ requirements \in Seq(Requirement)
  /\ implementations \in Seq(Location)
  /\ testcases \in Seq(Location)
  /\ error \in {"none", "ValueError", "UnboundLocalError"}
  /\ DOMAIN files = Outputs
  /\ \A f \in Outputs : files[f].state \in {"absent", "open", "closed"}

CatalogIds == {requirements[i].id : i \in DOMAIN requirements}

\* The positions of the h3 headings of doc that fall under the h2 header title.
HeadingsUnder(doc, title) ==
  LET owner(i) == doc[Max({j \in 1..i : doc[j].k = "h2"})].v
  IN {i \in DOMAIN doc : /\ doc[i].k = "h3"
                         /\ \E j \in 1..i : doc[j].k = "h2"
                         /\ owner(i) = title}

\* The positions after heading i up to the next heading.
SectionBody(doc, i) ==
  {j \in i + 1..Len(doc) : \A m \in i + 1..j : doc[m].k \notin {"h2", "h3"}}

LocationReport == files["location"].doc

(***************************************************************************)
(* Traceability (build_location_report with find_locations_per_requirement *)
(* and find_requirements_with_test_cases, after the catalog passed         *)
(* detect_requirement_duplicates): every catalog requirement is headed     *)
(* exactly once in the two requirement sections, under "with test cases"   *)
(* exactly when some extracted test case carries its ID, and nothing else  *)
(* is headed there.                                                        *)
(***************************************************************************)
TraceabilityPartition ==
  files["location"].state = "closed" =>
    LET doc == LocationReport
        tested == HeadingsUnder(doc, "Requirements with test cases")
        untested == HeadingsUnder(doc, "Requirements not yet mapped to automated tests")
        testTags == UNION {ToSet(testcases[i].req_ids) : i \in DOMAIN testcases}
    IN /\ \A id \in CatalogIds :
            /\ Cardinality({i \in tested \cup untested : doc[i].v = id}) = 1
            /\ (\E i \in tested : doc[i].v = id) <=> id \in testTags
       /\ \A i \in tested \cup untested : doc[i].v \in CatalogIds

(***************************************************************************)
(* Invalid tags are surfaced (find_invalid_tag_locations): every ID that   *)
(* an implementation or test location carries and the catalog lacks has a *)
(* heading in the "Invalid requirement tags" section with that location    *)
(* listed under it; no catalog ID is headed there; "None found." is        *)
(* written exactly when there is no invalid tag.                           *)
(***************************************************************************)
InvalidTagsSurfaced ==
  files["location"].state = "closed" =>
    LET doc == LocationReport
        locs == implementations \o testcases
        invalid == HeadingsUnder(doc, "Invalid requirement tags")
        noneFound == \E i \in DOMAIN doc : doc[i].k = "content" /\ doc[i].v = "None found."
    IN /\ \A n \in DOMAIN locs : \A t \in ToSet(locs[n].req_ids) \ CatalogIds :
            \E i \in invalid : /\ doc[i].v = t
                               /\ \E j \in SectionBody(doc, i) :
                                    doc[j] = add_short_location(locs[n])[1]
       /\ \A i \in invalid : doc[i].v \notin CatalogIds
       /\ noneFound <=> invalid = {}

(***************************************************************************)
(* Numbering gaps (describe_missing_requirements, spec section 8): once    *)
(* the check has run, a prefix is warned about exactly when some number in *)
(* 1..n is not used by exactly one of its n requirements.                  *)
(***************************************************************************)
NumberingGapsWarned ==
  pc \in After("describe_missing_requirements") =>
    LET prefixes == {id_prefix(requirements[i]) : i \in DOMAIN requirements}
        of(p) == {i \in DOMAIN requirements : id_prefix(requirements[i]) = p}
        holders(p, k) == {i \in of(p) : id_number(requirements[i]) = k}
    IN warned = {p \in prefixes :
                   \E k \in 1..Cardinality(of(p)) : Cardinality(holders(p, k)) # 1}

(***************************************************************************)
(* Test case list (build_testcase_list_report): the report has one heading *)
(* per distinct fixture name of the extracted test cases, in string order, *)
(* and under each heading one item per test case of that fixture.          *)
(***************************************************************************)
TestcaseListGroupsByFixture ==
  files["testcase"].state = "closed" =>
    LET doc == files["testcase"].doc
        heads == {i \in DOMAIN doc : doc[i].k = "h3"}
        headOrder == SetToSortSeq(heads, <)
        fixtures == {testcases[n].fixturename : n \in DOMAIN testcases}
        items(i) == {j \in SectionBody(doc, i) : doc[j].k = "li"}
        ofFixture(f) == {n \in DOMAIN testcases : testcases[n].fixturename = f}
    IN /\ \A i \in 1..Len(headOrder) - 1 :
            IdLess(doc[headOrder[i]].v, doc[headOrder[i + 1]].v)
       /\ {doc[i].v : i \in heads} = fixtures
       /\ \A i \in heads : Cardinality(items(i)) = Cardinality(ofFixture(doc[i].v))

(***************************************************************************)
(* The specification report inverts the catalog (parse_requirement_file's  *)
(* stripping of the Specifications cell, find_specification_ids and        *)
(* build_specification_report): its headings are, once each and in string *)
(* order, the stripped non-blank fragments of the cells of the CSV rows    *)
(* kept, and under each the summaries are those of the requirements citing *)
(* it, as many times as such requirements occur.                           *)
(***************************************************************************)
SpecificationsIndexed ==
  files["specification"].state = "closed" =>
    LET doc == files["specification"].doc
        heads == {i \in DOMAIN doc : doc[i].k = "h3"}
        headOrder == SetToSortSeq(heads, <)
        kept == {input.csv[i] : i \in {i \in 2..Len(input.csv) : ParseRow(input.csv[i]).id # <<>>}}
        cited == UNION {{StripChars(f, Whitespace) : f \in ToSet(r.fragments)} : r \in kept}
                   \ {<<>>}
        summary(n) == El("li", <<requirements[n].id, requirements[n].description>>)
        citing(s, n) == {m \in DOMAIN requirements : /\ Contains(requirements[m].specifications, s)
                                                      /\ summary(m) = summary(n)}
    IN /\ \A i \in 1..Len(headOrder) - 1 :
            IdLess(doc[headOrder[i]].v, doc[headOrder[i + 1]].v)
       /\ {doc[i].v : i \in heads} = cited
       /\ \A i \in heads, n \in DOMAIN requirements :
            Cardinality({j \in SectionBody(doc, i) : doc[j] = summary(n)})
              = Cardinality(citing(doc[i].v, n))

-----------------------------------------------------------------------------
(***************************************************************************)
(* What spec.md says of the run, checked against what the code does.       *)
(***************************************************************************)

(***************************************************************************)
(* Spec section 7: parse and validation errors abort the whole run with no *)
(* partial reports.  A run that failed in parse_requirement_file,          *)
(* build_requirement_list_report or detect_requirement_duplicates has      *)
(* written no output file.                                                 *)
(***************************************************************************)
NoReportAfterFatalError ==
  pc = "failed" /\ error = "ValueError" =>
    \A f \in Outputs : files[f].state = "absent"

(***************************************************************************)
(* Spec section 5: every output handle is closed even if assembly raises   *)
(* partway (ReportWriter.finalize).  Once analyze_requirements has        *)
(* returned or raised, no output file is still open.                       *)
(***************************************************************************)
NoDanglingHandleOnExit ==
  pc \in {"done", "failed"} => \A f \in Outputs : files[f].state # "open"

(***************************************************************************)
(* Spec sections 3 and 8: Location identity is the name, and the number of *)
(* unique locations is the number of distinct names among the indexed      *)
(* locations.  The statistics paragraph of the location report             *)
(* (add_statistics with find_unique_locations) shows these counts.         *)
(***************************************************************************)
UniqueLocationsCountedByName ==
  files["location"].state = "closed" =>
    LET stats == LocationReport[CHOOSE i \in DOMAIN LocationReport :
                                LocationReport[i].k = "statistics"]
        names(ds) == {ds[i].name : i \in {i \in DOMAIN ds : ds[i].req_ids # <<>>}}
    IN /\ stats.v[3] = Cardinality(names(implementations))
       /\ stats.v[4] = Cardinality(names(testcases))

(***************************************************************************)
(* Spec section 4.2: a missing optional field never raises, and a function *)
(* without a location element yields a record whose file is empty and      *)
(* whose line is 0.  parse_doxygen_xmlfile neither aborts the run nor      *)
(* gives such a function another function's file and line.                 *)
(***************************************************************************)
MissingLocationDefaulted ==
  LET elements == FlattenSeq(input.impl)
  IN /\ error # "UnboundLocalError"
     /\ pc \in After("parse_implementations") =>
          \A n \in DOMAIN implementations :
             ~elements[n].hasLoc =>
                implementations[n].path = "" /\ implementations[n].startline = 0

(***************************************************************************)
(* Spec section 4.2: the text entries of the cross-reference blocks titled *)
(* "Requirement" become the function's requirement IDs.  Every non-blank   *)
(* tag of every such block of an implementation function is among the     *)
(* req_ids of its FunctionDescription.                                     *)
(***************************************************************************)
AllRequirementTagsKept ==
  LET elements == FlattenSeq(input.impl)
      tags(e) == {StripChars(t, Whitespace) :
                    t \in UNION {ToSet(x.paras) : x \in {x \in ToSet(e.xrefs) :
                                                           x.title = "Requirement"}}}
  IN pc \in After("parse_implementations") =>
       \A n \in DOMAIN implementations :
          tags(elements[n]) \ {<<>>} \subseteq ToSet(implementations[n].req_ids)

(***************************************************************************)
(* Spec sections 3 and 4.2: a test case location has a non-empty fixture   *)
(* name, the cross-reference target name of its first parameter type or   *)
(* else the plain type name.  A test function whose first parameter has a *)
(* type name gets a non-empty fixturename from parse_doxygen_xmlfile.      *)
(***************************************************************************)
TestFixtureNamed ==
  LET elements == FlattenSeq(input.test)
      named(e) == (e.p1ref # <<>> /\ e.p1ref[1] # <<>>) \/ e.p1type # <<>>
  IN pc \in After("parse_testcases") =>
       \A n \in DOMAIN testcases :
          named(elements[n]) => testcases[n].fixturename # <<>>

=============================================================================
