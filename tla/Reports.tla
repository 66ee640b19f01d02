------------------------------ MODULE Reports -------------------------------
(***************************************************************************)
(* ReportWriter and the five report builders of                            *)
(* src/docs/librequirements.py.  A report is the sequence of elements the  *)
(* writer emits: k is the RstCloth call (title, h2, h3, content, li, or li *)
(* with indent 3 as "li3"; "statistics" for the two content paragraphs of  *)
(* add_statistics) and v the values its text is formatted from.            *)
(* Blank lines, markup and wording are left out.                           *)
(***************************************************************************)
EXTENDS CrossReference

El(k, v) == [k |-> k, v |-> v]

\* The concatenation of F(x) for the elements x of s, in order.
ForEach(s, F(_)) == FlattenSeq([i \in DOMAIN s |-> F(s[i])])

\* ReportWriter.__init__ opens the file and writes the title.
ReportWriter(title) == <<El("title", title)>>

add_statistics(num_req_with_tests, num_req_without_tests, num_locations, num_tests) ==
  <<El("statistics", <<num_req_with_tests + num_req_without_tests,
                    num_req_without_tests, num_locations, num_tests>>)>>

add_header(header) == <<El("h2", header)>>
add_subheader(header) == <<El("h3", header)>>
add_text(text) == <<El("content", text)>>

add_requirement(req) ==
  add_subheader(req.id) \o add_text(req.description)
    \o [i \in DOMAIN req.specifications |-> El("li", req.specifications[i])]

add_requirement_summary(req) == <<El("li", <<req.id, req.description>>)>>

add_requirement_summary_numberonly(req) ==
  <<El("li", <<id_number(req), req.description>>)>>

add_see_also_other_spec(other_spec) ==
  IF other_spec = <<>> THEN <<>> ELSE <<El("li3", other_spec)>>

add_short_location(location) ==
  IF location.fixturename # <<>>
  THEN <<El("li", <<location.path, location.startline>>)>>
  ELSE <<El("li", <<location.name, location.path, location.startline>>)>>

\* An indented bullet with the description, when there is one.
DescriptionItem(loc) == IF loc.description # "" THEN <<El("li3", loc.description)>> ELSE <<>>

add_implementation_location(impl) ==
  <<El("li", <<impl.name, impl.path, impl.startline>>)>> \o DescriptionItem(impl)

add_testcase_location(test_case) ==
  <<El("li", <<test_case.name, test_case.fixturename, test_case.path,
               test_case.startline>>)>> \o DescriptionItem(test_case)

add_testcase_summary(test_case) ==
  IF Len(test_case.req_ids) > 0
  THEN <<El("li", <<test_case.name, Len(test_case.req_ids)>>)>>
  ELSE <<El("li", <<test_case.name>>)>>

-----------------------------------------------------------------------------
(***************************************************************************)
(* The builders.  Each yields the elements written; the requirement list   *)
(* report also says whether it raised (ok) after opening its file.         *)
(***************************************************************************)
build_location_report(requirements, implementation_descriptions, testcase_descriptions) ==
  LET impl_locations == find_locations_per_requirement(implementation_descriptions)
      test_locations == find_locations_per_requirement(testcase_descriptions)
      split == find_requirements_with_test_cases(requirements, test_locations)
      invalid_tag_locations ==
        find_invalid_tag_locations(requirements, impl_locations, test_locations)
      impls(req) == ForEach(Lookup(impl_locations, req.id), add_implementation_location)
      tests(req) == ForEach(Lookup(test_locations, req.id), add_testcase_location)
      invalid(id) == add_subheader(id)
                       \o ForEach(invalid_tag_locations[id], add_short_location)
  IN ReportWriter("Requirement details")
     \o add_statistics(Len(split[1]), Len(split[2]),
                       Cardinality(find_unique_locations(impl_locations)),
                       Cardinality(find_unique_locations(test_locations)))
     \o add_header("Requirements with test cases")
     \o ForEach(split[1], LAMBDA req : add_requirement(req) \o impls(req) \o tests(req))
     \o add_header("Requirements not yet mapped to automated tests")
     \o ForEach(split[2], LAMBDA req : add_requirement(req) \o impls(req))
     \o add_header("Invalid requirement tags")
     \o IF DOMAIN invalid_tag_locations # {}
        THEN ForEach(SortedSet(DOMAIN invalid_tag_locations), invalid)
        ELSE add_text("None found.")

find_specification_ids(requirements) ==
  SortedSet(UNION {ToSet(requirements[i].specifications) : i \in DOMAIN requirements})

build_specification_report(requirements) ==
  LET citing(spec_id) == SelectSeq(requirements, LAMBDA r : Contains(r.specifications, spec_id))
      entry(spec_id, req) ==
        add_requirement_summary(req)
          \o add_see_also_other_spec(SortedSet(ToSet(req.specifications) \ {spec_id}))
      section(spec_id) ==
        add_subheader(spec_id) \o ForEach(citing(spec_id), LAMBDA r : entry(spec_id, r))
  IN ReportWriter("Mapping from specification to requirements")
     \o ForEach(find_specification_ids(requirements), section)

build_requirement_list_report(requirements) ==
  LET prefixes == {id_prefix(requirements[i]) : i \in DOMAIN requirements}
      section(prefix) ==
        add_subheader(prefix)
          \o ForEach(SortById(SelectSeq(requirements, LAMBDA r : id_prefix(r) = prefix)),
                     add_requirement_summary_numberonly)
  IN IF \E i \in DOMAIN requirements : ~IdOk(requirements[i])
     THEN [ok |-> FALSE, doc |-> ReportWriter("List of requirements")]
     ELSE [ok |-> TRUE,
           doc |-> ReportWriter("List of requirements")
                     \o ForEach(SortedSet(prefixes), section)]

\* Mutant: one section per test case rather than per distinct fixture name.
build_testcase_list_report_per_test(testcase_descriptions) ==
  LET fixtures == SortByKey(testcase_descriptions, LAMBDA t : t.fixturename)
      section(fixturename) ==
        add_subheader(fixturename)
          \o ForEach(SortByKey(SelectSeq(testcase_descriptions,
                                         LAMBDA t : t.fixturename = fixturename),
                               LAMBDA t : t.name),
                     add_testcase_summary)
  IN ReportWriter("List of test cases") \o add_text("The headers are the fixture names.")
     \o ForEach([i \in DOMAIN fixtures |-> fixtures[i].fixturename], section)

build_testcase_list_report(testcase_descriptions) ==
  LET fixtures == {testcase_descriptions[i].fixturename : i \in DOMAIN testcase_descriptions}
      section(fixturename) ==
        add_subheader(fixturename)
          \o ForEach(SortByKey(SelectSeq(testcase_descriptions,
                                         LAMBDA t : t.fixturename = fixturename),
                               LAMBDA t : t.name),
                     add_testcase_summary)
  IN ReportWriter("List of test cases") \o add_text("The headers are the fixture names.")
     \o ForEach(SortedSet(fixtures), section)

\* One line per requirement, built from its ID, description and specifications.
build_vscode_hover_definitions(requirements) ==
  [i \in DOMAIN requirements |->
     <<requirements[i].id, requirements[i].description, requirements[i].specifications>>]

=============================================================================
