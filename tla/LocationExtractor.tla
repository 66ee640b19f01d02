------------------------- MODULE LocationExtractor --------------------------
(***************************************************************************)
(* parse_doxygen_xmlfile and parse_doxygen_files of                        *)
(* src/docs/librequirements.py: Doxygen XML function records become        *)
(* FunctionDescription records.                                            *)
(*                                                                         *)
(* A memberdef of kind function is a record of the parts the code reads:   *)
(*   name       text of ./name (<<>> when absent or empty)                 *)
(*   hasLoc     whether ./location exists; file and line are its           *)
(*              attributes, line as raw text (<<>> when absent)            *)
(*   para1      text of ./detaileddescription/para[1] ("" when absent)     *)
(*   xrefs      the xrefsect elements in order: title text and the raw     *)
(*              text of each xrefdescription/para (<<>> when no text)      *)
(*   p1ref      ./param[1]/type/ref: <<>> when absent, <<t>> when present  *)
(*   p1type     text of ./param[1]/type, p2type of ./param[2]/type (<<>>   *)
(*              when absent or empty); names are character sequences      *)
(* An XML file is a sequence of such records in document order.           *)
(***************************************************************************)
EXTENDS RequirementCatalog

\* The FunctionDescription dataclass (frozen; __eq__ compares every field).
FunctionDescription(name, description, path, startline, fixturename, req_ids) ==
  [name |-> name, description |-> description, path |-> path,
   startline |-> startline, fixturename |-> fixturename, req_ids |-> req_ids]

\* int(location.attrib["line"]), 0 when the attribute is missing or not a number.
LineNo(e) == IF IsIntLiteral(e.line) THEN IntValue(e.line) ELSE 0

\* req_ids: the stripped texts of the last xrefsect titled "Requirement".
RequirementTags(e) ==
  LET reqsects == SelectSeq(e.xrefs, LAMBDA x : x.title = "Requirement")
      texts(x) == SelectSeq(x.paras, LAMBDA t : t # <<>>)
  IN IF reqsects = <<>> THEN <<>>
     ELSE LET last == texts(reqsects[Len(reqsects)])
          IN [i \in DOMAIN last |-> StripChars(last[i], Whitespace)]

\* The test fixture: ./param[1]/type/ref if present, else ./param[1]/type.
FixtureName(e) == IF e.p1ref # <<>> THEN e.p1ref[1] ELSE e.p1type

(***************************************************************************)
(* One iteration of the loop over function elements.  filepath and lineno  *)
(* are locals of parse_doxygen_xmlfile assigned only when the element has  *)
(* a location, so an element without one reuses the previous element's     *)
(* values, and the first such element of a file raises                     *)
(* UnboundLocalError.  st carries them between iterations.                 *)
(***************************************************************************)
ParseFunctionElement(st, e, is_testcase_file) ==
  LET bound == st.bound \/ e.hasLoc
      filepath == IF e.hasLoc THEN e.file ELSE st.filepath
      lineno == IF e.hasLoc THEN LineNo(e) ELSE st.lineno
      item == IF is_testcase_file
              THEN FunctionDescription(e.p2type, e.para1, filepath, lineno,
                                       FixtureName(e), RequirementTags(e))
              ELSE FunctionDescription(e.name, e.para1, filepath, lineno,
                                       <<>>, RequirementTags(e))
  IN IF st.failed \/ ~bound THEN [st EXCEPT !.failed = TRUE]
     ELSE [bound |-> TRUE, filepath |-> filepath, lineno |-> lineno,
           failed |-> FALSE, out |-> Append(st.out, item)]

parse_doxygen_xmlfile(file, is_testcase_file) ==
  FoldLeft(LAMBDA st, e : ParseFunctionElement(st, e, is_testcase_file),
           [bound |-> FALSE, filepath |-> "", lineno |-> 0,
            failed |-> FALSE, out |-> <<>>],
           file)

(***************************************************************************)
(* parse_doxygen_files: the files in the order the glob patterns yield     *)
(* them, each parsed in its own call; ok = FALSE when one of them raises.  *)
(***************************************************************************)
parse_doxygen_files(files, is_testcase_file) ==
  LET parsed == [i \in DOMAIN files |-> parse_doxygen_xmlfile(files[i], is_testcase_file)]
  IN IF \E i \in DOMAIN parsed : parsed[i].failed THEN [ok |-> FALSE]
     ELSE [ok |-> TRUE,
           descriptions |-> FlattenSeq([i \in DOMAIN parsed |-> parsed[i].out])]

=============================================================================
