-------------------------- MODULE CrossReference ----------------------------
(***************************************************************************)
(* The cross-reference functions of src/docs/librequirements.py.  A        *)
(* ReqLocations defaultdict is a TLA+ function from the keys the code has  *)
(* inserted to their location lists; Lookup is a read through the          *)
(* defaultdict, which yields [] for a missing key.                         *)
(***************************************************************************)
EXTENDS LocationExtractor

Lookup(index, id) == IF id \in DOMAIN index THEN index[id] ELSE <<>>

\* The number of times x occurs in the sequence s.
Occurrences(s, x) == Cardinality({i \in DOMAIN s : s[i] = x})

(***************************************************************************)
(* find_locations_per_requirement: every description is appended to the   *)
(* list of each ID in its req_ids, once per occurrence, in input order.    *)
(***************************************************************************)
find_locations_per_requirement(descriptions) ==
  LET keys == UNION {ToSet(descriptions[i].req_ids) : i \in DOMAIN descriptions}
      copies(d, id) == [n \in 1..Occurrences(d.req_ids, id) |-> d]
  IN [id \in keys |->
        FlattenSeq([i \in DOMAIN descriptions |-> copies(descriptions[i], id)])]

(***************************************************************************)
(* find_unique_locations: a Python set of FunctionDescription.  Its hash   *)
(* is the name only but the dataclass __eq__ compares all fields, so the  *)
(* set keeps one element per distinct record, as a TLA+ set does.          *)
(***************************************************************************)
find_unique_locations(index) == UNION {ToSet(index[id]) : id \in DOMAIN index}

\* Mutant: only the implementation index is searched for invalid IDs.
find_invalid_tag_locations_impl_only(requirements, impl_locations, testcases) ==
  LET requirement_ids == {requirements[i].id : i \in DOMAIN requirements}
      invalid == DOMAIN impl_locations \ requirement_ids
  IN [id \in invalid |-> Lookup(impl_locations, id) \o Lookup(testcases, id)]

(***************************************************************************)
(* find_invalid_tag_locations: IDs used in code or tests that are not      *)
(* catalog IDs, with the implementation locations before the test ones.    *)
(***************************************************************************)
find_invalid_tag_locations(requirements, impl_locations, testcases) ==
  LET requirement_ids == {requirements[i].id : i \in DOMAIN requirements}
      invalid == (DOMAIN impl_locations \cup DOMAIN testcases) \ requirement_ids
  IN [id \in invalid |-> Lookup(impl_locations, id) \o Lookup(testcases, id)]

\* Mutant: the second list is not filtered and holds every requirement.
find_requirements_with_test_cases_unfiltered(requirements, testcases) ==
  LET sorted == SortById(requirements)
  IN <<SelectSeq(sorted, LAMBDA r : r.id \in DOMAIN testcases), sorted>>

(***************************************************************************)
(* find_requirements_with_test_cases: the requirements sorted by ID, split *)
(* into those that are keys of the test index and those that are not.      *)
(***************************************************************************)
find_requirements_with_test_cases(requirements, testcases) ==
  LET sorted == SortById(requirements)
  IN <<SelectSeq(sorted, LAMBDA r : r.id \in DOMAIN testcases),
       SelectSeq(sorted, LAMBDA r : r.id \notin DOMAIN testcases)>>

=============================================================================
