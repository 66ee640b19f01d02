------------------------- MODULE RequirementCatalog -------------------------
(***************************************************************************)
(* The requirement data model and the catalog functions of                 *)
(* src/docs/librequirements.py: the Requirement record and its ID parts,   *)
(* parse_requirement_file, detect_requirement_duplicates and               *)
(* describe_missing_requirements.                                          *)
(*                                                                         *)
(* Strings that the code takes apart (requirement IDs, line numbers) are   *)
(* sequences of one-character strings, so that stripping, splitting on the *)
(* last underscore, int() and Python's string order are modelled by what   *)
(* they do; so are the other strings the code sorts (specification IDs,    *)
(* function and fixture names).  Descriptions and paths are opaque.        *)
(***************************************************************************)
EXTENDS Integers, Sequences, SequencesExt, FiniteSets, TLC

Whitespace == {" "}
Digit == ("0" :> 0) @@ ("1" :> 1) @@ ("2" :> 2) @@ ("3" :> 3) @@ ("4" :> 4)
         @@ ("5" :> 5) @@ ("6" :> 6) @@ ("7" :> 7) @@ ("8" :> 8) @@ ("9" :> 9)

\* Code points of the characters the models use; Python compares str by them.
CharCode == (" " :> 32) @@ ("+" :> 43) @@ ("-" :> 45)
            @@ [c \in DOMAIN Digit |-> 48 + Digit[c]]
            @@ ("?" :> 63) @@ ("Q" :> 81) @@ ("R" :> 82) @@ ("_" :> 95)

Chars == DOMAIN CharCode

\* str.strip(chars): drop every leading and trailing character in C.
StripChars(s, C) ==
  LET keep == {i \in 1..Len(s) : s[i] \notin C}
  IN IF keep = {} THEN <<>>
     ELSE SubSeq(s, Min(keep), Max(keep))

\* int(s) accepts surrounding whitespace, one sign and at least one digit.
IsIntLiteral(s) ==
  LET t == StripChars(s, Whitespace)
      body == IF t # <<>> /\ t[1] \in {"+", "-"} THEN Tail(t) ELSE t
  IN body # <<>> /\ \A i \in 1..Len(body) : body[i] \in DOMAIN Digit

IntValue(s) ==
  LET t == StripChars(s, Whitespace)
      neg == t[1] = "-"
      body == IF t[1] \in {"+", "-"} THEN Tail(t) ELSE t
      mag == FoldLeft(LAMBDA acc, c : 10 * acc + Digit[c], 0, body)
  IN IF neg THEN -mag ELSE mag

\* Python's a < b on str: a proper prefix, or smaller at the first difference.
IdLess(a, b) ==
  \/ IsStrictPrefix(a, b)
  \/ \E i \in 1..Len(a) :
        /\ i <= Len(b)
        /\ SubSeq(a, 1, i - 1) = SubSeq(b, 1, i - 1)
        /\ CharCode[a[i]] < CharCode[b[i]]

\* sorted(s, key=Key): Python's sort is stable; insert each after its equals.
SortByKey(s, Key(_)) ==
  LET insert(acc, x) ==
        InsertAt(acc, Cardinality({i \in 1..Len(acc) : ~IdLess(Key(x), Key(acc[i]))}) + 1, x)
  IN FoldLeft(insert, <<>>, s)

SortById(reqs) == SortByKey(reqs, LAMBDA r : r.id)

\* sorted(S) of a set of strings.
SortedSet(S) == SetToSortSeq(S, IdLess)

(***************************************************************************)
(* Requirement._get_id_parts: rsplit on the last "_", int() of the rest.   *)
(* ok = FALSE is the ValueError it raises.                                 *)
(***************************************************************************)
_get_id_parts(id) ==
  LET us == {i \in 1..Len(id) : id[i] = "_"}
      k == IF us = {} THEN 0 ELSE Max(us)
      suffix == SubSeq(id, k + 1, Len(id))
  IN IF k = 0 \/ ~IsIntLiteral(suffix) THEN [ok |-> FALSE]
     ELSE [ok |-> TRUE, prefix |-> SubSeq(id, 1, k - 1),
           number |-> IntValue(suffix)]

IdOk(r) == _get_id_parts(r.id).ok
id_prefix(r) == _get_id_parts(r.id).prefix
id_number(r) == _get_id_parts(r.id).number

\* Mutant: blank specification fragments kept, as empty specifications.
ParseRow_keep_blank(row) ==
  [id |-> StripChars(StripChars(row.id, Whitespace), {"?", "_"}),
   description |-> row.description,
   specifications |-> [i \in DOMAIN row.fragments |-> StripChars(row.fragments[i], Whitespace)]]

(***************************************************************************)
(* parse_requirement_file.  A CSV row is what csv.reader yields for it:    *)
(* its number of columns, the raw ID text, the description and the         *)
(* Specifications cell already split on commas (its raw fragments).  Row 0 *)
(* is the header and is skipped.  A row with                               *)
(* a column count other than 3 raises (ok = FALSE); a row whose stripped   *)
(* ID is empty is dropped; the result is sorted by ID.                     *)
(***************************************************************************)
ParseRow(row) ==
  [id |-> StripChars(StripChars(row.id, Whitespace), {"?", "_"}),
   description |-> row.description,
   specifications |->
     LET kept == SelectSeq(row.fragments, LAMBDA f : StripChars(f, Whitespace) # <<>>)
     IN [i \in DOMAIN kept |-> StripChars(kept[i], Whitespace)]]

\* Mutant: keeps the rows whose stripped ID is empty (no `if id:`).
parse_requirement_file_keep_empty(csv) ==
  LET body == IF csv = <<>> THEN <<>> ELSE Tail(csv)
      rows == [i \in DOMAIN body |-> ParseRow(body[i])]
  IN IF \E i \in DOMAIN body : body[i].cols # 3 THEN [ok |-> FALSE]
     ELSE [ok |-> TRUE, reqs |-> SortById(rows)]

parse_requirement_file(csv) ==
  LET body == IF csv = <<>> THEN <<>> ELSE Tail(csv)
      rows == [i \in DOMAIN body |-> ParseRow(body[i])]
  IN IF \E i \in DOMAIN body : body[i].cols # 3 THEN [ok |-> FALSE]
     ELSE [ok |-> TRUE,
           reqs |-> SortById(SelectSeq(rows, LAMBDA r : r.id # <<>>))]

\* Mutant: raises only when an ID occurs more than twice.
detect_requirement_duplicates_gt2(reqs) ==
  LET count(x) == Cardinality({i \in DOMAIN reqs : reqs[i].id = x})
  IN reqs # <<>> /\ Max({count(reqs[i].id) : i \in DOMAIN reqs}) > 2

(***************************************************************************)
(* detect_requirement_duplicates: TRUE when it raises, i.e. when the most  *)
(* common ID of a non-empty catalog occurs more than once.                 *)
(***************************************************************************)
detect_requirement_duplicates(reqs) ==
  LET count(x) == Cardinality({i \in DOMAIN reqs : reqs[i].id = x})
  IN reqs # <<>> /\ Max({count(reqs[i].id) : i \in DOMAIN reqs}) > 1

\* Mutant: expected_numbers = list(range(1, len(found_numbers))).
describe_missing_requirements_short_range(reqs) ==
  IF \E i \in DOMAIN reqs : ~IdOk(reqs[i]) THEN [ok |-> FALSE]
  ELSE
    LET prefixes == {id_prefix(reqs[i]) : i \in DOMAIN reqs}
        found(p) ==
          LET mine == SelectSeq(reqs, LAMBDA r : id_prefix(r) = p)
          IN SortSeq([j \in DOMAIN mine |-> id_number(mine[j])], <)
    IN [ok |-> TRUE,
        warned |-> {p \in prefixes : found(p) # [j \in 1..Len(found(p)) - 1 |-> j]}]

(***************************************************************************)
(* describe_missing_requirements: ok = FALSE when an ID access raises;     *)
(* otherwise the set of prefixes whose sorted numbers differ from 1..n,    *)
(* the prefixes the code prints a warning for.                             *)
(***************************************************************************)
describe_missing_requirements(reqs) ==
  IF \E i \in DOMAIN reqs : ~IdOk(reqs[i]) THEN [ok |-> FALSE]
  ELSE
    LET prefixes == {id_prefix(reqs[i]) : i \in DOMAIN reqs}
        found(p) ==
          LET mine == SelectSeq(reqs, LAMBDA r : id_prefix(r) = p)
          IN SortSeq([j \in DOMAIN mine |-> id_number(mine[j])], <)
    IN [ok |-> TRUE,
        warned |-> {p \in prefixes : found(p) # [j \in 1..Len(found(p)) |-> j]}]

=============================================================================
