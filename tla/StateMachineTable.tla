------------------------- MODULE StateMachineTable --------------------------
(***************************************************************************)
(* get_table of src/docs/parse_statemachine.py: reading a C array          *)
(* definition out of the text of a C file by scanning for delimiters.      *)
(*                                                                         *)
(* A text is a sequence of one-character strings.  Python's str.find,      *)
(* slicing, strip and split are 0-based; Find and PySlice take and give    *)
(* 0-based positions as the code does, over 1-based TLA+ sequences.        *)
(***************************************************************************)
EXTENDS Integers, Sequences, SequencesExt, FiniteSets

\* s.find(sub, start): the lowest 0-based position >= start of sub in s, or -1.
Find(s, sub, start) ==
  LET at == {i \in start..Len(s) - Len(sub) : SubSeq(s, i + 1, i + Len(sub)) = sub}
  IN IF at = {} THEN -1 ELSE Min(at)

\* A slice position as Python resolves it: negative counts from the end, clamped.
SliceIndex(s, i) == IF i < 0 THEN Max({0, Len(s) + i}) ELSE Min({i, Len(s)})

\* s[a:b]
PySlice(s, a, b) ==
  LET from == SliceIndex(s, a)
      to == SliceIndex(s, b)
  IN IF from >= to THEN <<>> ELSE SubSeq(s, from + 1, to)

\* s.lstrip(c) and s.rstrip(c) for a single character c.
RECURSIVE LStrip(_, _)
LStrip(s, c) == IF s # <<>> /\ Head(s) = c THEN LStrip(Tail(s), c) ELSE s

RECURSIVE RStrip(_, _)
RStrip(s, c) == IF s # <<>> /\ Last(s) = c THEN RStrip(Front(s), c) ELSE s

\* s.split(sep): the pieces between non-overlapping occurrences, left to right.
RECURSIVE Split(_, _)
Split(s, sep) ==
  LET i == Find(s, sep, 0)
  IN IF i = -1 THEN <<s>>
     ELSE <<SubSeq(s, 1, i)>> \o Split(SubSeq(s, i + Len(sep) + 1, Len(s)), sep)

CommentOpen == <<"/", "*">>
CommentClose == <<"*", "/">>

(***************************************************************************)
(* re.sub("/\*.*?\*/", "", s, DOTALL): each "/*" up to the first "*/"     *)
(* after it is removed, scanning left to right; an unclosed "/*" and all   *)
(* that follows it is kept.                                                *)
(***************************************************************************)
RECURSIVE RemoveComments(_)
RemoveComments(s) ==
  LET i == Find(s, CommentOpen, 0)
      j == Find(s, CommentClose, i + 2)
  IN IF i = -1 \/ j = -1 THEN s
     ELSE SubSeq(s, 1, i) \o RemoveComments(SubSeq(s, j + 3, Len(s)))

\* Mutant: the end of the table searched for from the start of the text.
get_table_semicolon_from_start(fulltext, tablename, number_of_columns) ==
  LET cleaned_text == Remove(Remove(fulltext, "\n"), " ")
      tableposition == Find(cleaned_text, tablename \o <<"[", "]">>, 0)
      first_curly_pos == Find(cleaned_text, <<"{">>, tableposition + 1)
      endposition == Find(cleaned_text, <<";">>, 0)
      table == RStrip(RStrip(RStrip(LStrip(
                 RemoveComments(PySlice(cleaned_text, first_curly_pos, endposition)),
                 "{"), "}"), ","), "}")
      rows == [i \in DOMAIN Split(table, <<"}", ",", "{">>) |->
                 Split(Split(table, <<"}", ",", "{">>)[i], <<",">>)]
  IN IF tableposition = -1 THEN [ok |-> FALSE]
     ELSE IF \E i \in DOMAIN rows : Len(rows[i]) # number_of_columns
          THEN [ok |-> FALSE]
          ELSE [ok |-> TRUE, rows |-> rows]

\* Mutant: the closing brace before a trailing comma is left on the last cell.
get_table_one_rstrip(fulltext, tablename, number_of_columns) ==
  LET cleaned_text == Remove(Remove(fulltext, "\n"), " ")
      tableposition == Find(cleaned_text, tablename \o <<"[", "]">>, 0)
      first_curly_pos == Find(cleaned_text, <<"{">>, tableposition + 1)
      endposition == Find(cleaned_text, <<";">>, tableposition)
      table == RStrip(RStrip(LStrip(
                 RemoveComments(PySlice(cleaned_text, first_curly_pos, endposition)),
                 "{"), "}"), ",")
      rows == [i \in DOMAIN Split(table, <<"}", ",", "{">>) |->
                 Split(Split(table, <<"}", ",", "{">>)[i], <<",">>)]
  IN IF tableposition = -1 THEN [ok |-> FALSE]
     ELSE IF \E i \in DOMAIN rows : Len(rows[i]) # number_of_columns
          THEN [ok |-> FALSE]
          ELSE [ok |-> TRUE, rows |-> rows]

(***************************************************************************)
(* get_table: [ok |-> FALSE] where the code raises ValueError (table name  *)
(* not found, or a row with another number of cells), else the rows as     *)
(* sequences of cells.                                                     *)
(***************************************************************************)
get_table(fulltext, tablename, number_of_columns) ==
  LET cleaned_text == Remove(Remove(fulltext, "\n"), " ")
      tableposition == Find(cleaned_text, tablename \o <<"[", "]">>, 0)
      first_curly_pos == Find(cleaned_text, <<"{">>, tableposition + 1)
      endposition == Find(cleaned_text, <<";">>, tableposition)
      table == RStrip(RStrip(RStrip(LStrip(
                 RemoveComments(PySlice(cleaned_text, first_curly_pos, endposition)),
                 "{"), "}"), ","), "}")
      rows == [i \in DOMAIN Split(table, <<"}", ",", "{">>) |->
                 Split(Split(table, <<"}", ",", "{">>)[i], <<",">>)]
  IN IF tableposition = -1 THEN [ok |-> FALSE]
     ELSE IF \E i \in DOMAIN rows : Len(rows[i]) # number_of_columns
          THEN [ok |-> FALSE]
          ELSE [ok |-> TRUE, rows |-> rows]

=============================================================================
