----------------------- MODULE MCStateMachineDiagram ------------------------
(***************************************************************************)
(* C files for model checking StateMachineDiagram.  A file is a sequence   *)
(* of items: a table definition (its name and lines, each a row of cells   *)
(* or a comment) or other text.  Render writes the C text the script       *)
(* reads; the items themselves are the tables as the C compiler sees them. *)
(***************************************************************************)
EXTENDS StateMachineDiagram

\* An array definition "x name[] = { {a, b}, /* c */ {d, e}, };".
Table(name, lines, trailing) ==
  [kind |-> "table", name |-> name, lines |-> lines, trailing |-> trailing, chars |-> <<>>]
Text(chars) == [kind |-> "text", name |-> <<>>, lines |-> <<>>, trailing |-> FALSE, chars |-> chars]
Row(cells) == [kind |-> "row", cells |-> cells, chars |-> <<>>]
Comment(chars) == [kind |-> "comment", cells |-> <<>>, chars |-> chars]

Join(cells, sep) ==
  IF cells = <<>> THEN <<>>
  ELSE FoldLeft(LAMBDA acc, c : acc \o sep \o c, Head(cells), Tail(cells))

RenderLine(lines, i, trailing) ==
  LET isLastRow == \A j \in i + 1..Len(lines) : lines[j].kind # "row"
  IN IF lines[i].kind = "comment"
     THEN CommentOpen \o lines[i].chars \o CommentClose \o <<"\n">>
     ELSE <<" ", "{">> \o Join(lines[i].cells, <<",", " ">>) \o <<"}">>
            \o (IF isLastRow /\ ~trailing THEN <<>> ELSE <<",">>) \o <<"\n">>

Render(item) ==
  IF item.kind = "text" THEN item.chars
  ELSE <<"x", " ">> \o item.name \o <<"[", "]", " ", "=", " ", "{", "\n">>
         \o FlattenSeq([i \in DOMAIN item.lines |-> RenderLine(item.lines, i, item.trailing)])
         \o <<"}", ";", "\n">>

Source(items) ==
  [text |-> FlattenSeq([i \in DOMAIN items |-> Render(items[i])]), decls |-> items]

\* States, events and functions.
SI == <<"S", "_", "I">>
SR == <<"S", "_", "R">>
SW == <<"S", "_", "W">>
EX == <<"E", "_", "X">>
ECyc == <<"E", "_">> \o Cyclic
F == <<"f">>
G == <<"g">>
D1 == <<"D", "S", "1">>
D2 == <<"D", "S", "2">>
DE == <<"D", "E", "1">>
G1 == <<"G", "S", "1">>
GE == <<"G", "E">> \o Cyclic

SlaveRows == <<Row(<<SI, EX, SR, F>>), Row(<<SR, ECyc, SR, Null>>)>>
SlaveActions == <<Row(<<SI, G, Null>>), Row(<<SW, Null, Null>>)>>
\* "int n;" and a comment outside the tables.
Decl == Text(<<"i", "n", "t", " ", "n", ";", "\n">>)
Note == Text(CommentOpen \o <<"n", "{">> \o CommentClose \o <<"\n">>)

SlaveFiles ==
  { \* The tables as written in the code base, with trailing commas.
    Source(<<Decl, Table(Transitions, SlaveRows, TRUE), Table(StateActions, SlaveActions, TRUE)>>),
    \* Comments with commas and braces inside a table, no trailing comma,
    \* a state given an entry action twice.
    Source(<<Note, Table(Transitions, <<Comment(<<"a", ",", "{", "}">>), SlaveRows[1],
                                        Comment(<<"b">>), SlaveRows[2]>>, FALSE),
             Decl,
             Table(StateActions, SlaveActions \o <<Row(<<SI, Null, F>>)>>, FALSE)>>),
    \* A transition row with three cells.
    Source(<<Table(Transitions, <<SlaveRows[1], Row(<<SR, EX, SI>>)>>, TRUE),
             Table(StateActions, SlaveActions, TRUE)>>),
    \* Three states named by transitions, a comment after the last row.
    Source(<<Table(Transitions, SlaveRows \o <<Row(<<SR, EX, SW, G>>), Comment(<<"e">>)>>, FALSE),
             Table(StateActions, SlaveActions, TRUE)>>),
    \* No entry/exit table.
    Source(<<Table(Transitions, SlaveRows, TRUE), Decl>>) }

DeviceRows == <<Row(<<D1, DE, D2, F>>), Row(<<D2, DE, D1, G>>), Row(<<D1, DE, D1, Null>>)>>

MasterFiles ==
  { Source(<<Table(DeviceTransitions, DeviceRows, TRUE),
             Table(DeviceStateActions, <<Row(<<D1, F, G>>)>>, TRUE),
             Decl,
             Table(GroupTransitions, <<Row(<<G1, GE, G1, Null>>)>>, FALSE),
             Table(GroupStateActions, <<Row(<<G1, Null, Null>>)>>, TRUE)>>),
    \* The group entry/exit table has a row with four cells.
    Source(<<Table(DeviceTransitions, DeviceRows, FALSE),
             Table(DeviceStateActions, <<Row(<<D2, Null, G>>)>>, TRUE),
             Table(GroupTransitions, <<Row(<<G1, GE, G1, F>>)>>, TRUE),
             Table(GroupStateActions, <<Row(<<G1, Null, Null, F>>)>>, TRUE)>>) }

ScanFiles == ("slave" :> SlaveFiles) @@ ("master" :> MasterFiles)

\* Well-formed tables the script cannot read: a comment inside a table that
\* holds a semicolon, and a comment naming the table before its definition,
\* followed by a declaration.
SpuriousRaiseFiles ==
  ("slave" :> {Source(<<Table(Transitions, <<SlaveRows[1], Comment(<<"x", ";">>), SlaveRows[2]>>, TRUE),
                        Table(StateActions, SlaveActions, TRUE)>>),
               Source(<<Text(CommentOpen \o Transitions \o <<"[", "]">> \o CommentClose), Decl,
                        Table(Transitions, SlaveRows, TRUE), Table(StateActions, SlaveActions, TRUE)>>)})
  @@ ("master" :> {CHOOSE m \in MasterFiles : TRUE})

=============================================================================
