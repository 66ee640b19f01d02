------------------------ MODULE StateMachineDiagram -------------------------
(***************************************************************************)
(* src/docs/parse_statemachine.py: main() draws three state machine        *)
(* diagrams, each read from a transition table and an entry/exit table of  *)
(* a C file, and saves each as a graphviz dot file.  One action per call   *)
(* of parse_state_statemachine; a ValueError ends the process.  A docs     *)
(* build runs the script again (Rebuild), as a new process.                *)
(*                                                                         *)
(* A saved graph is the sequence of its node statements and the sequence  *)
(* of its edge statements; the HTML of a node label is abstracted to the  *)
(* triple of texts it shows.                                               *)
(***************************************************************************)
EXTENDS StateMachineTable

CONSTANTS
  SourceFiles,   \* per C file ("slave", "master"), the texts it may have
  MaxBuilds      \* how many times the script is run

\* Table and prefix names of main(), as character sequences.  Each name
\* keeps the suffix relations of the real ones ("transitions" is a suffix
\* of "device_transitions").
Transitions == <<"T">>
StateActions == <<"A">>
DeviceTransitions == <<"D", "T">>
DeviceStateActions == <<"D", "A">>
GroupTransitions == <<"G", "T">>
GroupStateActions == <<"G", "A">>
SlaveStatePrefix == <<"S", "_">>
SlaveEventPrefix == <<"E", "_">>
DeviceStatePrefix == <<"D", "S">>
DeviceEventPrefix == <<"D", "E">>
GroupStatePrefix == <<"G", "S">>
GroupEventPrefix == <<"G", "E">>
Cyclic == <<"C", "Y", "C", "L", "I", "C">>
Null == <<"N", "U", "L", "L">>

Diagram(file, ttable, etable, state_prefix, event_prefix) ==
  [file |-> file, transitions |-> ttable, actions |-> etable,
   state_prefix |-> state_prefix, event_prefix |-> event_prefix]

\* The three calls of main().
Diagrams ==
  << Diagram("slave", Transitions, StateActions, SlaveStatePrefix, SlaveEventPrefix),
     Diagram("master", DeviceTransitions, DeviceStateActions, DeviceStatePrefix,
             DeviceEventPrefix),
     Diagram("master", GroupTransitions, GroupStateActions, GroupStatePrefix,
             GroupEventPrefix) >>

remove_prefix(prefix, inputstring) ==
  IF IsPrefix(prefix, inputstring)
  THEN SubSeq(inputstring, Len(prefix) + 1, Len(inputstring)) ELSE inputstring

filter_function_name(functionname) == IF functionname # Null THEN functionname ELSE <<>>

add_parenthesis_to_functionname(functionname) ==
  IF functionname = <<>> THEN <<>> ELSE functionname \o <<"(", ")">>

generate_edge_label(eventname, functionname) ==
  IF functionname # <<>> THEN eventname \o <<":", "\n">> \o functionname ELSE eventname

calculate_node_color(eventname) == IF Find(eventname, Cyclic, 0) # -1 THEN "red" ELSE "black"

Transition(start_state, end_state, event, functionname) ==
  [start_state |-> start_state, end_state |-> end_state, event |-> event,
   functionname |-> functionname]

(***************************************************************************)
(* get_states_and_transitions after its two get_table calls, from the rows *)
(* of the transition and entry/exit tables.  state_infos is a dict whose   *)
(* first keys are a Python set of the states named by transitions, in the  *)
(* set's iteration order, followed by the states only the entry/exit table *)
(* names, in table order ("extra").  A later entry/exit row of a state     *)
(* overwrites an earlier one.                                              *)
(***************************************************************************)
StatesAndTransitions(transition_rows, entry_exit_rows) ==
  LET transitions == [i \in DOMAIN transition_rows |->
                        Transition(transition_rows[i][1], transition_rows[i][3],
                                   transition_rows[i][2],
                                   filter_function_name(transition_rows[i][4]))]
      state_names == {transitions[i].start_state : i \in DOMAIN transitions}
                       \cup {transitions[i].end_state : i \in DOMAIN transitions}
      extra == FoldLeft(LAMBDA seen, row : IF row[1] \in state_names \/ Contains(seen, row[1])
                                           THEN seen ELSE Append(seen, row[1]),
                        <<>>, entry_exit_rows)
      info(s) == LET rows == SelectSeq(entry_exit_rows, LAMBDA row : row[1] = s)
                 IN IF rows = <<>> THEN [on_entry |-> <<>>, on_exit |-> <<>>]
                    ELSE [on_entry |-> filter_function_name(Last(rows)[2]),
                          on_exit |-> filter_function_name(Last(rows)[3])]
  IN [ok |-> TRUE, state_names |-> state_names, extra |-> extra,
      state_infos |-> [s \in state_names \cup ToSet(extra) |-> info(s)],
      transitions |-> transitions]

get_states_and_transitions(source_code, transition_table_name, entry_exit_table_name) ==
  LET tt == get_table(source_code, transition_table_name, 4)
      et == get_table(source_code, entry_exit_table_name, 3)
  IN IF ~tt.ok \/ ~et.ok THEN [ok |-> FALSE]
     ELSE StatesAndTransitions(tt.rows, et.rows)

\* The orders the keys of state_infos can have, one per hash seed.
StateOrders(st) == {p \o st.extra : p \in SetToSeqs(st.state_names)}

(***************************************************************************)
(* save_dot_file: one node statement per key of state_infos in dict order, *)
(* then one edge statement per transition in table order.                  *)
(***************************************************************************)
save_dot_file(st, order, state_prefix, event_prefix) ==
  [nodes |-> [i \in DOMAIN order |->
                <<order[i],
                  <<remove_prefix(state_prefix, order[i]),
                    add_parenthesis_to_functionname(st.state_infos[order[i]].on_entry),
                    add_parenthesis_to_functionname(st.state_infos[order[i]].on_exit)>>>>],
   edges |-> [i \in DOMAIN st.transitions |->
                LET t == st.transitions[i]
                IN [start |-> t.start_state, end |-> t.end_state,
                    label |-> generate_edge_label(remove_prefix(event_prefix, t.event),
                                                  add_parenthesis_to_functionname(t.functionname)),
                    color |-> calculate_node_color(t.event)]]]

\* No dot file yet.  A saved graph has an edge: get_table never yields zero rows.
NoGraph == [nodes |-> <<>>, edges |-> <<>>]

VARIABLES
  source,   \* the text of each C file
  pc,       \* the next diagram of main(), Done once main() has returned
  saved,    \* the dot file of each diagram, or NoGraph
  raisedAt, \* the diagram whose call raised ValueError, or 0
  builds    \* runs of the script so far

vars == <<source, pc, saved, raisedAt, builds>>

Done == Len(Diagrams) + 1

Init ==
  /\ source \in [DOMAIN SourceFiles -> UNION {SourceFiles[f] : f \in DOMAIN SourceFiles}]
  /\ \A f \in DOMAIN SourceFiles : source[f] \in SourceFiles[f]
  /\ pc = 1
  /\ saved = [d \in DOMAIN Diagrams |-> NoGraph]
  /\ raisedAt = 0
  /\ builds = 1

\* parse_state_statemachine for diagram pc of main().
ParseStateStatemachine ==
  LET d == Diagrams[pc]
      st == get_states_and_transitions(source[d.file].text, d.transitions, d.actions)
  IN /\ raisedAt = 0
     /\ pc < Done
     /\ \/ /\ st.ok
           /\ \E order \in StateOrders(st) :
                saved' = [saved EXCEPT ![pc] = save_dot_file(st, order, d.state_prefix,
                                                             d.event_prefix)]
           /\ pc' = pc + 1
           /\ UNCHANGED raisedAt
        \/ /\ ~st.ok
           /\ raisedAt' = pc
           /\ UNCHANGED <<pc, saved>>
     /\ UNCHANGED <<source, builds>>

\* The docs build runs the script again over the same C files.
Rebuild ==
  /\ raisedAt = 0
  /\ pc = Done
  /\ builds < MaxBuilds
  /\ pc' = 1
  /\ builds' = builds + 1
  /\ UNCHANGED <<source, saved, raisedAt>>

\* The process has exited and is not run again.
Exited == (raisedAt # 0 \/ (pc = Done /\ builds = MaxBuilds)) /\ UNCHANGED vars

Next == ParseStateStatemachine \/ Rebuild \/ Exited

Spec == Init /\ [][Next]_vars

-----------------------------------------------------------------------------
(***************************************************************************)
(* The tables as the C compiler reads them: source[f].decls is the file as *)
(* a sequence of items, a table item with its name and lines (rows of      *)
(* cells, comments).  The first table of a name is the one meant.          *)
(***************************************************************************)
Declared(f, name) == SelectSeq(source[f].decls, LAMBDA x : x.kind = "table" /\ x.name = name)

RowsOf(item) ==
  LET rows == SelectSeq(item.lines, LAMBDA l : l.kind = "row")
  IN [i \in DOMAIN rows |-> rows[i].cells]

WellFormed(f, name, n) ==
  /\ Declared(f, name) # <<>>
  /\ \A r \in ToSet(RowsOf(Declared(f, name)[1])) : Len(r) = n

Intended(d) ==
  StatesAndTransitions(RowsOf(Declared(d.file, d.transitions)[1]),
                       RowsOf(Declared(d.file, d.actions)[1]))

(***************************************************************************)
(* Diagrams match their tables (get_table, get_states_and_transitions,     *)
(* save_dot_file): a saved dot file is drawn from well-formed tables and   *)
(* is the graph of the tables as declared in the C file (comments,         *)
(* layout and other declarations notwithstanding), for some order of the   *)
(* state set.                                                              *)
(***************************************************************************)
DiagramMatchesTables ==
  \A i \in DOMAIN Diagrams :
     saved[i] # NoGraph =>
       LET d == Diagrams[i]
       IN /\ WellFormed(d.file, d.transitions, 4)
          /\ WellFormed(d.file, d.actions, 3)
          /\ saved[i] \in {save_dot_file(Intended(d), o, d.state_prefix, d.event_prefix) :
                            o \in StateOrders(Intended(d))}

(***************************************************************************)
(* get_table raises only for a table that is missing or has a row with     *)
(* the wrong number of cells: the call of parse_state_statemachine that    *)
(* raised ValueError was given such a table.                               *)
(***************************************************************************)
RaisesOnlyOnMalformedTables ==
  raisedAt # 0 =>
    LET d == Diagrams[raisedAt]
    IN ~WellFormed(d.file, d.transitions, 4) \/ ~WellFormed(d.file, d.actions, 3)

(***************************************************************************)
(* Rebuilding the docs from unchanged C files leaves every saved dot file  *)
(* as it was: save_dot_file writes the same file in every run.             *)
(***************************************************************************)
DiagramReproducible ==
  [][\A i \in DOMAIN Diagrams :
       saved[i] # NoGraph /\ saved'[i] # NoGraph => saved'[i] = saved[i]]_vars

=============================================================================
