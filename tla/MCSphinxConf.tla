---------------------------- MODULE MCSphinxConf ----------------------------
(***************************************************************************)
(* The test directory of MCTokenCount, and root CMakeLists.txt files: none *)
(* readable, the project() line of the repository, a version that is not  *)
(* a number, the tag twice, and a CLINK_VERSION variable that does not     *)
(* match.                                                                  *)
(***************************************************************************)
EXTENDS MCTokenCount, SphinxConf

ConfCMakeLists ==
  { [exists |-> FALSE, text |-> <<>>],
    [exists |-> TRUE, text |-> Text("project(CLINK VERSION 0.1.1)")],
    [exists |-> TRUE, text |-> Text("project(CLINK VERSION ${V})")],
    [exists |-> TRUE, text |-> Text("CLINK VERSION 2 CLINK VERSION 3.1")],
    [exists |-> TRUE, text |-> Text("set(CLINK_VERSION 1.0)")] }

=============================================================================
