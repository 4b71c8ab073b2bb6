------------------------------- MODULE MCMcp -------------------------------
EXTENDS Mcp

\* Two servers over HTTP, of one name, one over stdio, one with neither.
TestDeclared ==
  << [name |-> "a", url |-> TRUE, command |-> TRUE], [name |-> "b", url |-> FALSE, command |-> TRUE],
     [name |-> "a", url |-> TRUE, command |-> FALSE], [name |-> "c", url |-> FALSE, command |-> FALSE] >>
=============================================================================
