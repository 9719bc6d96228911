---------------------------- MODULE MCStatements ----------------------------
(* Instances of Statements for TLC. *)
EXTENDS Statements

\* Every statement but INSERT, UPDATE and DELETE, which wait for the tree under the
\* catalog's lock.
TreeFirst == AllKinds \ {"dml"}
=============================================================================
