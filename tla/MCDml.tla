------------------------------- MODULE MCDml -------------------------------
(* Instances of Dml for TLC. *)
EXTENDS Dml

\* A table with every constraint; other rows go to a table without a definition.
Tables == {[pk |-> TRUE, unique |-> TRUE, notNull |-> TRUE]}

Rows == {<<<<1, "a">>>>, <<<<2, "a">>>>, <<<<1, "b">>, <<2, "">>>>}
Changes == {<<<<"all">>, "b">>, <<<<"c", "a">>, "">>}
Filters == {<<"all">>, <<"id", 1>>}
Cells == {<<1, "b">>}

\* The sessions are interchangeable.
Perms == Permutations(Session)

Everything == AllCalls
Other == AllCalls \ {"insert", "update", "delete", "begin", "commit"}
=============================================================================
