------------------------------ MODULE MCPageTables ------------------------------
(* Instances of PageTables for TLC. *)
EXTENDS PageTables

\* One more address, in a directory entry of its own.
MCOthers == {<<ENTRIES \div 4 + 1, 2>>}
=================================================================================
