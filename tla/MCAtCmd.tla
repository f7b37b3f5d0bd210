------------------------------ MODULE MCAtCmd ------------------------------
(* Three lines, built-in tables of two commands and of one, and two tables   *)
(* of an application, for TLC.                                               *)
EXTENDS AtCmd

CONSTANTS test, reset, ota, one, two, three

BaseTable == <<test, reset>>
TestTable == <<ota>>
OtherTables == {<<one>>, <<two, three>>}
=============================================================================
