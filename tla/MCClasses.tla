------------------------------ MODULE MCClasses ------------------------------
(***************************************************************************)
(* Classes for one question: the reading of a timetable page of two rows.  *)
(***************************************************************************)
EXTENDS Classes

MCRows == [lead : {"crn"}, crn : {1}, short : BOOLEAN, timed : {TRUE}, place : {"tba", "listed"}]
          \cup [lead : {"additional times"}, crn : {0}, short : {FALSE}, timed : {TRUE}, place : {"listed"}]
MCTables == [of : {"table"}, rows : {s \in [1..2 -> MCRows] : s[1].lead = "crn"}]

TableSpec ==
    /\ ask \in MCTables /\ answer = NoAnswer
    /\ [][ClassesNext]_<<ask, answer>>
=============================================================================
