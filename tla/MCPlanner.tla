------------------------------ MODULE MCPlanner ------------------------------
(***************************************************************************)
(* Planner on a small instance: two halls, two stops, a trip of four       *)
(* minutes on foot, meals of two minutes.                                  *)
(***************************************************************************)
EXTENDS Planner, TLC

MCHalls == <<"d2", "westend">>
MCSpot == [origin |-> 0, dest |-> 4] @@ [d2 |-> 1, westend |-> 2]
MCStops == {0, 3}
Window(o, c) == [open |-> o, close |-> c]
MCHourSets == {{}, {Window(0, 3)}, {Window(0, 2), Window(4, 12)}, {Window(0, 12)}}
MCTimetables == {{}, {1}, {3}, {2, 6}}
Row(d, f) == [delta |-> d, full |-> f]
MCLiveRows == {<< >>, <<Row(None, TRUE)>>, <<Row(-1, FALSE)>>, <<Row(2, FALSE)>>,
               <<Row(0, FALSE), Row(-3, TRUE)>>}
=============================================================================
