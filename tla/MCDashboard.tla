------------------------------ MODULE MCDashboard -----------------------------
(* Values of Dashboard's constants for TLC: two capture points of one node *)
(* and, as the store changes, lists with none, one or both of them.        *)
EXTENDS Dashboard

Place(point, first, last) ==
  [node_id |-> "n", capture_point |-> point,
   first_bucket_start |-> first, last_bucket_start |-> last]

MCItem == {Place("eth0", 1, 2), Place("eth0", 1, 4), Place("wg0", 0, 3)}

MCAnswers == {<<>>, <<Place("eth0", 1, 2)>>,
              <<Place("wg0", 0, 3), Place("eth0", 1, 4)>>}
===============================================================================
