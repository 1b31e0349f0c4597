-------------------------- MODULE MCDeadlineAlerts --------------------------
(* A small instance of DeadlineAlerts: on the first day one program is due a *)
(* d7 alert, or a d3 alert once its deadline is moved, and two a d1 alert,   *)
(* so that the jobs can meet on the same candidates and on different ones.   *)
EXTENDS DeadlineAlerts, TLC

CONSTANTS p7, p1, q1

MCSubscribed == [user: Users, program: Programs]
MCDeadline   == p7 :> 7 @@ p1 :> 1 @@ q1 :> 1
MCDeadlines  == p7 :> {3} @@ p1 :> {} @@ q1 :> {}
=============================================================================
