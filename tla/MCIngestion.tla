---------------------------- MODULE MCIngestion ----------------------------
(* A small instance of Ingestion: two youth_center records and one          *)
(* national_welfare record that may have the title of the first.            *)
EXTENDS Ingestion, TLC

CONSTANTS y1, y2, n1, t1, t2, deep, bokjiro, nightly, manual

MCSourceOf == y1 :> "youth_center" @@ y2 :> "youth_center" @@ n1 :> "national_welfare"

Says(t, l) == [title |-> t, link |-> l]

MCPublishable == y1 :> {Says(t1, deep), Says(t1, NoLink)}
              @@ y2 :> {Says(t2, deep)}
              @@ n1 :> {Says(t1, bokjiro)}

MCFeed == y1 :> {Says(t1, deep)} @@ y2 :> {} @@ n1 :> {Says(t1, bokjiro)}

\* The cron job runs every source; the admin's sync stops before the welfare one.
NightlyPlan == nightly :> <<"youth_center", "national_welfare">>
ManualPlan  == manual  :> <<"youth_center">>
MCPlan == NightlyPlan @@ ManualPlan

=============================================================================
