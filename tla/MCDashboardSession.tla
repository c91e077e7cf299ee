--------------------------- MODULE MCDashboardSession ---------------------------
(***************************************************************************)
(* Three clicks while two batch runs of one model version, each with a Hybrid  *)
(* version, are published: three on the analytics page, or one on any other page  *)
(* and two on the recommendations page.                                            *)
(***************************************************************************)
EXTENDS DashboardSession, TLC

CONSTANTS g1, g2, v1, v2, m, count, rate

MCModelOf == [g \in {g1, g2} |-> m]
MCGenOf == [v \in {v1, v2} |-> IF v = v1 THEN g1 ELSE g2]
MCAsOf == [v \in {v1, v2} |-> IF v = v1 THEN 1 ELSE 2]
MCStay == [page \in Pages |-> {page}]
MCGoOn == [page \in Pages |-> IF page = "analytics" THEN {"analytics"}
                                                   ELSE {"recommendations"}]
MCLinks == <<MCStay, MCGoOn, MCGoOn>>
MCBegins == Pages

(* Nothing tells the two rankings apart. *)
OrderSymmetry == Permutations(Orders)
================================================================================
