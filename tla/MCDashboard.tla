----------------------------- MODULE MCDashboard -----------------------------
(***************************************************************************)
(* Small instance of Dashboard: one job runs, one is queued and one waits. *)
(***************************************************************************)
EXTENDS Dashboard

Request(kind, verbose, in_bounds) == [kind |-> kind, verbose |-> verbose, in_bounds |-> in_bounds]
MCPageRequests == {Request("fibonacci", TRUE, TRUE), Request("pedersen", FALSE, TRUE)}
MCOtherRequests == {Request("fibonacci", FALSE, TRUE), Request("cairo", TRUE, TRUE), Request("unknown", FALSE, TRUE)}
=============================================================================
