-------------------------- MODULE MCLiveDashboard --------------------------
(* Small instances of LiveDashboard: one page and its stream. *)
EXTENDS LiveDashboard
=============================================================================
