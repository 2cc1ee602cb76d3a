---------------------------- MODULE MCScrapeDrive ---------------------------
(* ScrapeDrive on small instances: every request, every configuration. *)
EXTENDS ScrapeDrive, TLC
=============================================================================
