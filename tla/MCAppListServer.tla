---------------------------- MODULE MCAppListServer ----------------------------
(* Instances of AppListServer for TLC.                                       *)
EXTENDS AppListServer

=============================================================================
