------------------------------ MODULE MCFsMonitor ------------------------------
(* Instances of FsMonitor for TLC.                                           *)
EXTENDS FsMonitor, TLC

=============================================================================
