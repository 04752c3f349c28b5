---------------------------- MODULE WorkReportsMC ----------------------------
(* TLC instances of WorkReports.                                            *)
EXTENDS WorkReports, TLC
==============================================================================
