---------------------------- MODULE CompanyRunMC ----------------------------
(* TLC instances of CompanyRun.                                            *)
EXTENDS CompanyRun
=============================================================================
