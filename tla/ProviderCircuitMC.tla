-------------------------- MODULE ProviderCircuitMC --------------------------
(* TLC instances of ProviderCircuit: an execution and the probe.                 *)
EXTENDS ProviderCircuit
=============================================================================
