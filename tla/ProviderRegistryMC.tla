------------------------- MODULE ProviderRegistryMC -------------------------
(* TLC instances of ProviderRegistry.                                       *)
EXTENDS ProviderRegistry, TLC
=============================================================================
