-------------------------- MODULE MCProviderClient --------------------------
(* ProviderClient on small sets of calls, clients and keys.                *)
EXTENDS ProviderClient, TLC

=============================================================================
