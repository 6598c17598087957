--------------------------- MODULE MCProviderRun ---------------------------
(* Instances of ProviderRun for TLC. *)
EXTENDS ProviderRun

CONSTANTS c1, c2        \* callers of cancel()
=============================================================================
