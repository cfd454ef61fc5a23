-------------------------- MODULE MCRedistribution --------------------------
(* A pool whose adapter never prints anything, and one with two holders;   *)
(* three hours over two blocks, two of which may overlap; pages of a row.  *)
EXTENDS Redistribution

MCPools == <<"agx", "sumer">>
MCHolders == [p \in {"agx", "sumer"} |-> IF p = "agx" THEN {} ELSE {"u", "v"}]
==============================================================================
