---------------------------- MODULE MCDirectPoint ----------------------------
(* A small instance of DirectPoint: four addresses, one of them the vault, *)
(* one a pool that may be registered at any time, one that holds only from *)
(* block 2 on.  Three addresses to a page make two pages, one address to a *)
(* statement splits the writes of the first page.                          *)
EXTENDS DirectPoint

MCFirstHeld == [a \in Addr |-> IF a = 3 THEN 2 ELSE 1]
==============================================================================
