---------------------------- MODULE MCBridgePoint ----------------------------
(* Five transfers in three blocks, of one meson and one symbiosis bridge:  *)
(* two of one user in one block, a block with one transfer of each query,  *)
(* and a second day.  Somebody else receives BTC in the first block, and   *)
(* the user of the first block in the second.                              *)
EXTENDS BridgePoint

MCBlockOf == [t \in Transfer |-> IF t <= 2 THEN 1 ELSE IF t <= 4 THEN 2 ELSE 3]
MCPairOf  == [t \in Transfer |-> IF t \in {1, 2, 3} THEN "meson" ELSE "symbiosis"]
MCUserOf  == [t \in Transfer |-> IF t <= 2 THEN "u" ELSE "v"]
MCDayOf   == [t \in Transfer |-> IF t <= 2 THEN 1 ELSE 2]
MCIdOf    == [p \in {"meson", "symbiosis"} |-> p]
MCBtcReceivers == [b \in 1..3 |-> IF b = 1 THEN {"w"} ELSE IF b = 2 THEN {"u"} ELSE {}]
(* No two transfers of a user in one block. *)
ApartUserOf == [t \in Transfer |-> IF t = 1 THEN "u" ELSE "v"]
==============================================================================
